SPECIFICATION Spec
CONSTANTS
  Directories <- MCDirectories
  AllocBase = 2
INVARIANTS
  SlotsFit
  ReadyForBatch
\* The scan ends.
CHECK_DEADLOCK FALSE
