SPECIFICATION Spec
CONSTANTS
  Directories <- MCDirectories
  AllocBase = 2
INVARIANTS
  OnlyUnitsCounted
\* The scan ends.
CHECK_DEADLOCK FALSE
