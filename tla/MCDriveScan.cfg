SPECIFICATION FairSpec
CONSTANTS
  Entries <- MCEntries
  Targets = {0, 2}
  Retries <- MCRetries
  IntMax = 3
  AllocBase = 2
  Faults = {"mkdir", "memory", "opendir", "read"}
INVARIANTS
  ArraysFit
  ProvidesItsMark
  UsableFound
PROPERTY
  ScanEnds
\* The scan ends.
CHECK_DEADLOCK FALSE
