SPECIFICATION Spec
CONSTANTS
  Entries <- MCEntries
  Targets = {0, 2}
  Retries <- MCRetries
  IntMax = 3
  AllocBase = 2
  Faults = {}
INVARIANTS
  ReservedAsDocumented
\* The scan ends.
CHECK_DEADLOCK FALSE
