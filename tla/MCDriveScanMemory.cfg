SPECIFICATION Spec
CONSTANTS
  Entries <- MCEntries
  Targets = {0, 2}
  Retries <- MCRetries
  IntMax = 3
  AllocBase = 2
  Faults = {"memory"}
INVARIANTS
  AbandonedIfNoMemory
\* The scan ends.
CHECK_DEADLOCK FALSE
