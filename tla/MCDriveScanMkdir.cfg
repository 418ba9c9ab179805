SPECIFICATION Spec
CONSTANTS
  Entries <- MCEntries
  Targets = {0, 2}
  Retries <- MCRetries
  IntMax = 3
  AllocBase = 2
  Faults = {"mkdir"}
INVARIANTS
  WholeIfNoneNamed
\* The scan ends.
CHECK_DEADLOCK FALSE
