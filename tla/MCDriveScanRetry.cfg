SPECIFICATION Spec
CONSTANTS
  Entries <- MCEntries
  Targets = {0, 2}
  Retries = {3}
  IntMax = 3
  AllocBase = 2
  Faults = {}
INVARIANTS
  UsableFound
\* The scan ends.
CHECK_DEADLOCK FALSE
