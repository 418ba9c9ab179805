SPECIFICATION Spec
CONSTANTS
  Files <- MCFiles
  Calls <- MCCalls
  IntMax = 7
  LongMax = 8
INVARIANTS
  FailuresTold
\* The call returns.
CHECK_DEADLOCK FALSE
