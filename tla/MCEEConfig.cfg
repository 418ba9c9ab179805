SPECIFICATION Spec
CONSTANTS
  Files <- MCFiles
  Calls <- MCCalls
  IntMax = 7
  LongMax = 8
INVARIANTS
  MostSpecific
  MissingCounted
\* The call returns.
CHECK_DEADLOCK FALSE
