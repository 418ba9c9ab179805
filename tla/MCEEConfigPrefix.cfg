SPECIFICATION Spec
CONSTANTS
  Files <- MCFilesPrefix
  Calls <- MCCalls
  IntMax = 7
  LongMax = 8
INVARIANTS
  MostSpecific
\* The call returns.
CHECK_DEADLOCK FALSE
