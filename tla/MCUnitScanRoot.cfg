SPECIFICATION Spec
CONSTANTS
  Directories <- MCDirectoriesClean
  AllocBase = 2
INVARIANTS
  RootInArray
\* The scan ends.
CHECK_DEADLOCK FALSE
