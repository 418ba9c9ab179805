SPECIFICATION FairSpec
CONSTANTS
  Paths <- MCPaths
  Roms <- MCRoms
  MaxMounts = 5
  MaxOthers = 1
INVARIANTS
  CleanOnSuccess
  FailsOnlyOverHidden
  FailureMakesProgress
PROPERTIES
  OnlyRomsUnmounted
  RunEnds
\* The program ends when it failed or is done.
CHECK_DEADLOCK FALSE
