SPECIFICATION Spec
CONSTANTS
  System <- MCSystem
  Inside = {}
  Scripts <- MCScripts
  Loops = 1
  MaxForeign = 2
  MaxLeftover = 1
INVARIANT
  FailedReloadFailed
CHECK_DEADLOCK FALSE
