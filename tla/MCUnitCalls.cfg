SPECIFICATION FairSpec
CONSTANTS
  System <- MCSystem
  Inside = {}
  Scripts <- MCScripts
  Loops = 1
  MaxForeign = 2
  MaxLeftover = 1
INVARIANTS
  OwnVerdict
  ReloadIsOver
  UnitCallsHear
PROPERTY
  ScriptEnds
\* The program ends with its last call.
CHECK_DEADLOCK FALSE
