SPECIFICATION FairSpec
CONSTANTS
  System <- MCSystem
  Inside <- MCInside
  Helpers <- MCHelpers
  Given <- MCGiven
  AllocBase = 2
  Loops = 2
  OutOfMemory = TRUE
  MaxForeign = 1
  MaxLeftover = 2
INVARIANTS
  IInv
  RecordedIsMounted
  MountedIsRecorded
  RecordFits
  JobsFit
PROPERTY
  CallReturns
\* The program ends with the call.
CHECK_DEADLOCK FALSE
