SPECIFICATION MSFairSpec
CONSTANTS
  System <- MCSystem
  Inside <- MCInside
  Helpers <- MCHelpers
  DriveHelpers <- MCDriveHelpers
  Given <- MCGiven
  AllocBase = 2
  Loops = 2
  OutOfMemory = TRUE
  MaxForeign = 1
  MaxLeftover = 1
INVARIANTS
  MSTypeOK
  RecordedOnce
  DoubleMountOnlyIfLost
  NeverCovered
  OffersServed
PROPERTIES
  Finishes
  ImplementsProvision
\* The program ends when the systems are mounted.
CHECK_DEADLOCK FALSE
