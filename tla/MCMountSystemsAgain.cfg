SPECIFICATION MSSpec
CONSTANTS
  System <- MCSystem
  Inside <- MCInside
  Helpers <- MCHelpers
  DriveHelpers <- MCDriveHelpers
  Given <- MCGiven
  AllocBase = 2
  Loops = 1
  OutOfMemory = FALSE
  MaxForeign = 0
  MaxLeftover = 0
INVARIANT
  NotMountedAgain
\* The program ends when the systems are mounted.
CHECK_DEADLOCK FALSE
