SPECIFICATION MainSpec
CONSTANTS
  System <- MCSystem
  Inside <- MCInside
  Helpers <- MCHelpers
  DriveHelpers <- MCDriveHelpers
  Given <- MCGiven
  Overlay = "ports_scripts"
  AllocBase = 2
  Loops = 2
  OutOfMemory = FALSE
  MaxForeign = 0
  MaxLeftover = 0
INVARIANTS
  SuccessMeansRoms
\* The program ends.
CHECK_DEADLOCK FALSE
