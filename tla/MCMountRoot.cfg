SPECIFICATION Spec
CONSTANTS
  Starts <- MCStarts
  Partitions <- MCPartitions
  Labelled <- MCLabelled
  MaxDrives = 2
INVARIANTS
  RootAsReturned
  NothingStacked
  EEROMSAsDocumented
  UpdateFromEEROMS
\* The program ends when the call returned.
CHECK_DEADLOCK FALSE
