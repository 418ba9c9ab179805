SPECIFICATION Spec
CONSTANTS
  Starts <- MCManyParts
  Partitions <- MCManyPartitions
  Labelled <- MCLabelled
  MaxDrives = 2
INVARIANT
  EEROMSAsDocumented
CHECK_DEADLOCK FALSE
