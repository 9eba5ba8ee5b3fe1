SPECIFICATION Spec
CONSTANTS
  MemoryCapacity = 3
  MaxDiskSize = 2
  Sizes <- TwoSizes
  AppendTellsEnd = FALSE
  MayCrash = TRUE
  Calls <- EveryCall
  MaxMessages = 4
  MaxRestarts = 1
INVARIANTS
  SlotsReady
  DiskAccounting
  NoSilentLoss
  CountersMatch
PROPERTY
  ImplementsTwoTierQueue
CHECK_DEADLOCK FALSE
