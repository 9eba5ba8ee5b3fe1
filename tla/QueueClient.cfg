SPECIFICATION Spec
CONSTANTS
  MemoryCapacity = 3
  MaxDiskSize = 3
  Sizes <- TwoSizes
  AppendTellsEnd = FALSE
  MayCrash = TRUE
  Calls <- ClientCalls
  MaxMessages = 5
  MaxRestarts = 2
INVARIANTS
  TypeOK
  IndexTilesFile
  DiskAccounting
  FastPathAgrees
  NoSilentLoss
  SessionExactlyOnce
PROPERTY
  ImplementsTwoTierQueue
CHECK_DEADLOCK FALSE
