SPECIFICATION Spec
CONSTANTS
  MemoryCapacity = 3
  MaxDiskSize = 3
  Sizes <- TwoSizes
  AppendTellsEnd = FALSE
  MayCrash = TRUE
  Calls <- ClientCalls
  MaxMessages = 5
  MaxRestarts = 2
INVARIANT
  PeekDeliversHead
CHECK_DEADLOCK FALSE
