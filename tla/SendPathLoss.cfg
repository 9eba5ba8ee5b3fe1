SPECIFICATION Spec
CONSTANTS
  MemoryCapacity = 3
  DiskCapacity = 0
  MaxMessages = 4
  MaxFailures = 0
INVARIANT
  RemovedWasSent
CHECK_DEADLOCK FALSE
