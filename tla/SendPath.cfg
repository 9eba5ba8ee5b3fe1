SPECIFICATION Spec
CONSTANTS
  MemoryCapacity = 3
  DiskCapacity = 1
  MaxMessages = 5
  MaxFailures = 2
INVARIANTS
  TypeOK
  OneSender
  HeldOnce
  SentInOrder
PROPERTY
  PopFrontReturns
CHECK_DEADLOCK FALSE
