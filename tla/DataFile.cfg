SPECIFICATION Spec
CONSTANTS
  DataSizes = {1, 2}
  MaxDiskSize = 8
  SizeRange = 64
  TellsEnd = {TRUE, FALSE}
  MaxMessages = 3
  MaxStarts = 3
INVARIANTS TypeOK ScanFindsIntact AppendedReadsBack IntactDelivered
CHECK_DEADLOCK FALSE
