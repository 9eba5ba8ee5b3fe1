CONSTANTS
  MapSize = 8
  SizeRange = 16
  MaxFiles = 2
  MaxStarts = 1
SPECIFICATION Spec

PROPERTY StopReturns
CHECK_DEADLOCK FALSE
