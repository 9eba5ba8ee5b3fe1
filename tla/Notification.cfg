CONSTANTS
  MapSize = 8
  SizeRange = 16
  MaxFiles = 4
  MaxStarts = 2
SPECIFICATION Spec
INVARIANTS TypeOK SentAtMostOnce NothingLostUnlessRaced EndsOnlyWhenStopped CounterNeverWraps StopDropsAtMostOne
PROPERTIES StopEndsLoop BacklogDrains
CHECK_DEADLOCK FALSE
