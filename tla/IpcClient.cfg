SPECIFICATION Spec
CONSTANTS
  MaxReconnectAttempts = 2
  HeartbeatMaxFailures = 2
  Calls <- BothCalls
  MaxEvents = 3
  MaxPings = 2
INVARIANTS
  TypeOK
  ConnectingIsPending
  NoDeadEnd
PROPERTIES
  ConnectsOrGivesUp
  StoppedStaysQuiet
CHECK_DEADLOCK FALSE
