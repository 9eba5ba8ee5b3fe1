SPECIFICATION Spec
CONSTANTS
  MaxReconnectAttempts = 2
  HeartbeatMaxFailures = 2
  Calls <- NoCalls
  MaxEvents = 1
  MaxPings = 2
PROPERTY
  AutoReconnects
CHECK_DEADLOCK FALSE
