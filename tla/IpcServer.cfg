CONSTANTS
  s1 = s1
  Sockets = {s1}
  Base = 3
  HeaderSize = 2
  BufferSize = 3
  Timeout = 1
  TimeRange = 16
  BodySize <- MCBodySize
  MaxMessages <- MCMaxMessages
  MaxTime = 3
SPECIFICATION Spec
INVARIANTS TypeOK HandledAsReceived RegisteredIsRead
PROPERTIES LiveClientKept SilentClientDropped SentIsHandled
CHECK_DEADLOCK FALSE
