\* Six Events through a stream of two and a queue of two, and the shutdown.
SPECIFICATION CaptureSpec
CONSTANTS
  f1 = f1
  Forwarder = Forwarder
  Program = Program
  Senders <- MCSenders
  Closers <- MCClosers
  Paths <- MCPaths
  BufferSize = 2
  DefaultBufferSize = 2
  HubBufferSize = 2
  MaxPublished = 6
  MaxSends = 6
  NoEvent = NoEvent
INVARIANTS
  CaptureTypeOK
  HandedOver
  Captured
  LinesInOrder
  LastCaptured
PROPERTIES
  ShutDownReturns
CHECK_DEADLOCK FALSE
