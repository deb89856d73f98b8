\* Sends by two goroutines through a queue of two, two Closes, one file.
SPECIFICATION FairSpec
CONSTANTS
  p1 = p1
  p2 = p2
  c1 = c1
  c2 = c2
  f1 = f1
  Senders <- MCSenders
  Closers <- MCClosers
  Paths <- MCPaths
  BufferSize = 0
  DefaultBufferSize = 2
  MaxSends = 3
  NoEvent = NoEvent
INVARIANTS
  TypeOK
  DropsExact
  AtMostOnce
  SendOrder
  CloseFlushes
PROPERTIES
  CloseReturns
CHECK_DEADLOCK FALSE
