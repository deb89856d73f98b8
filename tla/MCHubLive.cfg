\* Liveness: two calls, a sink, a stream nobody has to read, and a Close.
SPECIFICATION FairSpec
CONSTANTS
  p1 = p1
  p2 = p2
  k1 = k1
  w1 = w1
  c1 = c1
  c2 = c2
  Tools <- MCTools
  Capitalised <- MCCapitalised
  Ingesters <- Pair
  Closers <- OneCloser
  Sinks = {k1}
  Streams = {w1}
  Sessions = {"s1", "s2"}
  Registered = {"s1"}
  TagSets = {}
  NoTags = "none"
  Payloads <- MCPayloads
  BufferSize = 1
  MaxCalls = 2
PROPERTIES
  IngestReturns
  CloseReturns
CHECK_DEADLOCK FALSE
