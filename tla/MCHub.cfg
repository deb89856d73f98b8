\* Safety: three calls, a sink and a Close.
SPECIFICATION Spec
CONSTANTS
  p1 = p1
  p2 = p2
  k1 = k1
  w1 = w1
  c1 = c1
  c2 = c2
  Tools <- MCTools
  Capitalised <- MCCapitalised
  Ingesters <- Pair
  Closers <- OneCloser
  Sinks = {k1}
  Streams = {}
  Sessions = {"s1", "s2"}
  Registered = {"s1"}
  TagSets = {"t1"}
  NoTags = "none"
  Payloads <- MCPayloads
  BufferSize = 1
  MaxCalls = 3
INVARIANTS
  TypeOK
  DecisionChain
  PublishedAsDecided
  RealTimeOrder
  LastWord
  CloseDrainsSinks
PROPERTIES
  QuietAfterClose
CHECK_DEADLOCK FALSE
SYMMETRY Symmetry
