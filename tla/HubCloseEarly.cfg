\* Two Closes.
SPECIFICATION Spec
CONSTANTS
  p1 = p1
  p2 = p2
  k1 = k1
  w1 = w1
  c1 = c1
  c2 = c2
  Tools <- MCTools
  Capitalised <- MCCapitalised
  Ingesters <- Pair
  Closers <- TwoClosers
  Sinks = {k1}
  Streams = {}
  Sessions = {"s1", "s2"}
  Registered = {"s1"}
  TagSets = {}
  NoTags = "none"
  Payloads <- MCPayloads
  BufferSize = 1
  MaxCalls = 2
INVARIANT CloseMeansDrained
CHECK_DEADLOCK FALSE
