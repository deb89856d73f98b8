\* Two racing publishers, two subscribers, four values through buffers of two.
SPECIFICATION FairSpec
CONSTANTS
  p1 = p1
  p2 = p2
  Publishers <- MCPublishers
  NoProc = NoProc
  BufferSize = 2
  MaxSubs = 2
  MaxPublish = 4
INVARIANTS
  TypeOK
  NewestKept
  Accounted
  NoPanic
PROPERTIES
  PublishReturns
  ImplementsWindow
