SPECIFICATION FairSpec
CONSTANTS
  Nil = Nil
  Topics = {chat}
  BootTopics = {}
  Gets = {g1}
  Puts = {p1, p2}
  Streams = {w}
  Own = {m1}
  Remote = {m2}
  p1 = p1  p2 = p2  w = w
  BufSize <- MCBufSize
INVARIANTS
  DeliveryInv
  ReachesSubscriber
PROPERTIES
  ImplementsDelivery
  GetsAnswered
CHECK_DEADLOCK FALSE
