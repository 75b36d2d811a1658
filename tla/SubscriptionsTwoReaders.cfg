SPECIFICATION Spec
CONSTANTS
  Nil = Nil
  Topics = {chat}
  BootTopics = {}
  Gets = {g1, g2}
  Puts = {p1, p2}
  Streams = {}
  Own = {m1}
  Remote = {m2, m3}
  p1 = p1  p2 = p2  w = w
  BufSize <- MCBufSizes
SYMMETRY MCSymmetry
INVARIANT
  InOrder
CHECK_DEADLOCK FALSE
