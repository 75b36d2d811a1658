SPECIFICATION Spec
CONSTANTS
  a = a  b = b  c = c  d = d  e = e
  Header = Header
  Cids <- MCCids
  Links <- MCLinks
  Roots <- MCRoots
  BatchLimit = 1
INVARIANTS
  TruncationReported
CHECK_DEADLOCK FALSE
