SPECIFICATION Spec
CONSTANTS
  a = a  b = b  c = c  d = d  e = e
  Header = Header
  Cids <- MCCids
  Links <- MCLinks
  Roots <- MCRoots
  BatchLimit = 1
INVARIANTS
  RoundTrip
  CarInv
  SuccessExplained
  
  WholeCarLoads
CHECK_DEADLOCK FALSE
