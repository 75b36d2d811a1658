SPECIFICATION FairSpec
CONSTANTS
  Nil = Nil
  Other = Other
  Inits = {i1, i2}
  Runs = {n1, n2}
  Peers = {b1, b2}
  Requests = {q1}
  MaxKills = 1
INVARIANTS
  LifecycleInv
  IdentityIsKept
  RunningIsUsable
  PanicIsEarly
PROPERTIES
  StartEnds
  StopsWhenAsked
CHECK_DEADLOCK FALSE
