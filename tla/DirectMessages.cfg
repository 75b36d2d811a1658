SPECIFICATION Spec
CONSTANTS
  a = a  b = b  c = c
  da = da  dc = dc  web = web
  Nil = Nil
  Fields = {"Did", "Message"}
  NoKey = NoKey
  Nodes <- MCNodes
  Dids <- MCDids
  EnsDids <- MCEnsDids
  ConfigDid <- MCConfigDid
  InitEns <- MCInitEns
  Requests = {r1, r2}
  MaxRebinds = 1
  MaxStops = 1
INVARIANTS
  IInv
  Authentic
  RightRecipient
  AtMostOnce
  LossNeedsOverlap
PROPERTIES
  ImplementsMail
CHECK_DEADLOCK FALSE
