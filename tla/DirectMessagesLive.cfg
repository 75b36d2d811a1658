SPECIFICATION FairSpec
CONSTANTS
  a = a  b = b  c = c
  da = da  dc = dc  web = web
  Nil = Nil
  Fields = {"Did", "Message"}
  NoKey = NoKey
  Nodes <- MCNodes
  Dids <- MCDids
  EnsDids <- MCEnsDids
  ConfigDid <- MCConfigDid
  InitEns <- MCInitEns
  Requests = {r1}
  MaxRebinds = 2
  MaxStops = 2
PROPERTIES
  Answered
  HandlerEnds
CHECK_DEADLOCK FALSE
