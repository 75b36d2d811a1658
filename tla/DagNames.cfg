SPECIFICATION NamesSpec
CONSTANTS
  top = top  mid = mid  leaf = leaf
  Nodes <- MCNodes
  Links <- MCLinks
  Foreign = {leaf}
  Puts = {p1, p2}
  Gets = {g1}
  MaxStops = 1
  MaxTime = 2
  Nil = Nil
INVARIANTS
  StoreInv
  NamesInv
  PanicIsForeign
  LookupIsCurrent
  ResolvedIsStored
PROPERTIES
  ImplementsPinning
  PutsEnd
CHECK_DEADLOCK FALSE
