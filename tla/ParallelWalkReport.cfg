SPECIFICATION DepthSpec
CONSTANTS
  root = root  a = a  b = b  c = c  d = d
  Nil = Nil
  Cids <- MCCids
  Root = root
  Links <- MCLinks
  Options <- MCOptions
  Workers = {w1, w2}
INVARIANTS
  ReportsMissing
