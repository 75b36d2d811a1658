SPECIFICATION Spec
CONSTANTS
  Nil = Nil
  Fields = {"Cid", "Size"}
  Absent = Absent
  Undef = Undef
  e1 = e1  e2 = e2
  r0 = r0  Active = {r1, r2}
  Requests <- MCRequests
  Earlier <- MCEarlier
  Pinned = {r0}
  Contents = {x, y}
  MaxEdits = 1
  MaxStops = 1
INVARIANTS
  FilesInv
  AnnouncedIsPinned
  OkIsComplete
  LossNeedsOverlap
SYMMETRY Symmetry
CHECK_DEADLOCK FALSE
