SPECIFICATION Spec
CONSTANTS
  p1 = p1
  p2 = p2
  p3 = p3
  Proc = {p1, p2, p3}
  QLp = {e1, e2, e3, e4}
  Programs <- MCReadersWriters
  MaxTimedout = 0
  None = None
INVARIANTS WalkedNotDone
CHECK_DEADLOCK FALSE
