SPECIFICATION FairSpec
CONSTANTS
  p1 = p1
  p2 = p2
  p3 = p3
  Proc = {p1, p2, p3}
  QLp = {e1, e2, e3, e4}
  Programs <- MCPrograms
  MaxTimedout = 1
  None = None
INVARIANTS ReadersCounted Exclusion NoAbort NoneForgotten
PROPERTIES ImplementsRWMutex NoStarvation
\* an aborted process keeps q->lock
CHECK_DEADLOCK FALSE
