SPECIFICATION FairSpec
CONSTANTS
  Proc = {p1, p2, p3}
  QLp = {e1, e2, e3, e4}
  Ops = {"qlock", "qlockt", "rsleep", "rsleept", "rwakeup", "rwakeupall"}
  MaxTimedout = 1
  None = None
INVARIANTS OneOwner
PROPERTIES  ImplementsMutex DocumentedTransitions NoStarvation
\* a process that aborts keeps the lock, and everybody may be asleep
CHECK_DEADLOCK FALSE
