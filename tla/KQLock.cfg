SPECIFICATION FairSpec
CONSTANTS
  Proc = {p1, p2, p3}
  Poster = {n1}
  None = None
INVARIANTS OneOwner ReadyOnce
PROPERTIES ImplementsMutex NoStarvation
