SPECIFICATION FairSpec
CONSTANTS
  p1 = p1
  p2 = p2
  Proc = {p1, p2}
  Tag = {t}
  Private = Private
  PoolSize = 4
  Delays = {0}
  MaxTime = 2
  Programs <- MCPrograms
  None = None
PROPERTY InterruptsBlocking
\* everybody may wait in a rendezvous
CHECK_DEADLOCK FALSE
