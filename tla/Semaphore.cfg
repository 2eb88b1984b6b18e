SPECIFICATION FairSpec
CONSTANTS
  Proc = {p1, p2, p3}
  Deltas = {1, 2}
  MaxValue = 2
  MaxNotes = 1
  None = None
INVARIANTS SemaAlive NoLostWakeup
PROPERTIES SleeperServed
\* everybody may sleep on an empty semaphore
CHECK_DEADLOCK FALSE
