SPECIFICATION FairSpec
CONSTANTS
  Proc = {p1, p2, p3, p4}
  None = None
INVARIANTS Exclusion NoPanic NoneForgotten
PROPERTIES ImplementsRWMutex NoStarvation
