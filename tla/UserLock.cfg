SPECIFICATION FairSpec
CONSTANTS
  Proc = {p1, p2, p3}
  Ops = {"lock", "lockt", "canlock"}
  MaxKey = 5
  MaxSem = 3
INVARIANTS NoneForgotten
PROPERTIES Progress
