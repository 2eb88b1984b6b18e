SPECIFICATION Spec
CONSTANTS
  Proc = {p1, p2, p3}
  Ops = {"lock", "canlock"}
  MaxKey = 6
  MaxSem = 6
SYMMETRY Symmetry
INVARIANTS MutualExclusion
