SPECIFICATION FairSpec
CONSTANTS
  p1 = p1
  p2 = p2
  p3 = p3
  Proc = {p1, p2, p3}
  Programs <- MCPrograms
  InitLimit = 3
  Limits = {2, 4}
  Sizes = {1, 2}
  MaxLen = 10
  None = None
INVARIANTS NoLostReader NoLostWriter NoBloat
PROPERTIES Served
