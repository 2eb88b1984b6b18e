SPECIFICATION FairSpec
CONSTANTS
  Proc = {p1}
  Rendez = {r1}
  Waker = {w1}
  Poster = {n1}
  Ringer = {a1}
  Cpu = {c1}
  Ops = {"sleep", "tsleep", "notedefer"}
  None = None
INVARIANTS Synchronized NoLostWakeup NoStaleRendez TimeoutKept
PROPERTIES SleeperWoken NoteInterrupts
