------------------------------- MODULE Mutex -------------------------------
(***************************************************************************)
(* What a lock promises its clients, whatever it is made of: at any time   *)
(* at most one process holds it, it is acquired only when free, and only   *)
(* its holder gives it up.  Locks of the C library and of the kernel are   *)
(* shown to implement this module.                                         *)
(***************************************************************************)
CONSTANTS Proc,    \* the processes
          None     \* "nobody"

VARIABLE holder    \* the process that owns the lock, or None

Init == holder = None

Acquire(p) == holder = None /\ holder' = p
Release(p) == holder = p /\ holder' = None

Next == \E p \in Proc : Acquire(p) \/ Release(p)

Spec == Init /\ [][Next]_holder
=============================================================================
