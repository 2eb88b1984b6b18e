------------------------------ MODULE UserLock ------------------------------
(***************************************************************************)
(* The spin-free lock of the C library, sys/src/lib/c/port/lock.c: a       *)
(* counter `key' of the processes that hold or want the lock, changed with *)
(* atomic increments and decrements, and a kernel semaphore `sem' on which *)
(* the processes that did not take it from 0 to 1 wait.                    *)
(*                                                                         *)
(* Every step is one atomic instruction or one system call.  The kernel's  *)
(* semacquire/semrelease are atomic here (module Semaphore models their    *)
(* inside).  An interrupted semacquire returns negative and is called      *)
(* again: a step that changes nothing, left out.                           *)
(***************************************************************************)
EXTENDS Naturals

CONSTANTS Proc,      \* processes sharing the lock
          Ops,       \* the entry points the program uses
          MaxKey,    \* bound: no lockt once key reaches it
          MaxSem     \* bound: no canlock once sem reaches it

ASSUME UserLockAssumption ==
  /\ Ops \subseteq {"lock", "canlock", "lockt"}
  /\ MaxKey \in Nat /\ MaxSem \in Nat

VARIABLES key,       \* Lock.key
          sem,       \* Lock.sem
          pc         \* where each process is in the functions of lock.c

vars == <<key, sem, pc>>

(* idle: outside; sem / tsem: in semacquire called by lock / tsemacquire;  *)
(* cs: owns the lock; rel: unlock about to semrelease; undo: canlock lost  *)
(* and about to decrement; undorel: canlock about to semrelease.           *)
PCs == {"idle", "sem", "tsem", "cs", "rel", "undo", "undorel"}

Init == /\ key = 0
        /\ sem = 0
        /\ pc = [p \in Proc |-> "idle"]

Goto(p, from, to) == pc[p] = from /\ pc' = [pc EXCEPT ![p] = to]

(* ainc(&l->key): the process that moves key from 0 to 1 has the lock, any *)
(* other goes on at `lost'.                                                *)
Ainc(p, lost) == /\ key' = key + 1
                 /\ Goto(p, "idle", IF key = 0 THEN "cs" ELSE lost)
                 /\ UNCHANGED sem

(* adec(&l->key): whoever brings key to 0 is done, any other goes to `next' *)
Adec(p, from, next) == /\ key' = key - 1
                       /\ Goto(p, from, IF key = 1 THEN "idle" ELSE next)
                       /\ UNCHANGED sem

Lock(p) == "lock" \in Ops /\ Ainc(p, "sem")

Lockt(p) == "lockt" \in Ops /\ key < MaxKey /\ Ainc(p, "tsem")

Canlock(p) == "canlock" \in Ops /\ sem < MaxSem /\ Ainc(p, "undo")

(* canlock's "undo increment" and the semrelease that may follow it *)
CanlockUndo(p) == Adec(p, "undo", "undorel")

(* mutant: unlock forgets that somebody may be waiting *)
UnlockNoRelease(p) == Adec(p, "cs", "idle")
Unlock(p) == Adec(p, "cs", "rel")

Semrelease(p) == /\ sem' = sem + 1
                 /\ \/ Goto(p, "rel", "idle")
                    \/ Goto(p, "undorel", "idle")
                 /\ UNCHANGED key

Semacquire(p) == /\ sem > 0
                 /\ sem' = sem - 1
                 /\ Goto(p, "sem", "cs") \/ Goto(p, "tsem", "cs")
                 /\ UNCHANGED key

(* tsemacquire: interrupted, and its wakeup is in the past.  lockt returns *)
(* 0 and leaves its increment in key.                                      *)
(* mutant: the time is over although the semaphore was just taken *)
TsemTimeoutTakes(p) == /\ Goto(p, "tsem", "idle")
                       /\ sem > 0 /\ sem' = sem - 1
                       /\ UNCHANGED key
TsemTimeout(p) == /\ Goto(p, "tsem", "idle")
                  /\ UNCHANGED <<key, sem>>

Call(p) == Lock(p) \/ Lockt(p) \/ Canlock(p)

Step(p) == \/ CanlockUndo(p) \/ Unlock(p) \/ Semrelease(p)
           \/ Semacquire(p) \/ TsemTimeout(p)

Next == \E p \in Proc : Call(p) \/ Step(p)

Spec == Init /\ [][Next]_vars

(* A process inside lock.c, or holding the lock, keeps running; nobody is  *)
(* obliged to ask for the lock again.                                      *)
FairSpec == Spec /\ \A p \in Proc : WF_vars(Step(p))
-----------------------------------------------------------------------------
Waiting == {p \in Proc : pc[p] \in {"sem", "tsem"}}
Owners  == {p \in Proc : pc[p] = "cs"}
Passing == {p \in Proc : pc[p] = "rel"}      \* unlock, before its semrelease

TypeOK == /\ key \in Nat
          /\ sem \in Nat
          /\ pc \in [Proc -> PCs]

(* At most one process is between lock and unlock.                         *)
MutualExclusion == \A p, q \in Owners : p = q

(* The right to enter is never doubled, when canlock is not used: it is    *)
(* with one owner, or one unlock on its way to semrelease, or one count in *)
(* sem, in spite of the increments that timed out lockt calls leave in key. *)
OneToken ==
  /\ sem \in {0, 1}
  /\ \A p, q \in Owners \cup Passing : p = q
  /\ Owners \cup Passing # {} => sem = 0

(* With canlock the right to enter may be doubled but it is not lost: as   *)
(* long as anybody waits in the kernel there is an owner, an unlock on its *)
(* way to semrelease or a count in sem.                                    *)
NoneForgotten == Waiting # {} => sem > 0 \/ Owners \cup Passing # {}

(* Whenever a process waits without a time limit, some process is          *)
(* eventually let in: a timed out lockt does not take the turn with it.    *)
Progress == (\E p \in Proc : pc[p] = "sem") ~> Owners # {}
=============================================================================
