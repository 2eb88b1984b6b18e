----------------------------- MODULE Semaphore -----------------------------
(***************************************************************************)
(* The kernel's semaphores, sys/src/kern/port/sysproc.c: semacquire and    *)
(* semrelease on one address of one segment.  The value is in user memory  *)
(* and changed by compare-and-swap only; the list of waiting Semas hangs   *)
(* off the segment and has a spin lock; `waiting' is written outside of    *)
(* it.  A step here is one access to one of the three.                     *)
(*                                                                         *)
(* sleep and wakeup (module SleepWakeup) are one step each, under the lock *)
(* of the Rendez in the waiter's Sema.  A note or the end of an awake(2)   *)
(* interrupts a sleep; it may be there before the sleep begins.            *)
(***************************************************************************)
EXTENDS Integers, Sequences, SequencesExt

CONSTANTS Proc,       \* the processes
          Deltas,     \* what semrelease is called with
          MaxValue,   \* bound: no release beyond it
          MaxNotes,   \* bound: notes posted
          None        \* nobody

ASSUME SemaphoreAssumption == /\ Deltas \subseteq Nat
                              /\ MaxValue \in Nat /\ MaxNotes \in Nat
                              /\ None \notin Proc

VARIABLES value,      \* *addr
          list,       \* s->sema: the processes whose Sema is queued
          lock,       \* who holds s->sema.rend.l
          waiting,    \* Sema.waiting of every process
          acquired,   \* the local of semacquire
          note,       \* up->notepending (or an awake that is over)
          notes,      \* how many notes were posted
          pc,
          n,          \* semwakeup: how many are still to be woken
          rest        \* semwakeup: the part of the list still to be seen

vars == <<value, list, lock, waiting, acquired, note, notes, pc, n, rest>>

(* try: semacquire's first canacquire; queue: semqueue; set: waiting = 1;  *)
(* again: the second canacquire; sleep: before, asleep: in, woken: after   *)
(* the sleep proper; dequeue: semdequeue; pass: `if(!phore.waiting)';      *)
(* lock, scan, wake: in semwakeup.                                         *)
InSemwakeup == {"lock", "scan", "wake"}
OnList == {"set", "again", "sleep", "asleep", "woken", "dequeue"}
PCs == {"idle", "try", "queue", "pass"} \cup InSemwakeup \cup OnList

Init == /\ value \in {0, 1}
        /\ list = <<>>
        /\ lock = None
        /\ waiting = [p \in Proc |-> FALSE]
        /\ acquired = [p \in Proc |-> FALSE]
        /\ note = [p \in Proc |-> FALSE]
        /\ notes = 0
        /\ pc = [p \in Proc |-> "idle"]
        /\ n = [p \in Proc |-> 0]
        /\ rest = [p \in Proc |-> <<>>]

At(p, from) == pc[p] = from
Goto(p, to) == pc' = [pc EXCEPT ![p] = to]

(* canacquire: some CASW succeeds, or a value of 0 was read *)
Canacquire(p, yes, no) == \/ value > 0 /\ value' = value - 1 /\ Goto(p, yes)
                          \/ value = 0 /\ value' = value /\ Goto(p, no)

(* A note still pending was delivered on the way back to user mode. *)
Semacquire(p) == /\ At(p, "idle")
                 /\ Goto(p, "try")
                 /\ note' = [note EXCEPT ![p] = FALSE]
                 /\ UNCHANGED <<value, list, lock, waiting, acquired, notes, n, rest>>

(* Without `block' the call ends where it would queue: as if it had not    *)
(* been made.                                                              *)
Try(p) == /\ At(p, "try")
          /\ Canacquire(p, "idle", "queue") \/ Canacquire(p, "idle", "idle")
          /\ UNCHANGED <<list, lock, waiting, acquired, note, notes, n, rest>>

Semqueue(p) == /\ At(p, "queue") /\ lock = None
               /\ waiting' = [waiting EXCEPT ![p] = FALSE]
               /\ acquired' = [acquired EXCEPT ![p] = FALSE]
               /\ list' = Append(list, p)
               /\ Goto(p, "set")
               /\ UNCHANGED <<value, lock, note, notes, n, rest>>

SetWaiting(p) == /\ At(p, "set")
                 /\ waiting' = [waiting EXCEPT ![p] = TRUE]
                 /\ Goto(p, "again")
                 /\ UNCHANGED <<value, list, lock, acquired, note, notes, n, rest>>

TryAgain(p) == /\ At(p, "again")
               /\ Canacquire(p, "dequeue", "sleep")
               /\ acquired' = [acquired EXCEPT ![p] = value > 0]
               /\ UNCHANGED <<list, lock, waiting, note, notes, n, rest>>

(* sleep(&phore.rend, semawoke, &phore): committed only if nobody cleared  *)
(* waiting and no note is there.                                           *)
Sleep(p) == /\ At(p, "sleep")
            /\ Goto(p, IF waiting[p] /\ ~note[p] THEN "asleep" ELSE "woken")
            /\ UNCHANGED <<value, list, lock, waiting, acquired, note, notes, n, rest>>

(* The end of sleep: interrupted (error to the waserror of semacquire), or *)
(* back to the top of the loop.                                            *)
(* mutant: an interrupted acquirer forgets that it may have been woken *)
WokenForgets(p) == /\ At(p, "woken")
                   /\ Goto(p, IF note[p] THEN "dequeue" ELSE "set")
                   /\ note' = [note EXCEPT ![p] = FALSE]
                   /\ waiting' = [waiting EXCEPT ![p] = waiting[p] \/ note[p]]
                   /\ UNCHANGED <<value, list, lock, acquired, notes, n, rest>>
Woken(p) == /\ At(p, "woken")
            /\ Goto(p, IF note[p] THEN "dequeue" ELSE "set")
            /\ note' = [note EXCEPT ![p] = FALSE]
            /\ UNCHANGED <<value, list, lock, waiting, acquired, notes, n, rest>>

(* mutant: off the list without its lock *)
SemdequeueUnlocked(p) == /\ At(p, "dequeue")
                         /\ list' = SelectSeq(list, LAMBDA q : q # p)
                         /\ Goto(p, "pass")
                         /\ UNCHANGED <<value, lock, waiting, acquired, note, notes, n, rest>>
Semdequeue(p) == /\ At(p, "dequeue") /\ lock = None
                 /\ \E i \in DOMAIN list : list[i] = p /\ list' = RemoveAt(list, i)
                 /\ Goto(p, "pass")
                 /\ UNCHANGED <<value, lock, waiting, acquired, note, notes, n, rest>>

(* A wakeup we were given and do not use goes to another acquirer.         *)
(* mutant: only an interrupted acquirer passes it on (the third race) *)
PassInterrupted(p) == /\ At(p, "pass")
                      /\ IF ~waiting[p] /\ ~acquired[p]
                         THEN n' = [n EXCEPT ![p] = 1] /\ Goto(p, "lock")
                         ELSE n' = n /\ Goto(p, "idle")
                      /\ UNCHANGED <<value, list, lock, waiting, acquired, note, notes, rest>>
Pass(p) == /\ At(p, "pass")
           /\ IF waiting[p] THEN n' = n /\ Goto(p, "idle")
                            ELSE n' = [n EXCEPT ![p] = 1] /\ Goto(p, "lock")
           /\ UNCHANGED <<value, list, lock, waiting, acquired, note, notes, rest>>

Semrelease(p) == \E delta \in Deltas :
  /\ At(p, "idle") /\ value + delta <= MaxValue
  /\ value' = value + delta
  /\ n' = [n EXCEPT ![p] = delta]
  /\ Goto(p, "lock")
  /\ UNCHANGED <<list, lock, waiting, acquired, note, notes, rest>>

(* semwakeup: take the lock of the list ...                                *)
SemwakeupLock(p) == /\ At(p, "lock") /\ lock = None
                    /\ lock' = p
                    /\ rest' = [rest EXCEPT ![p] = list]
                    /\ Goto(p, "scan")
                    /\ UNCHANGED <<value, list, waiting, acquired, note, notes, n>>

(* ... look at the next Sema, clearing its waiting if it is set ...        *)
Scan(p) == /\ At(p, "scan") /\ n[p] > 0 /\ rest[p] # <<>>
           /\ IF waiting[Head(rest[p])]
              THEN /\ waiting' = [waiting EXCEPT ![Head(rest[p])] = FALSE]
                   /\ Goto(p, "wake")
                   /\ UNCHANGED rest
              ELSE /\ rest' = [rest EXCEPT ![p] = Tail(@)]
                   /\ UNCHANGED <<waiting, pc>>
           /\ UNCHANGED <<value, list, lock, acquired, note, notes, n>>

(* ... wake its process, if it sleeps, and go on ...                       *)
Wakeup(p) == /\ At(p, "wake")
             /\ LET q == Head(rest[p])
                IN  pc' = [pc EXCEPT ![p] = "scan",
                                     ![q] = IF pc[q] = "asleep" THEN "woken" ELSE @]
             /\ n' = [n EXCEPT ![p] = @ - 1]
             /\ rest' = [rest EXCEPT ![p] = Tail(@)]
             /\ UNCHANGED <<value, list, lock, waiting, acquired, note, notes>>

(* ... until n were woken or the list is at its end.                       *)
SemwakeupUnlock(p) == /\ At(p, "scan") /\ (n[p] = 0 \/ rest[p] = <<>>)
                      /\ lock' = None
                      /\ n' = [n EXCEPT ![p] = 0]
                      /\ rest' = [rest EXCEPT ![p] = <<>>]
                      /\ Goto(p, "idle")
                      /\ UNCHANGED <<value, list, waiting, acquired, note, notes>>

(* postnote, or the ringer of awake(2): a sleeping process is made ready.  *)
Interrupt(p) == /\ notes < MaxNotes /\ pc[p] \in OnList /\ ~note[p]
                /\ notes' = notes + 1
                /\ note' = [note EXCEPT ![p] = TRUE]
                /\ pc' = [pc EXCEPT ![p] = IF @ = "asleep" THEN "woken" ELSE @]
                /\ UNCHANGED <<value, list, lock, waiting, acquired, n, rest>>

Step(p) == \/ Try(p) \/ Semqueue(p) \/ SetWaiting(p) \/ TryAgain(p) \/ Sleep(p)
           \/ Woken(p) \/ Semdequeue(p) \/ Pass(p) \/ SemwakeupLock(p) \/ Scan(p)
           \/ Wakeup(p) \/ SemwakeupUnlock(p)

Next == \E p \in Proc : Semacquire(p) \/ Semrelease(p) \/ Interrupt(p) \/ Step(p)

Spec == Init /\ [][Next]_vars

(* A process in one of the two calls goes on unless it sleeps.             *)
FairSpec == Spec /\ \A p \in Proc : WF_vars(Step(p))
-----------------------------------------------------------------------------
TypeOK == /\ value \in Nat
          /\ list \in Seq(Proc)
          /\ lock \in Proc \cup {None}
          /\ waiting \in [Proc -> BOOLEAN] /\ acquired \in [Proc -> BOOLEAN]
          /\ note \in [Proc -> BOOLEAN] /\ notes \in Nat
          /\ pc \in [Proc -> PCs]
          /\ n \in [Proc -> Nat]
          /\ rest \in [Proc -> Seq(Proc)]

(* A Sema lives on the stack of semacquire: semwakeup never touches one    *)
(* whose process may have left the call.                                   *)
SemaAlive == \A p \in Proc : pc[p] \in {"scan", "wake"} =>
               \A i \in DOMAIN rest[p] : pc[rest[p][i]] \in OnList

(* No wakeup is lost: nobody sleeps on a positive semaphore unless some    *)
(* process is on its way to wake it or to take the semaphore and pass the  *)
(* wakeup on.                                                              *)
NoLostWakeup ==
  value > 0 /\ (\E p \in Proc : pc[p] = "asleep")
    => \E q \in Proc : \/ pc[q] \in InSemwakeup \cup {"woken", "set", "again"}
                       \/ pc[q] \in {"sleep", "dequeue", "pass"} /\ ~waiting[q]

(* Whoever waits is not left asleep while the semaphore is positive.       *)
SleeperServed == []<>~(value > 0 /\ \E p \in Proc : pc[p] = "asleep")
=============================================================================
