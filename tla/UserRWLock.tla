----------------------------- MODULE UserRWLock -----------------------------
(***************************************************************************)
(* The reader/writer lock RWLock of the C library,                         *)
(* sys/src/lib/c/9sys/qlock.c:295-629.  As in UserQLock, a process that    *)
(* has to wait queues an entry of the pool and meets in rendezvous(2) the  *)
(* process that lets it in.  Here the list is modelled with its pointers,  *)
(* because runlock and wunlock walk it with q->head left as it was, and    *)
(* wunlock gives q->lock up in the middle of its walk.                     *)
(*                                                                         *)
(* A walk is one step per entry: timeouts, which take no lock, come in     *)
(* between.  The rest of what is done under q->lock is one step.           *)
(***************************************************************************)
EXTENDS Integers, FiniteSets

CONSTANTS Proc,         \* processes sharing the lock
          QLp,          \* the pool ql.x of queue entries
          Programs,     \* what processes may call: functions from Proc
          MaxTimedout,  \* bound: entries left behind by timed out calls
          None          \* nil

Functions == {"rlock", "rlockt", "canrlock", "wlock", "wlockt", "canwlock"}

ASSUME UserRWLockAssumption == /\ Programs \subseteq [Proc -> SUBSET Functions]
                               /\ MaxTimedout \in Nat
                               /\ None \notin Proc \cup QLp

VARIABLES program,   \* what each process may call; never changes
          readers,   \* q->_readers
          writer,    \* q->writer, as a truth value
          head,      \* q->head
          tail,      \* q->tail
          next,      \* QLp.next
          state,     \* QLp.state
          pc,        \* where each process is
          mine,      \* mp: the entry a process waits on
          peer,      \* the entry of the process it is waking
          at,        \* p (in wunlock's rendezvous: tmp), the cursor of a walk
          torn       \* history: has a rendezvous been interrupted on one side?

list == <<head, tail, next>>
locals == <<mine, peer, at>>
vars == <<program, readers, writer, list, state, pc, locals, torn>>

States == {"Free", "QueuingR", "QueuingW", "Timedout", "Done"}

(* out: without the lock; rcs, wcs: reading, writing; waitr, waitrt,       *)
(* waitw, waitwt: in the rendezvous of rlock, rlockt, wlock, wlockt; gotr, *)
(* gotw: back from it.  walk: in the loop of runlock; walkw, walkr: in the *)
(* two loops of wunlock; wake: in the rendezvous that ends runlock or      *)
(* wunlock; waker: in the one inside wunlock's loop; more: about to take   *)
(* q->lock again after it.  full, corrupt, failed: aborted, as in          *)
(* UserQLock.                                                              *)
Waiting == {"waitr", "waitrt", "waitw", "waitwt"}
Walking == {"walk", "walkw", "walkr"}
Aborted == {"full", "corrupt", "failed"}
PCs == {"out", "rcs", "wcs", "gotr", "gotw", "wake", "waker", "more"}
         \cup Waiting \cup Walking \cup Aborted

Init == /\ program \in Programs
        /\ readers = 0 /\ writer = FALSE
        /\ head = None /\ tail = None
        /\ next = [e \in QLp |-> None]
        /\ state = [e \in QLp |-> "Free"]
        /\ pc = [p \in Proc |-> "out"]
        /\ mine = [p \in Proc |-> None]
        /\ peer = [p \in Proc |-> None]
        /\ at = [p \in Proc |-> None]
        /\ torn = FALSE

(* q->lock is held by whoever walks the list, and never given back by a    *)
(* process that aborted with it.                                           *)
Unlocked == \A q \in Proc : pc[q] \notin Walking \cup {"full", "corrupt"}
Entering(p, from) == pc[p] = from /\ Unlocked

Goto(p, to) == pc' = [pc EXCEPT ![p] = to]
SetState(e, s) == state' = [state EXCEPT ![e] = s]

(* See UserQLock for getqlp. *)
FreeEntries == {e \in QLp : state[e] = "Free"}
Enqueue(p, s, to) ==
  \/ \E e \in FreeEntries :
       /\ SetState(e, s)
       /\ mine' = [mine EXCEPT ![p] = e]
       /\ head' = IF tail = None THEN e ELSE head
       /\ next' = [x \in QLp |-> IF x = e THEN None ELSE IF x = tail THEN e ELSE next[x]]
       /\ tail' = e
       /\ Goto(p, to)
       /\ UNCHANGED <<program, readers, writer, peer, at>>
  \/ /\ Cardinality(FreeEntries) <= 1
     /\ Goto(p, "full")
     /\ UNCHANGED <<program, readers, writer, list, state, locals>>

(* mutant: readers overtake queued writers *)
CanReadOvertakes == ~writer
CanRead == ~writer /\ head = None
TakeR(p) == /\ CanRead
            /\ readers' = readers + 1
            /\ Goto(p, "rcs")
            /\ UNCHANGED <<program, writer, list, state, locals>>

Rlock(p, to) == /\ Entering(p, "out")
                /\ TakeR(p) \/ (~CanRead /\ Enqueue(p, "QueuingR", to))
Canrlock(p) == Entering(p, "out") /\ TakeR(p)

(* mutant: the test of the readers is left out *)
CanWriteOverReaders == ~writer
CanWrite == readers = 0 /\ ~writer
TakeW(p) == /\ CanWrite
            /\ writer' = TRUE
            /\ Goto(p, "wcs")
            /\ UNCHANGED <<program, readers, list, state, locals>>

Wlock(p, to) == /\ Entering(p, "out")
                /\ TakeW(p) \/ (~CanWrite /\ Enqueue(p, "QueuingW", to))
Canwlock(p) == Entering(p, "out") /\ TakeW(p)
-----------------------------------------------------------------------------
(* The last reader out looks for a writer to start. *)
(* mutant: nobody is started *)
RunlockNoWalk(p) ==
  /\ Entering(p, "rcs")
  /\ readers' = readers - 1
  /\ Goto(p, "out")
  /\ UNCHANGED <<program, writer, list, state, locals>>
Runlock(p) ==
  /\ Entering(p, "rcs")
  /\ \/ readers <= 0 /\ Goto(p, "corrupt") /\ UNCHANGED <<readers, at>>
     \/ /\ readers > 0
        /\ readers' = readers - 1
        /\ IF readers > 1 \/ head = None
           THEN Goto(p, "out") /\ UNCHANGED at
           ELSE Goto(p, "walk") /\ at' = [at EXCEPT ![p] = head]
  /\ UNCHANGED <<program, writer, list, state, mine, peer>>

(* The cursor p->next, after a timed out entry is freed. *)
Skip(p, e) == /\ state[e] = "Timedout"
              /\ SetState(e, "Free")
              /\ at' = [at EXCEPT ![p] = next[e]]
              /\ UNCHANGED <<program, readers, writer, list, pc, mine, peer>>

(* The queued writer e is the next owner: q->writer is set by runlock, and *)
(* left as it is by wunlock.                                               *)
(* mutant: the entry stays at the head of the list *)
StartWriterKeepsHead(p, e) == /\ state[e] = "QueuingW"
                              /\ SetState(e, "Done")
                              /\ peer' = [peer EXCEPT ![p] = e]
                              /\ at' = [at EXCEPT ![p] = None]
                              /\ Goto(p, "wake")
                              /\ UNCHANGED <<program, readers, list, mine>>
StartWriter(p, e) == /\ state[e] = "QueuingW"
                     /\ SetState(e, "Done")
                     /\ head' = next[e]
                     /\ tail' = IF next[e] = None THEN None ELSE tail
                     /\ peer' = [peer EXCEPT ![p] = e]
                     /\ at' = [at EXCEPT ![p] = None]
                     /\ Goto(p, "wake")
                     /\ UNCHANGED <<program, readers, next, mine>>

Corrupt(p) == Goto(p, "corrupt") /\ UNCHANGED <<program, readers, writer, list, state, locals>>

(* At the end of the list q->head and q->tail are left as they are. *)
RunlockWalk(p) ==
  /\ pc[p] = "walk"
  /\ \/ /\ at[p] = None
        /\ Goto(p, "out")
        /\ UNCHANGED <<program, readers, writer, list, state, locals>>
     \/ /\ at[p] # None
        /\ \/ StartWriter(p, at[p]) /\ writer' = TRUE
           \/ Skip(p, at[p])
           \/ state[at[p]] \notin {"QueuingW", "Timedout"} /\ Corrupt(p)

(* mutant: the queue is not looked at *)
WunlockFrees(p) ==
  /\ Entering(p, "wcs")
  /\ writer' = FALSE
  /\ Goto(p, "out")
  /\ UNCHANGED <<program, readers, list, state, locals>>
Wunlock(p) ==
  /\ Entering(p, "wcs")
  /\ \/ ~writer /\ Goto(p, "corrupt") /\ UNCHANGED <<writer, at>>
     \/ /\ writer /\ head = None
        /\ writer' = FALSE
        /\ Goto(p, "out")
        /\ UNCHANGED at
     \/ /\ writer /\ head # None
        /\ Goto(p, "walkw")
        /\ at' = [at EXCEPT ![p] = head]
        /\ UNCHANGED writer
  /\ UNCHANGED <<program, readers, list, state, mine, peer>>

(* allPendingReadersStarted, with the cursor at e *)
WunlockEnd(p, e) == /\ head' = e
                    /\ tail' = IF e = None THEN None ELSE tail
                    /\ writer' = FALSE
                    /\ at' = [at EXCEPT ![p] = None]
                    /\ Goto(p, "out")
                    /\ UNCHANGED <<program, readers, next, state, mine, peer>>

Switch(p, to) == Goto(p, to) /\ UNCHANGED <<program, readers, writer, list, state, locals>>

(* The loop at wakeupPendingWriter. *)
WunlockWriter(p) ==
  /\ pc[p] = "walkw"
  /\ \/ at[p] = None /\ WunlockEnd(p, None)
     \/ /\ at[p] # None
        /\ \/ StartWriter(p, at[p]) /\ UNCHANGED writer
           \/ Skip(p, at[p])
           \/ state[at[p]] = "QueuingR" /\ Switch(p, "walkr")
           \/ state[at[p]] \in {"Free", "Done"} /\ Corrupt(p)

(* mutant: the reader is let in without being counted *)
StartReaderUncounted(p, e) ==
  /\ state[e] = "QueuingR"
  /\ SetState(e, "Done")
  /\ peer' = [peer EXCEPT ![p] = e]
  /\ at' = [at EXCEPT ![p] = next[e]]
  /\ Goto(p, "waker")
  /\ UNCHANGED <<program, readers, writer, list, mine>>
(* The queued reader e is let in; q->lock is released for the rendezvous.  *)
StartReader(p, e) == /\ state[e] = "QueuingR"
                     /\ SetState(e, "Done")
                     /\ readers' = readers + 1
                     /\ peer' = [peer EXCEPT ![p] = e]
                     /\ at' = [at EXCEPT ![p] = next[e]]
                     /\ Goto(p, "waker")
                     /\ UNCHANGED <<program, writer, list, mine>>

(* The loop at wakeupPendingReaders. *)
WunlockReader(p) ==
  /\ pc[p] = "walkr"
  /\ \/ at[p] = None /\ WunlockEnd(p, None)
     \/ /\ at[p] # None
        /\ \/ StartReader(p, at[p])
           \/ Skip(p, at[p])
           \/ state[at[p]] = "QueuingW" /\ readers > 0 /\ WunlockEnd(p, at[p])
           \/ state[at[p]] = "QueuingW" /\ readers <= 0 /\ Switch(p, "walkw")
           \/ state[at[p]] \in {"Free", "Done"} /\ Corrupt(p)

WunlockRelock(p) == Entering(p, "more") /\ Switch(p, "walkr")
-----------------------------------------------------------------------------
(* rendezvous(2), as in UserQLock: two processes with the same tag meet    *)
(* and go on, or the first to arrive is interrupted as it is met, calls    *)
(* again, and only the other goes on.                                      *)
Waking == {"wake", "waker"}
Tag(p) == IF pc[p] \in Waking THEN peer[p] ELSE mine[p]

Back(p) == CASE pc[p] = "wake" -> "out"
             [] pc[p] = "waker" -> "more"
             [] pc[p] \in {"waitr", "waitrt"} -> "gotr"
             [] pc[p] \in {"waitw", "waitwt"} -> "gotw"

Rendezvous(p, w) ==
  /\ p # w
  /\ pc[p] \in Waiting \cup Waking
  /\ pc[w] \in Waiting \cup Waking
  /\ Tag(p) = Tag(w)
  /\ \/ /\ pc' = [pc EXCEPT ![p] = Back(p), ![w] = Back(w)]
        /\ peer' = [peer EXCEPT ![p] = None, ![w] = None]
        /\ UNCHANGED torn
     \/ /\ Goto(p, Back(p))
        /\ peer' = [peer EXCEPT ![p] = None]
        /\ torn' = TRUE
  /\ UNCHANGED <<program, readers, writer, list, state, mine, at>>

(* cas(&mp->state, Done, Free), after the rendezvous *)
Granted(p) ==
  /\ pc[p] \in {"gotr", "gotw"}
  /\ IF state[mine[p]] = "Done"
     THEN /\ SetState(mine[p], "Free")
          /\ mine' = [mine EXCEPT ![p] = None]
          /\ Goto(p, IF pc[p] = "gotr" THEN "rcs" ELSE "wcs")
     ELSE Goto(p, "failed") /\ UNCHANGED <<state, mine>>
  /\ UNCHANGED <<program, readers, writer, list, peer, at>>

Timedouts == {e \in QLp : state[e] = "Timedout"}

(* Interrupted by awake, with the entry still queued (in state s): give    *)
(* up.  If it is Done the rendezvous is called again.                      *)
Timeout(p, s) ==
  /\ Cardinality(Timedouts) < MaxTimedout
  /\ \/ /\ state[mine[p]] = s
        /\ SetState(mine[p], "Timedout")
        /\ mine' = [mine EXCEPT ![p] = None]
        /\ Goto(p, "out")
     \/ /\ state[mine[p]] \notin {s, "Done"}
        /\ Goto(p, "failed")
        /\ UNCHANGED <<state, mine>>
  /\ UNCHANGED <<program, readers, writer, list, peer, at>>

RlocktTimeout(p) == pc[p] = "waitrt" /\ Timeout(p, "QueuingR")
WlocktTimeout(p) == pc[p] = "waitwt" /\ Timeout(p, "QueuingW")

Call(p) == \/ "rlock" \in program[p] /\ Rlock(p, "waitr")
           \/ "rlockt" \in program[p] /\ Rlock(p, "waitrt")
           \/ "canrlock" \in program[p] /\ Canrlock(p)
           \/ "wlock" \in program[p] /\ Wlock(p, "waitw")
           \/ "wlockt" \in program[p] /\ Wlock(p, "waitwt")
           \/ "canwlock" \in program[p] /\ Canwlock(p)

(* What a process that does not wait for another goes on to do. *)
Run(p) == \/ Runlock(p) \/ RunlockWalk(p) \/ Wunlock(p) \/ WunlockWriter(p)
          \/ WunlockReader(p) \/ WunlockRelock(p) \/ Granted(p)
Proceed(p) == (Run(p) /\ UNCHANGED torn) \/ \E w \in Proc : Rendezvous(p, w)

Next == \E p \in Proc :
          \/ (Call(p) \/ RlocktTimeout(p) \/ WlocktTimeout(p)) /\ UNCHANGED torn
          \/ Proceed(p)

Spec == Init /\ [][Next]_vars

(* Owners unlock, the kernel completes a rendezvous both parties are in,   *)
(* and a process that tries gets q->lock in the end.  Nobody has to ask    *)
(* for the lock or to time out.                                            *)
FairSpec == Spec /\ \A p \in Proc : WF_vars(Proceed(p))
-----------------------------------------------------------------------------
TypeOK == /\ readers \in Nat
          /\ writer \in BOOLEAN
          /\ {head, tail} \subseteq QLp \cup {None}
          /\ next \in [QLp -> QLp \cup {None}]
          /\ state \in [QLp -> States]
          /\ pc \in [Proc -> PCs]
          /\ mine \in [Proc -> QLp \cup {None}]
          /\ peer \in [Proc -> QLp \cup {None}]
          /\ at \in [Proc -> QLp \cup {None}]
          /\ torn \in BOOLEAN

(* Who reads or writes, or was let in and does not know yet.               *)
LetIn(p) == pc[p] \in Waiting \cup {"gotr", "gotw"} /\ state[mine[p]] = "Done"
Readers == {p \in Proc : pc[p] = "rcs" \/ (LetIn(p) /\ pc[p] \in {"waitr", "waitrt", "gotr"})}
Writers == {p \in Proc : pc[p] = "wcs" \/ (LetIn(p) /\ pc[p] \in {"waitw", "waitwt", "gotw"})}

(* Only writers queue, and they do not time out: what the lock can be used *)
(* for, since both walks leave q->head at entries that are free otherwise. *)
Plain == \A p \in Proc : program[p] \subseteq {"canrlock", "wlock", "canwlock"}

(* One writer or many readers. *)
Exclusion == Plain => /\ Cardinality(Writers) <= 1
                      /\ Writers # {} => Readers = {} /\ writer

(* q->_readers counts the readers, those included that wunlock let in and  *)
(* that have not run yet.  After a torn rendezvous a reader may be met by  *)
(* somebody else's waker and abort, and be counted when its turn comes.    *)
ReadersCounted == /\ Cardinality(Readers) <= readers
                  /\ ~torn => Cardinality(Readers) = readers

(* No call of abort() and no failed assertion is reached, but the one on   *)
(* the entry of a process that a waker left over from a torn rendezvous    *)
(* met before its turn.                                                    *)
NoAbort == Plain => \A p \in Proc : pc[p] \in Aborted => pc[p] = "failed" /\ torn

(* Nobody is queued while the lock is free, with nobody about to look.     *)
NoneForgotten ==
  Plain /\ Unlocked /\ CanWrite =>
    \A p \in Proc : pc[p] \in Waiting => LetIn(p)

(* Where Plain, the lock keeps the promise of RWMutex.  The last reader    *)
(* has it until it has found the writer to start, and the writer until it  *)
(* has found the next.                                                     *)
Taken(p) == mine[p] # None /\ state[mine[p]] = "Done"
Queued(p) == mine[p] # None /\ state[mine[p]] # "Done"
Abstract == INSTANCE RWMutex WITH
  reading <- IF Plain THEN {p \in Proc : pc[p] \in {"rcs", "walk"}} ELSE {},
  writing <- IF Plain THEN {p \in Proc : pc[p] \in {"wcs", "walkw"} \/ Taken(p)} ELSE {},
  waitr <- {},
  waitw <- IF Plain THEN {p \in Proc : Queued(p)} ELSE {}
ImplementsRWMutex == Abstract!Spec

(* "p cannot have reached Done or Free already since we hold q->lock"      *)
(* (qlock.c:415-417), of the entries runlock walks.                        *)
WalkedNotDone == \A p \in Proc : pc[p] = "walk" /\ at[p] # None =>
                   state[at[p]] \notin {"Done", "Free"}

(* A writer that waits is let in, if no rendezvous is torn. *)
NoStarvation == []~torn => \A p \in Proc : Plain /\ pc[p] = "waitw" ~> pc[p] = "wcs"
=============================================================================
