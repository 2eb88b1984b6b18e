------------------------------- MODULE KQLock -------------------------------
(***************************************************************************)
(* The kernel's queueing lock, sys/src/kern/port/qlock.c, with the part of *)
(* postnote that pulls a process out of eqlock (proc_interrupt_finalize in *)
(* proc.c).  qlock waits for the lock whatever happens, eqlock gives up    *)
(* when a note is posted.                                                  *)
(*                                                                         *)
(* What is done under the spin lock q->use is one step, except in eqlock,  *)
(* where a poster, who does not hold q->use while it looks at the state of *)
(* the process, can act between the test of notepending and the change of  *)
(* state.  qunlock makes the next owner ready after q->use is released.    *)
(***************************************************************************)
EXTENDS Integers, Sequences, SequencesExt

CONSTANTS Proc,      \* processes that use the lock
          Poster,    \* processes that post notes to them
          None

ASSUME KQLockAssumption == None \notin Proc

VARIABLES use,       \* holder of the spin lock q->use, between steps
          locked,    \* q->locked
          queue,     \* q->head ... q->tail
          state,     \* Proc.state: Running, Queueing, Ready
          eql,       \* Proc.eql = q
          note,      \* Proc.notepending
          pc,        \* where each process is in qlock.c
          next,      \* qunlock's p, to be made ready
          target,    \* the process a poster is in postnote for
          looked     \* the poster saw the target Queueing in eqlock

vars == <<use, locked, queue, state, eql, note, pc, next, target, looked>>
poster == <<target, looked>>

(* out, cs: without, with the lock; enq: eqlock passed its tests; queued,  *)
(* equeued: in the sched() of qlock, eqlock; ready: qunlock before ready() *)
PCs == {"out", "cs", "enq", "queued", "equeued", "ready"}

Init == /\ use = None
        /\ locked = FALSE
        /\ queue = <<>>
        /\ state = [p \in Proc |-> "Running"]
        /\ eql = [p \in Proc |-> FALSE]
        /\ note = [p \in Proc |-> FALSE]
        /\ pc = [p \in Proc |-> "out"]
        /\ next = [p \in Proc |-> None]
        /\ target = [n \in Poster |-> None]
        /\ looked = [n \in Poster |-> FALSE]

Goto(p, to) == pc' = [pc EXCEPT ![p] = to]

Take(p) == /\ pc[p] = "out" /\ use = None /\ ~locked
           /\ locked' = TRUE
           /\ Goto(p, "cs")
           /\ UNCHANGED <<use, queue, state, eql, note, next, poster>>

Enqueue(p, to) == /\ queue' = Append(queue, p)
                  /\ eql' = [eql EXCEPT ![p] = (to = "equeued")]
                  /\ state' = [state EXCEPT ![p] = "Queueing"]
                  /\ Goto(p, to)
                  /\ UNCHANGED <<locked, note, next, poster>>

Qlock(p) == \/ Take(p)
            \/ /\ pc[p] = "out" /\ use = None /\ locked
               /\ Enqueue(p, "queued")
               /\ UNCHANGED use

(* eqlock up to the test of notepending: the error is raised right away *)
EqlockTest(p) == /\ pc[p] = "out" /\ use = None /\ locked
                 /\ IF note[p] THEN /\ note' = [note EXCEPT ![p] = FALSE]
                                    /\ UNCHANGED <<use, pc>>
                               ELSE /\ use' = p
                                    /\ Goto(p, "enq")
                                    /\ UNCHANGED note
                 /\ UNCHANGED <<locked, queue, state, eql, next, poster>>

Eqlock(p) == Take(p) \/ EqlockTest(p)

EqlockQueue(p) == /\ pc[p] = "enq"
                  /\ Enqueue(p, "equeued")
                  /\ use' = None

(* Back from sched().  In eqlock eql says whether the lock was granted.    *)
(* mutant: eqlock asks notepending instead *)
ResumeNote(p) == /\ state[p] = "Ready"
                 /\ state' = [state EXCEPT ![p] = "Running"]
                 /\ eql' = [eql EXCEPT ![p] = FALSE]
                 /\ IF pc[p] = "equeued" /\ note[p]
                    THEN note' = [note EXCEPT ![p] = FALSE] /\ Goto(p, "out")
                    ELSE UNCHANGED note /\ Goto(p, "cs")
                 /\ UNCHANGED <<use, locked, queue, next, poster>>
Resume(p) == /\ state[p] = "Ready"
             /\ state' = [state EXCEPT ![p] = "Running"]
             /\ eql' = [eql EXCEPT ![p] = FALSE]
             /\ IF pc[p] = "equeued" /\ ~eql[p]
                THEN note' = [note EXCEPT ![p] = FALSE] /\ Goto(p, "out")
                ELSE UNCHANGED note /\ Goto(p, "cs")
             /\ UNCHANGED <<use, locked, queue, next, poster>>

(* canlock(&q->use) and q->locked both failing change nothing *)
Canqlock(p) == Take(p)

(* mutant: the lock is marked free for the next owner to take *)
QunlockFrees(p) == /\ pc[p] = "cs" /\ use = None
                   /\ locked' = FALSE
                   /\ IF queue = <<>>
                      THEN Goto(p, "out") /\ UNCHANGED <<queue, next>>
                      ELSE /\ next' = [next EXCEPT ![p] = Head(queue)]
                           /\ queue' = Tail(queue)
                           /\ Goto(p, "ready")
                   /\ UNCHANGED <<use, state, eql, note, poster>>
Qunlock(p) == /\ pc[p] = "cs" /\ use = None
              /\ IF queue = <<>>
                 THEN /\ locked' = FALSE
                      /\ Goto(p, "out")
                      /\ UNCHANGED <<queue, next>>
                 ELSE /\ next' = [next EXCEPT ![p] = Head(queue)]
                      /\ queue' = Tail(queue)
                      /\ Goto(p, "ready")
                      /\ UNCHANGED locked
              /\ UNCHANGED <<use, state, eql, note, poster>>

QunlockReady(p) == /\ pc[p] = "ready"
                   /\ state' = [state EXCEPT ![next[p]] = "Ready"]
                   /\ next' = [next EXCEPT ![p] = None]
                   /\ Goto(p, "out")
                   /\ UNCHANGED <<use, locked, queue, eql, note, poster>>

(* A note that did not interrupt eqlock is delivered when the process goes *)
(* back to user mode.                                                      *)
Notify(p) == /\ pc[p] = "out" /\ note[p]
             /\ note' = [note EXCEPT ![p] = FALSE]
             /\ UNCHANGED <<use, locked, queue, state, eql, pc, next, poster>>
-----------------------------------------------------------------------------
Post(n, p) == /\ target[n] = None
              /\ note' = [note EXCEPT ![p] = TRUE]
              /\ target' = [target EXCEPT ![n] = p]
              /\ UNCHANGED <<use, locked, queue, state, eql, pc, next, looked>>

(* proc_interrupt_finalize without the lock: is there something to do? *)
Look(n) == /\ target[n] # None /\ ~looked[n]
           /\ IF state[target[n]] = "Queueing" /\ eql[target[n]]
              THEN looked' = [looked EXCEPT ![n] = TRUE] /\ UNCHANGED target
              ELSE target' = [target EXCEPT ![n] = None] /\ UNCHANGED looked
           /\ UNCHANGED <<use, locked, queue, state, eql, note, pc, next>>

(* ... and under q->use: only a process still in the queue is pulled out.  *)
(* mutant: a process qunlock already took off the queue is pulled out too *)
PullAny(n) == LET p == target[n] IN
  /\ looked[n] /\ use = None
  /\ IF state[p] = "Queueing" /\ eql[p]
     THEN /\ queue' = SelectSeq(queue, LAMBDA d : d # p)
          /\ eql' = [eql EXCEPT ![p] = FALSE]
          /\ state' = [state EXCEPT ![p] = "Ready"]
     ELSE UNCHANGED <<queue, eql, state>>
  /\ target' = [target EXCEPT ![n] = None]
  /\ looked' = [looked EXCEPT ![n] = FALSE]
  /\ UNCHANGED <<use, locked, note, pc, next>>
Pull(n) == LET p == target[n] IN
  /\ looked[n] /\ use = None
  /\ \/ \E i \in DOMAIN queue :
          /\ queue[i] = p /\ state[p] = "Queueing" /\ eql[p]
          /\ queue' = RemoveAt(queue, i)
          /\ eql' = [eql EXCEPT ![p] = FALSE]
          /\ state' = [state EXCEPT ![p] = "Ready"]
     \/ /\ ~ \E i \in DOMAIN queue : queue[i] = p /\ state[p] = "Queueing" /\ eql[p]
        /\ UNCHANGED <<queue, eql, state>>
  /\ target' = [target EXCEPT ![n] = None]
  /\ looked' = [looked EXCEPT ![n] = FALSE]
  /\ UNCHANGED <<use, locked, note, pc, next>>

Call(p) == Qlock(p) \/ Eqlock(p) \/ Canqlock(p)
Step(p) == EqlockQueue(p) \/ Resume(p) \/ Qunlock(p) \/ QunlockReady(p)

Next == \/ \E p \in Proc : Call(p) \/ Step(p) \/ Notify(p)
        \/ \E n \in Poster : Look(n) \/ Pull(n) \/ \E p \in Proc : Post(n, p)

Spec == Init /\ [][Next]_vars

(* Ready processes run, owners unlock, posters finish, and a processor     *)
(* spinning on q->use gets it in the end (hence SF); nobody has to ask for *)
(* the lock or to post.                                                    *)
FairSpec == /\ Spec
            /\ \A p \in Proc : WF_vars(EqlockQueue(p) \/ Resume(p) \/ QunlockReady(p))
            /\ \A p \in Proc : SF_vars(Qunlock(p))
            /\ \A n \in Poster : WF_vars(Look(n)) /\ SF_vars(Pull(n))
-----------------------------------------------------------------------------
TypeOK == /\ use \in Proc \cup {None}
          /\ locked \in BOOLEAN
          /\ queue \in Seq(Proc)
          /\ state \in [Proc -> {"Running", "Queueing", "Ready"}]
          /\ eql \in [Proc -> BOOLEAN]
          /\ note \in [Proc -> BOOLEAN]
          /\ pc \in [Proc -> PCs]
          /\ next \in [Proc -> Proc \cup {None}]
          /\ target \in [Poster -> Proc \cup {None}]
          /\ looked \in [Poster -> BOOLEAN]

InQueue == {queue[i] : i \in DOMAIN queue}

(* Waiting in sched() and pulled out of eqlock by a poster. *)
Pulled(p) == pc[p] = "equeued" /\ ~eql[p]

(* Who owns the lock, or was taken off the queue to own it. *)
Owners == {p \in Proc : \/ pc[p] = "cs"
                        \/ pc[p] \in {"queued", "equeued"} /\ p \notin InQueue /\ ~Pulled(p)}

(* The lock is never owned twice and never lost, in spite of notes that    *)
(* race with qunlock for the process at the head of the queue.             *)
OneOwner == /\ \A p, q \in Owners : p = q
            /\ locked <=> Owners # {}
            /\ ~locked => queue = <<>>

(* ready() is never called on a process that is already ready or running:  *)
(* it would be on a run queue twice.                                       *)
ReadyOnce == \A p \in Proc : pc[p] = "ready" =>
               /\ state[next[p]] = "Queueing"
               /\ next[p] \notin InQueue
               /\ \A q \in Proc : pc[q] = "ready" /\ next[q] = next[p] => q = p

(* A QLock is a lock: granted only when nobody owns it. *)
Abstract == INSTANCE Mutex WITH
  holder <- IF \E p \in Proc : pc[p] = "cs" THEN CHOOSE p \in Proc : pc[p] = "cs" ELSE None
ImplementsMutex == Abstract!Spec

(* A process in qlock gets the lock; one in eqlock gets it or is           *)
(* interrupted.                                                            *)
NoStarvation == \A p \in Proc : /\ pc[p] = "queued" ~> pc[p] = "cs"
                                /\ pc[p] = "equeued" ~> pc[p] \in {"cs", "out"}
=============================================================================
