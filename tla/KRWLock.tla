------------------------------ MODULE KRWLock ------------------------------
(***************************************************************************)
(* The kernel's reader/writer lock, sys/src/kern/port/qlock.c.  One queue  *)
(* holds readers and writers in order of arrival; a process waits there in *)
(* state QueueingR or QueueingW, and whoever takes it off the queue makes  *)
(* it ready, runlock and wunlock after they have released q->use.          *)
(* What is done under the spin lock q->use is one step.                    *)
(***************************************************************************)
EXTENDS Integers, Sequences, FiniteSets

CONSTANTS Proc, None

ASSUME KRWLockAssumption == None \notin Proc

VARIABLES readers,   \* q->readers
          writer,    \* q->writer
          queue,     \* q->head ... q->tail
          state,     \* Proc.state
          pc,
          next       \* the process runlock or wunlock is to make ready

vars == <<readers, writer, queue, state, pc, next>>

(* out; reading, writing: own the lock; queued: in sched(); ready: in      *)
(* runlock or wunlock, before ready(); panic: called panic().              *)
PCs == {"out", "reading", "writing", "queued", "ready", "panic"}
States == {"Running", "QueueingR", "QueueingW", "ReadyR", "ReadyW"}

Init == /\ readers = 0
        /\ writer = FALSE
        /\ queue = <<>>
        /\ state = [p \in Proc |-> "Running"]
        /\ pc = [p \in Proc |-> "out"]
        /\ next = [p \in Proc |-> None]

Goto(p, to) == pc' = [pc EXCEPT ![p] = to]

(* ready(p): the state becomes Ready; in the model it still says what p    *)
(* was waiting for, which in the code is where p continues.                *)
MadeReady(s) == CASE s = "QueueingR" -> "ReadyR"
                  [] s = "QueueingW" -> "ReadyW"
                  [] OTHER -> s

Enqueue(p, s) == /\ queue' = Append(queue, p)
                 /\ state' = [state EXCEPT ![p] = s]
                 /\ Goto(p, "queued")
                 /\ UNCHANGED <<readers, writer, next>>

(* mutant: readers overtake queued writers *)
CanReadOvertakes == ~writer
CanRead == ~writer /\ queue = <<>>

Canrlock(p) == /\ pc[p] = "out" /\ CanRead
               /\ readers' = readers + 1
               /\ Goto(p, "reading")
               /\ UNCHANGED <<writer, queue, state, next>>

Rlock(p) == \/ Canrlock(p)
            \/ pc[p] = "out" /\ ~CanRead /\ Enqueue(p, "QueueingR")

Wlock(p) == /\ pc[p] = "out"
            /\ IF readers = 0 /\ ~writer
               THEN /\ writer' = TRUE
                    /\ Goto(p, "writing")
                    /\ UNCHANGED <<readers, queue, state, next>>
               ELSE Enqueue(p, "QueueingW")

(* mutant: does not wait for the other readers *)
RunlockEarly(p) == /\ pc[p] = "reading"
                   /\ readers' = readers - 1
                   /\ IF queue = <<>>
                      THEN Goto(p, "out") /\ UNCHANGED <<writer, queue, next>>
                      ELSE /\ queue' = Tail(queue) /\ writer' = TRUE
                           /\ next' = [next EXCEPT ![p] = Head(queue)]
                           /\ Goto(p, "ready")
                   /\ UNCHANGED state
Runlock(p) == /\ pc[p] = "reading"
              /\ readers' = readers - 1
              /\ \/ /\ readers > 1 \/ queue = <<>>
                    /\ Goto(p, "out")
                    /\ UNCHANGED <<writer, queue, next>>
                 \/ /\ readers <= 1 /\ queue # <<>> /\ state[Head(queue)] # "QueueingW"
                    /\ Goto(p, "panic")
                    /\ UNCHANGED <<writer, queue, next>>
                 \/ /\ readers <= 1 /\ queue # <<>> /\ state[Head(queue)] = "QueueingW"
                    /\ queue' = Tail(queue)
                    /\ writer' = TRUE
                    /\ next' = [next EXCEPT ![p] = Head(queue)]
                    /\ Goto(p, "ready")
              /\ UNCHANGED state

(* The lock goes to the writer at the head, or to all the readers before   *)
(* the first writer, who are made ready with q->use held.                  *)
(* mutant: only the first of the waiting readers is started *)
WunlockOneReader(p) ==
  /\ pc[p] = "writing"
  /\ \/ /\ queue = <<>>
        /\ writer' = FALSE /\ Goto(p, "out")
        /\ UNCHANGED <<readers, queue, state, next>>
     \/ /\ queue # <<>> /\ state[Head(queue)] = "QueueingW"
        /\ queue' = Tail(queue)
        /\ next' = [next EXCEPT ![p] = Head(queue)]
        /\ Goto(p, "ready")
        /\ UNCHANGED <<readers, writer, state>>
     \/ /\ queue # <<>> /\ state[Head(queue)] = "QueueingR"
        /\ queue' = Tail(queue)
        /\ readers' = readers + 1 /\ writer' = FALSE
        /\ state' = [state EXCEPT ![Head(queue)] = MadeReady(@)]
        /\ Goto(p, "out")
        /\ UNCHANGED next
Wunlock(p) ==
  /\ pc[p] = "writing"
  /\ \/ /\ queue = <<>>
        /\ writer' = FALSE
        /\ Goto(p, "out")
        /\ UNCHANGED <<readers, queue, state, next>>
     \/ /\ queue # <<>> /\ state[Head(queue)] = "QueueingW"
        /\ queue' = Tail(queue)
        /\ next' = [next EXCEPT ![p] = Head(queue)]
        /\ Goto(p, "ready")
        /\ UNCHANGED <<readers, writer, state>>
     \/ \E k \in 1..Len(queue) :
          LET started == {queue[i] : i \in 1..k}
          IN  /\ \A r \in started : state[r] = "QueueingR"
              /\ k < Len(queue) => state[queue[k + 1]] # "QueueingR"
              /\ queue' = SubSeq(queue, k + 1, Len(queue))
              /\ readers' = readers + k
              /\ state' = [r \in Proc |-> IF r \in started THEN MadeReady(state[r]) ELSE state[r]]
              /\ writer' = FALSE
              /\ Goto(p, "out")
              /\ UNCHANGED next
     \/ /\ queue # <<>> /\ state[Head(queue)] \notin {"QueueingR", "QueueingW"}
        /\ Goto(p, "panic")
        /\ UNCHANGED <<readers, writer, queue, state, next>>

(* ready(p), after unlock(&q->use) *)
Ready(p) == /\ pc[p] = "ready"
            /\ state' = [state EXCEPT ![next[p]] = MadeReady(@)]
            /\ next' = [next EXCEPT ![p] = None]
            /\ Goto(p, "out")
            /\ UNCHANGED <<readers, writer, queue>>

(* back from sched() with the lock *)
Resume(p) == /\ pc[p] = "queued" /\ state[p] \in {"ReadyR", "ReadyW"}
             /\ state' = [state EXCEPT ![p] = "Running"]
             /\ Goto(p, IF state[p] = "ReadyR" THEN "reading" ELSE "writing")
             /\ UNCHANGED <<readers, writer, queue, next>>

Call(p) == Rlock(p) \/ Canrlock(p) \/ Wlock(p)
Step(p) == Runlock(p) \/ Wunlock(p) \/ Ready(p) \/ Resume(p)

Next == \E p \in Proc : Call(p) \/ Step(p)

Spec == Init /\ [][Next]_vars

(* Owners unlock and ready processes run; nobody has to ask for the lock. *)
FairSpec == Spec /\ \A p \in Proc : WF_vars(Step(p))
-----------------------------------------------------------------------------
TypeOK == /\ readers \in Nat
          /\ writer \in BOOLEAN
          /\ queue \in Seq(Proc)
          /\ state \in [Proc -> States]
          /\ pc \in [Proc -> PCs]
          /\ next \in [Proc -> Proc \cup {None}]

InQueue == {queue[i] : i \in DOMAIN queue}

(* Who owns the lock, or was taken off the queue to own it. *)
Readers == {p \in Proc : \/ pc[p] = "reading"
                         \/ pc[p] = "queued" /\ state[p] = "ReadyR"}
Writers == {p \in Proc : \/ pc[p] = "writing"
                         \/ /\ pc[p] = "queued" /\ state[p] \in {"QueueingW", "ReadyW"}
                            /\ p \notin InQueue}

(* Readers and writers exclude each other, writers one another, those who  *)
(* have been chosen and not yet run included; readers and writer say who   *)
(* has the lock.                                                           *)
Exclusion == /\ readers = Cardinality(Readers)
             /\ writer <=> Writers # {}
             /\ \A p, q \in Writers : p = q
             /\ Writers # {} => Readers = {}

(* Neither panic of runlock and wunlock is reached: the last reader finds  *)
(* a writer at the head of the queue.                                      *)
NoPanic == \A p \in Proc : pc[p] # "panic"

(* Nobody is queued on a free lock, and no reader is left queued behind    *)
(* readers only.                                                           *)
NoneForgotten == queue # <<>> => \/ writer
                                 \/ readers > 0 /\ state[Head(queue)] = "QueueingW"

(* The lock keeps the promise of RWMutex, with those it was handed to as   *)
(* its owners: that wlock looks at the readers and the writer only, and    *)
(* not at the queue, lets nobody overtake.                                 *)
Abstract == INSTANCE RWMutex WITH
              reading <- Readers, writing <- Writers,
              waitr <- {p \in InQueue : state[p] = "QueueingR"},
              waitw <- {p \in InQueue : state[p] = "QueueingW"}
ImplementsRWMutex == Abstract!Spec

(* Every reader and every writer gets its turn. *)
NoStarvation == \A p \in Proc : pc[p] = "queued" ~> pc[p] \in {"reading", "writing"}
=============================================================================
