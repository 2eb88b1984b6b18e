----------------------------- MODULE UserQLock -----------------------------
(***************************************************************************)
(* The queueing lock QLock and the condition variable Rendez of the C      *)
(* library, sys/src/lib/c/9sys/qlock.c.  A process that finds the lock     *)
(* taken queues an entry (QLp) of a pool shared by all the locks of the    *)
(* program and meets in rendezvous(2), tagged with its entry, the process  *)
(* that hands it the lock.                                                 *)
(*                                                                         *)
(* What a function does between lock(&q->lock) and unlock(&q->lock) is one *)
(* step: the only writes of others meanwhile are a waiter's compare-and-   *)
(* swap to Timedout, which commutes with the walk of the list, and the     *)
(* freeing of an entry that is in no list.  A lockt that fails on q->lock  *)
(* changes nothing here and is left out.  So is canqlock: a failing        *)
(* canlock(&q->lock) may let a second process into the section (lock.c:39, *)
(* the run UserLockCanlock), and of a program that calls it nothing below  *)
(* can be said.                                                            *)
(***************************************************************************)
EXTENDS Integers, Sequences, FiniteSets

CONSTANTS Proc,         \* processes sharing the lock
          QLp,          \* the pool ql.x of queue entries
          Ops,          \* the functions the program uses
          MaxTimedout,  \* bound: entries left behind by timed out calls
          None          \* "nobody" and "no entry"

Functions == {"qlock", "qlockt", "rsleep", "rsleept", "rwakeup", "rwakeupall"}

ASSUME UserQLockAssumption == /\ Ops \subseteq Functions
                              /\ MaxTimedout \in Nat
                              /\ None \notin Proc \cup QLp
                              /\ Proc \cap QLp = {}

VARIABLES locked,    \* q->locked
          queue,     \* the list q->head ... q->tail
          rend,      \* the list r->head ... r->tail of the Rendez with r->l = q
          state,     \* the state of every entry
          pc,        \* where each process is
          mine,      \* mp: the entry a process waits on
          peer,      \* the entry of the process it is waking
          torn       \* history: has a rendezvous been interrupted on one side?

vars == <<locked, queue, rend, state, pc, mine, peer, torn>>

States == {"Free", "Queuing", "Sleeping", "Timedout", "Done"}

(* out: does not own the lock; cs: owns it; wait, waitt, sleep, sleept: in *)
(* the rendezvous of qlock, qlockt, rsleep, rsleept; got: back from it,    *)
(* with the lock; wake, wakes, wakest: in the rendezvous with the next     *)
(* owner in qunlock, rsleep, rsleept; relock: rsleept timed out, about to  *)
(* qlock; all: in the loop of rwakeupall.  Three ways to abort: full, no   *)
(* free entry; corrupt, an entry of a list in an impossible state; failed, *)
(* a failed assertion on one's own entry.                                  *)
Waiting == {"wait", "waitt", "sleep", "sleept"}
Waking == {"wake", "wakes", "wakest"}
Aborted == {"full", "corrupt", "failed"}
PCs == {"out", "cs", "got", "relock", "all"} \cup Waiting \cup Waking \cup Aborted

Init == /\ locked = FALSE
        /\ queue = <<>>
        /\ rend = <<>>
        /\ state = [e \in QLp |-> "Free"]
        /\ pc = [p \in Proc |-> "out"]
        /\ mine = [p \in Proc |-> None]
        /\ peer = [p \in Proc |-> None]
        /\ torn = FALSE

(* Every function starts with lock(&q->lock), which a process that aborted *)
(* while walking a list, or in getqlp, never gave back.                    *)
Entering(p, from) == /\ pc[p] = from
                     /\ \A q \in Proc : pc[q] \notin {"full", "corrupt"}

Goto(p, to) == pc' = [pc EXCEPT ![p] = to]

FreeEntries == {e \in QLp : state[e] = "Free"}

(* getqlp aborts when it comes back to the entry it started after without  *)
(* a free one: it never tries that entry itself.                           *)
GetqlpAborts(p) == /\ Cardinality(FreeEntries) <= 1
                   /\ Goto(p, "full")
                   /\ UNCHANGED <<locked, queue, rend, state, mine, peer>>

(* The lock is free: take it. *)
Take(p) == /\ ~locked
           /\ locked' = TRUE
           /\ Goto(p, "cs")
           /\ UNCHANGED <<queue, rend, state, mine, peer>>

(* Chain into the waiting list.  Which free entry getqlp finds first       *)
(* depends on what the other users of the pool made of ql.p.               *)
Enqueue(p, to) == /\ locked
                  /\ \/ \E e \in FreeEntries :
                          /\ state' = [state EXCEPT ![e] = "Queuing"]
                          /\ mine' = [mine EXCEPT ![p] = e]
                          /\ queue' = Append(queue, e)
                          /\ Goto(p, to)
                          /\ UNCHANGED <<locked, rend, peer>>
                     \/ GetqlpAborts(p)

Qlock(p) == /\ Entering(p, "relock") \/ (Entering(p, "out") /\ "qlock" \in Ops)
            /\ Take(p) \/ Enqueue(p, "wait")

Qlockt(p) == /\ Entering(p, "out") /\ "qlockt" \in Ops
             /\ Take(p) \/ Enqueue(p, "waitt")

(* The walk of the queue in qunlock, rsleep and rsleept, from entry states *)
(* st: timed out entries are freed, the first other one is made Done and   *)
(* its process is the next owner.                                          *)
(* mutant: unlocked as soon as the first waiter is found timed out *)
HandOffGivesUp(p, st, busy, idle) ==
  IF queue # <<>> /\ st[queue[1]] = "Queuing"
  THEN /\ state' = [st EXCEPT ![queue[1]] = "Done"]
       /\ queue' = Tail(queue)
       /\ peer' = [peer EXCEPT ![p] = queue[1]]
       /\ Goto(p, busy)
       /\ UNCHANGED locked
  ELSE /\ state' = st /\ locked' = FALSE
       /\ Goto(p, idle) /\ UNCHANGED <<queue, peer>>
(* mutant: the lock is given away and also marked free *)
HandOffUnlocks(p, st, busy, idle) ==
  /\ locked' = FALSE
  /\ IF queue # <<>>
     THEN /\ state' = [st EXCEPT ![queue[1]] = "Done"]
          /\ queue' = Tail(queue)
          /\ peer' = [peer EXCEPT ![p] = queue[1]]
          /\ Goto(p, busy)
     ELSE state' = st /\ Goto(p, idle) /\ UNCHANGED <<queue, peer>>
HandOff(p, st, busy, idle) ==
  \E n \in 0..Len(queue) :
    LET skipped == {queue[i] : i \in 1..n}
        freed   == [e \in QLp |-> IF e \in skipped THEN "Free" ELSE st[e]]
    IN  /\ \A e \in skipped : st[e] = "Timedout"
        /\ \/ /\ n = Len(queue)
              /\ state' = freed
              /\ queue' = <<>>
              /\ locked' = FALSE
              /\ Goto(p, idle)
              /\ UNCHANGED peer
           \/ /\ n < Len(queue) /\ st[queue[n + 1]] = "Queuing"
              /\ state' = [freed EXCEPT ![queue[n + 1]] = "Done"]
              /\ queue' = SubSeq(queue, n + 2, Len(queue))
              /\ peer' = [peer EXCEPT ![p] = queue[n + 1]]
              /\ Goto(p, busy)
              /\ UNCHANGED locked
           \/ /\ n < Len(queue) /\ st[queue[n + 1]] \notin {"Queuing", "Timedout"}
              /\ state' = freed
              /\ Goto(p, "corrupt")
              /\ UNCHANGED <<queue, peer, locked>>

Qunlock(p) == /\ Entering(p, "cs")
              /\ HandOff(p, state, "wake", "out")
              /\ UNCHANGED <<rend, mine>>

(* Add ourselves to the wait list of the Rendez, pass the lock on. *)
SleepOn(p, busy, idle) ==
  /\ Entering(p, "cs")
  /\ \/ \E e \in FreeEntries :
          /\ rend' = Append(rend, e)
          /\ mine' = [mine EXCEPT ![p] = e]
          /\ HandOff(p, [state EXCEPT ![e] = "Sleeping"], busy, idle)
     \/ GetqlpAborts(p)

Rsleep(p) == "rsleep" \in Ops /\ SleepOn(p, "wakes", "sleep")

Rsleept(p) == "rsleept" \in Ops /\ SleepOn(p, "wakest", "sleept")

(* Timed out sleepers are freed; the first other one is taken off the      *)
(* Rendez and put on the front of the queue of the lock.  The caller goes  *)
(* on at `some' or, when nobody sleeps, at `none'.                         *)
(* mutant: timed out entries are skipped without a look at their state *)
WakeTimedout(p, some, none) ==
  IF rend = <<>>
  THEN Goto(p, none) /\ UNCHANGED <<locked, queue, rend, state, mine, peer>>
  ELSE /\ state' = [state EXCEPT ![rend[1]] = "Queuing"]
       /\ rend' = Tail(rend)
       /\ queue' = <<rend[1]>> \o queue
       /\ Goto(p, some)
       /\ UNCHANGED <<locked, mine, peer>>
(* mutant: the sleeper is queued but still marked Sleeping *)
WakeKeepsState(p, some, none) ==
  IF rend = <<>>
  THEN Goto(p, none) /\ UNCHANGED <<locked, queue, rend, state, mine, peer>>
  ELSE /\ rend' = Tail(rend)
       /\ queue' = <<rend[1]>> \o queue
       /\ Goto(p, some)
       /\ UNCHANGED <<locked, state, mine, peer>>
Wake(p, some, none) ==
  \E n \in 0..Len(rend) :
    LET skipped == {rend[i] : i \in 1..n}
        freed   == [e \in QLp |-> IF e \in skipped THEN "Free" ELSE state[e]]
    IN  /\ \A e \in skipped : state[e] = "Timedout"
        /\ \/ /\ n = Len(rend)
              /\ state' = freed
              /\ rend' = <<>>
              /\ Goto(p, none)
              /\ UNCHANGED queue
           \/ /\ n < Len(rend) /\ state[rend[n + 1]] = "Sleeping"
              /\ state' = [freed EXCEPT ![rend[n + 1]] = "Queuing"]
              /\ rend' = SubSeq(rend, n + 2, Len(rend))
              /\ queue' = <<rend[n + 1]>> \o queue
              /\ Goto(p, some)
           \/ /\ n < Len(rend) /\ state[rend[n + 1]] \notin {"Sleeping", "Timedout"}
              /\ state' = freed
              /\ Goto(p, "corrupt")
              /\ UNCHANGED <<queue, rend>>
        /\ UNCHANGED <<locked, mine, peer>>

Rwakeup(p) == Entering(p, "cs") /\ "rwakeup" \in Ops /\ Wake(p, "cs", "cs")

Rwakeupall(p) == \/ Entering(p, "cs") /\ "rwakeupall" \in Ops /\ Wake(p, "all", "cs")
                 \/ Entering(p, "all") /\ Wake(p, "all", "cs")

(* rendezvous(2) brings together any two processes that call it with the   *)
(* same tag, whatever they came for.  Both go on, unless a note or an      *)
(* alarm catches the first to arrive between the moment the second took it *)
(* out of the table and made it ready (sysproc.c:730): it then gets ~0     *)
(* (proc.c:969), finds nobody when it calls again, and only the second     *)
(* goes on.  An interrupted rendezvous without a partner is called again   *)
(* and changes nothing, unless the time of the call is over (Timeout).     *)
Tag(p) == IF pc[p] \in Waking THEN peer[p] ELSE mine[p]

Back(p) == CASE pc[p] = "wake"   -> "out"
             [] pc[p] = "wakes"  -> "sleep"
             [] pc[p] = "wakest" -> "sleept"
             [] pc[p] \in Waiting -> "got"

Rendezvous(p, w) ==
  /\ p # w
  /\ pc[p] \in Waiting \cup Waking
  /\ pc[w] \in Waiting \cup Waking
  /\ Tag(p) = Tag(w)
  /\ \/ /\ pc' = [pc EXCEPT ![p] = Back(p), ![w] = Back(w)]
        /\ peer' = [peer EXCEPT ![p] = None, ![w] = None]
        /\ UNCHANGED torn
     \/ /\ Goto(p, Back(p))
        /\ peer' = [peer EXCEPT ![p] = None]
        /\ torn' = TRUE
  /\ UNCHANGED <<locked, queue, rend, state, mine>>

(* cas(&mp->state, Done, Free), after the rendezvous *)
Granted(p) ==
  /\ pc[p] = "got"
  /\ IF state[mine[p]] = "Done"
     THEN /\ state' = [state EXCEPT ![mine[p]] = "Free"]
          /\ mine' = [mine EXCEPT ![p] = None]
          /\ Goto(p, "cs")
     ELSE Goto(p, "failed") /\ UNCHANGED <<state, mine>>
  /\ UNCHANGED <<locked, queue, rend, peer>>

Timedouts == {e \in QLp : state[e] = "Timedout"}

(* Interrupted, with the wakeup in the past: give up if the entry is still *)
(* in the state `waiting'.  If it is Done the rendezvous is called again;  *)
(* anything else fails the assertion.                                      *)
Timeout(p, waiting, to) ==
  /\ Cardinality(Timedouts) < MaxTimedout
  /\ \/ /\ state[mine[p]] = waiting
        /\ state' = [state EXCEPT ![mine[p]] = "Timedout"]
        /\ mine' = [mine EXCEPT ![p] = None]
        /\ Goto(p, to)
     \/ /\ state[mine[p]] \notin {waiting, "Done"}
        /\ Goto(p, "failed")
        /\ UNCHANGED <<state, mine>>
  /\ UNCHANGED <<locked, queue, rend, peer>>

QlocktTimeout(p) == pc[p] = "waitt" /\ Timeout(p, "Queuing", "out")

RsleeptTimeout(p) == pc[p] = "sleept" /\ Timeout(p, "Sleeping", "relock")

Call(p) == /\ \/ Qlock(p) \/ Qlockt(p) \/ Qunlock(p)
              \/ Rsleep(p) \/ Rsleept(p) \/ Rwakeup(p) \/ Rwakeupall(p)
           /\ UNCHANGED torn

Return(p) == \/ \E w \in Proc : Rendezvous(p, w)
             \/ /\ Granted(p) \/ QlocktTimeout(p) \/ RsleeptTimeout(p)
                /\ UNCHANGED torn

Next == \E p \in Proc : Call(p) \/ Return(p)

Spec == Init /\ [][Next]_vars

(* The kernel runs every process that is ready and completes a rendezvous  *)
(* both parties are in; an owner unlocks in the end; the loop of           *)
(* rwakeupall runs.  Nobody has to ask for the lock or to time out.        *)
FairSpec ==
  /\ Spec
  /\ \A p \in Proc : /\ WF_vars(\E w \in Proc : Rendezvous(p, w))
                     /\ WF_vars(pc[p] = "got" /\ Return(p))
                     /\ WF_vars(pc[p] \in {"relock", "all"} /\ Call(p))
                     /\ WF_vars(Qunlock(p) /\ UNCHANGED torn)
-----------------------------------------------------------------------------
TypeOK == /\ locked \in BOOLEAN
          /\ queue \in Seq(QLp) /\ rend \in Seq(QLp)
          /\ state \in [QLp -> States]
          /\ pc \in [Proc -> PCs]
          /\ mine \in [Proc -> QLp \cup {None}]
          /\ peer \in [Proc -> QLp \cup {None}]
          /\ torn \in BOOLEAN

(* The lock is with a process that owns it, or in an entry whose process   *)
(* has been given the lock and does not know yet.                          *)
Owners == {p \in Proc : pc[p] \in {"cs", "all"}}
Given == {e \in QLp : state[e] = "Done"}

(* The lock is never owned twice and never lost, through hand-overs and    *)
(* timeouts: locked says whether it is with somebody, it is with at most   *)
(* one, and nobody is queued while it is free.  Only an owner that aborts  *)
(* takes the lock with it.                                                 *)
OneOwner == /\ \A x, y \in Owners \cup Given : x = y
            /\ Owners \cup Given # {} => locked
            /\ locked => Owners \cup Given # {} \/ \E p \in Proc : pc[p] \in Aborted
            /\ ~locked => \A e \in QLp : state[e] # "Queuing"

(* The lists never hold an entry in an unexpected state, and a process     *)
(* whose time is over while it is being served finds its entry Done, as    *)
(* the assertions say: all but the one of rsleept hold.  After a torn      *)
(* rendezvous the one left behind may be met by somebody else's waker: a   *)
(* process back from the rendezvous may then not own the lock, and aborts. *)
OnlyRsleeptFails ==
  [][\A p \in Proc : pc'[p] \in {"corrupt", "failed"} /\ pc'[p] # pc[p] =>
       pc[p] = "sleept" \/ (torn /\ pc[p] = "got")]_vars

(* "The possible state transitions of a QLp" (qlock.c:29-35).              *)
Transitions ==
  {<<"Free", "Queuing">>, <<"Free", "Sleeping">>, <<"Queuing", "Timedout">>,
   <<"Queuing", "Done">>, <<"Sleeping", "Timedout">>, <<"Sleeping", "Queuing">>,
   <<"Timedout", "Free">>, <<"Done", "Free">>}
DocumentedTransitions ==
  [][\A e \in QLp : state'[e] = state[e] \/ <<state[e], state'[e]>> \in Transitions]_vars

(* A QLock is a lock: it is granted only when nobody owns it. *)
Abstract == INSTANCE Mutex WITH
  holder <- IF \E p \in Proc : pc[p] \in {"cs", "all"}
            THEN CHOOSE p \in Proc : pc[p] \in {"cs", "all"} ELSE None
ImplementsMutex == Abstract!Spec

(* Whoever waits in qlock gets the lock in the end, however many of those  *)
(* before it time out: unless a rendezvous is interrupted on one side, a   *)
(* process that aborted keeps the lock, or others go on sleeping on the    *)
(* Rendez, whom rwakeup puts on front of the queue.                        *)
NoStarvation ==
  []~torn /\ <>[](rend = <<>>) =>
    \A p \in Proc : pc[p] = "wait" ~> pc[p] = "cs" \/ \E q \in Proc : pc[q] \in Aborted
=============================================================================
