-------------------------------- MODULE Qio --------------------------------
(***************************************************************************)
(* Byte queues, sys/src/kern/port/qio.c:379-772 and 899-1416: readers and  *)
(* writers that sleep, interrupt handlers and protocols that may not, and  *)
(* the calls that close, flush or reconfigure a queue under their feet.    *)
(*                                                                         *)
(* What is done under ilock(q) is one step; the wakeup it asked for comes  *)
(* after iunlock and is another.  sleep tests its condition and commits in *)
(* one step, and a wakeup reaches whoever sleeps (SleepWakeup); eqlock is  *)
(* an exclusive lock (KQLock).  Of the blocks only the bytes allocated to  *)
(* them matter, q->len: it is 0 when there is no block, and a read, which  *)
(* may split the block it ends in, can leave any part of it.  Any block    *)
(* may hold 0 bytes, whatever is allocated to it.  q->kick restarts a      *)
(* device, whose qget may come at any time anyway; q->dlen, q->eof and     *)
(* q->err tell what calls return and are left out.                         *)
(***************************************************************************)
EXTENDS Integers, FiniteSets

CONSTANTS Proc,       \* processes, interrupt handlers and kernel code
          Programs,   \* what they may call: functions from Proc
          InitLimit,  \* q->inilim
          Limits,     \* what qsetlimit is called with
          Sizes,      \* allocated sizes of blocks written
          MaxLen,     \* bound: nothing is written beyond it
          None

Calls == {"qread", "qwrite", "qbwrite", "qget", "qconsume", "qdiscard", "qpass",
          "qpassnolim", "qproduce", "qiwrite", "qclose", "qhangup", "qreopen",
          "qsetlimit", "qnoblock", "qflush"}

ASSUME QioAssumption ==
  /\ Programs \subseteq [Proc -> SUBSET Calls]
  /\ {InitLimit} \cup Limits \subseteq Nat \ {0, 1}
  /\ Sizes \subseteq Nat \ {0} /\ \E n \in Sizes : \A m \in Sizes : m <= n
  /\ MaxLen \in Nat
  /\ None \notin Proc

VARIABLES program,  \* what each process may call; never changes
          coalesce, \* Qcoalesce in q->state; never changes
          len, limit, noblock,  \* q->len, q->limit, q->noblock
          flow, starve, closed, \* Qflow, Qstarve, Qclosed in q->state
          rlock, wlock,         \* holders of q->rlock and q->wlock
          pc,                   \* where each process is
          early                 \* it is in the qflow at the start of qwrite

queue == <<len, limit, noblock, flow, starve, closed>>
fixed == <<program, coalesce>>
vars == <<fixed, queue, rlock, wlock, pc, early>>

(* qread and qbread: rwait, rsleep, rasleep, rwoken: in qwait, before,     *)
(* asleep in and back from sleep(&q->rr); rwake: in qwakeup_iunlock.       *)
(* qwrite and qbwrite: add: before ilock; wakerr: before wakeup(&q->rr);   *)
(* flow, setflow, wlock, wsleep, wasleep, wwoken: in qflow, before its     *)
(* test, ilock, eqlock and sleep(&q->wr), asleep in and back from it.      *)
(* Other calls: rr, wr: before their wakeup of q->rr or q->wr; both:       *)
(* before the two wakeups of qclose and qhangup.                           *)
Reading == {"rwait", "rsleep", "rasleep", "rwoken", "rwake"}
Flowing == {"flow", "setflow", "wlock", "wsleep", "wasleep", "wwoken"}
PCs == {"out", "add", "wakerr", "rr", "wr", "both"} \cup Reading \cup Flowing

Init == /\ program \in Programs /\ coalesce \in BOOLEAN
        /\ len = 0 /\ limit = InitLimit /\ noblock = FALSE
        /\ flow = FALSE /\ starve = TRUE /\ closed = FALSE
        /\ rlock = None /\ wlock = None
        /\ pc = [p \in Proc |-> "out"]
        /\ early = [p \in Proc |-> FALSE]

Goto(p, to) == pc' = [pc EXCEPT ![p] = to]
Call(p, c) == pc[p] = "out" /\ c \in program[p]

Notempty == closed \/ len > 0
Notfull == len < limit \/ closed

(* Take blocks, and tell a writer, who waits below the mark, to go on.     *)
Restart(p, mark, yes, no) ==
  IF flow /\ len' < mark THEN flow' = FALSE /\ Goto(p, yes)
                         ELSE UNCHANGED flow /\ Goto(p, no)

(* Add a block, and tell a reader who asked. *)
Deliver(p, yes, no) == /\ starve' = FALSE
                       /\ Goto(p, IF starve THEN yes ELSE no)
Adding(n) == len + n <= MaxLen /\ len' = len + n
-----------------------------------------------------------------------------
Qread(p) == /\ Call(p, "qread") /\ rlock = None
            /\ rlock' = p
            /\ Goto(p, "rwait")
            /\ UNCHANGED <<fixed, queue, wlock, early>>

(* qread and qbread once there is something: take whole blocks, or part of *)
(* one, and release q->rlock after the wakeup of the writer.               *)
ReadBlocks(p) == /\ len > 0
                 /\ len' \in 0..len
                 /\ Restart(p, limit \div 2, "rwake", "out")
                 /\ rlock' = IF pc'[p] = "out" THEN None ELSE rlock
                 /\ UNCHANGED starve

(* There is no block, or, when coalescing, only blocks of 0 bytes, which   *)
(* "just go away": nobody is told that there is room again.                *)
NothingToRead == len = 0 \/ coalesce

(* mutant: the producer is not asked for a wakeup *)
QwaitUnasked(p) ==
  /\ pc[p] \in {"rwait", "rwoken"}
  /\ \/ /\ NothingToRead /\ closed
        /\ len' = 0 /\ rlock' = None
        /\ Goto(p, "out")
        /\ UNCHANGED flow
     \/ /\ NothingToRead /\ ~closed
        /\ len' = 0
        /\ Goto(p, "rsleep")
        /\ UNCHANGED <<flow, rlock>>
     \/ ReadBlocks(p)
  /\ UNCHANGED <<fixed, limit, noblock, starve, closed, wlock, early>>
(* ilock and one turn of qwait's loop, which ends when there is something  *)
(* or the queue is closed.                                                 *)
Qwait(p) ==
  /\ pc[p] \in {"rwait", "rwoken"}
  /\ \/ /\ NothingToRead /\ closed
        /\ len' = 0 /\ rlock' = None
        /\ Goto(p, "out")
        /\ UNCHANGED <<flow, starve>>
     \/ /\ NothingToRead /\ ~closed
        /\ len' = 0 /\ starve' = TRUE
        /\ Goto(p, "rsleep")
        /\ UNCHANGED <<flow, rlock>>
     \/ ReadBlocks(p)
  /\ UNCHANGED <<fixed, limit, noblock, closed, wlock, early>>

SleepR(p) == /\ pc[p] = "rsleep"
             /\ Goto(p, IF Notempty THEN "rwoken" ELSE "rasleep")
             /\ UNCHANGED <<fixed, queue, rlock, wlock, early>>

(* The process asleep on q->rr, on q->wr, and where wakeup leaves it. *)
Woken(q, r) == IF pc[q] = "rasleep" /\ "rr" \in r THEN "rwoken"
               ELSE IF pc[q] = "wasleep" /\ "wr" \in r THEN "wwoken" ELSE pc[q]
Wakeup(p, r, to) == pc' = [q \in Proc |-> IF q = p THEN to ELSE Woken(q, r)]

WakeWriter(p) == /\ pc[p] = "rwake"
                 /\ Wakeup(p, {"wr"}, "out")
                 /\ rlock' = None
                 /\ UNCHANGED <<fixed, queue, wlock, early>>
-----------------------------------------------------------------------------
(* mutant: queue bloat is not stopped *)
QwriteBloats(p) == /\ Call(p, "qwrite")
                   /\ Goto(p, "add")
                   /\ UNCHANGED <<fixed, queue, rlock, wlock, early>>
(* qwrite waits before it allocates anything if the queue holds twice what *)
(* it should: writers that a note interrupts come back with more.          *)
Qwrite(p) == /\ Call(p, "qwrite")
             /\ IF len \div 2 >= limit /\ ~noblock
                THEN Goto(p, "flow") /\ early' = [early EXCEPT ![p] = TRUE]
                ELSE Goto(p, "add") /\ UNCHANGED early
             /\ UNCHANGED <<fixed, queue, rlock, wlock>>

Qbwrite(p) == /\ Call(p, "qbwrite")
              /\ Goto(p, "add")
              /\ UNCHANGED <<fixed, queue, rlock, wlock, early>>

Add(p) == /\ pc[p] = "add"
          /\ IF closed \/ (len >= limit /\ noblock)
             THEN Goto(p, "out") /\ UNCHANGED <<len, starve>>
             ELSE (\E n \in Sizes : Adding(n)) /\ Deliver(p, "wakerr", "flow")
          /\ UNCHANGED <<fixed, limit, noblock, flow, closed, rlock, wlock, early>>

WakeReader(p) == /\ pc[p] = "wakerr"
                 /\ Wakeup(p, {"rr"}, "flow")
                 /\ UNCHANGED <<fixed, queue, rlock, wlock, early>>

(* qflow: when it returns, the qwrite that called it early, or that has    *)
(* more to write, goes on.                                                 *)
FlowTest(p) ==
  /\ pc[p] = "flow"
  /\ \/ /\ ~noblock /\ ~Notfull
        /\ Goto(p, "setflow")
        /\ UNCHANGED early
     \/ /\ noblock \/ Notfull
        /\ \/ Goto(p, "add") /\ (early[p] \/ "qwrite" \in program[p])
           \/ Goto(p, "out") /\ ~early[p]
        /\ early' = [early EXCEPT ![p] = FALSE]
  /\ UNCHANGED <<fixed, queue, rlock, wlock>>

SetFlow(p) == /\ pc[p] = "setflow"
              /\ flow' = TRUE
              /\ Goto(p, "wlock")
              /\ UNCHANGED <<fixed, len, limit, noblock, starve, closed, rlock, wlock, early>>

FlowLock(p) == /\ pc[p] = "wlock" /\ wlock = None
               /\ wlock' = p
               /\ Goto(p, "wsleep")
               /\ UNCHANGED <<fixed, queue, rlock, early>>

(* mutant: the writer sleeps without another look *)
SleepWBlind(p) == /\ pc[p] = "wsleep"
                  /\ Goto(p, "wasleep")
                  /\ UNCHANGED <<fixed, queue, rlock, wlock, early>>
SleepW(p) == /\ pc[p] = "wsleep"
             /\ Goto(p, IF Notfull THEN "wwoken" ELSE "wasleep")
             /\ UNCHANGED <<fixed, queue, rlock, wlock, early>>

FlowAgain(p) == /\ pc[p] = "wwoken"
                /\ wlock' = None
                /\ Goto(p, "flow")
                /\ UNCHANGED <<fixed, queue, rlock, early>>

(* A note, posted while the process sleeps or waits for a lock, or before. *)
(* What was written stays written; the early qflow is called again.        *)
Interrupt(p) ==
  /\ pc[p] \in {"rsleep", "rasleep", "rwoken", "wlock", "wsleep", "wasleep", "wwoken"}
  /\ rlock' = IF rlock = p THEN None ELSE rlock
  /\ wlock' = IF wlock = p THEN None ELSE wlock
  /\ Goto(p, IF early[p] THEN "flow" ELSE "out")
  /\ UNCHANGED <<fixed, queue, early>>
-----------------------------------------------------------------------------
(* At interrupt level.  qget removes a block; qconsume copies out of the   *)
(* first that is not empty, and may find none; qdiscard drops what was     *)
(* acknowledged.                                                           *)
Qget(p) == /\ Call(p, "qget")
           /\ \/ len = 0 /\ starve' = TRUE /\ UNCHANGED <<len, flow, pc>>
              \/ /\ len > 0 /\ len' \in 0..(len - 1)
                 /\ Restart(p, limit \div 2, "wr", "out")
                 /\ UNCHANGED starve
           /\ UNCHANGED <<fixed, limit, noblock, closed, rlock, wlock, early>>

Qconsume(p) == /\ Call(p, "qconsume")
               /\ \/ len' = 0 /\ starve' = TRUE
                  \/ len > 0 /\ len' \in 0..len /\ UNCHANGED starve
               /\ Restart(p, limit \div 2, "wr", "out")
               /\ UNCHANGED <<fixed, limit, noblock, closed, rlock, wlock, early>>

Qdiscard(p) == /\ Call(p, "qdiscard")
               /\ len' \in 0..len
               /\ Restart(p, limit, "wr", "out")
               /\ UNCHANGED <<fixed, limit, noblock, starve, closed, rlock, wlock, early>>

(* qpass drops what does not fit, qpassnolim does not, both ask to be told *)
(* when the queue is half empty.                                           *)
Pass(p) == /\ \E n \in Sizes : Adding(n)
           /\ flow' = (flow \/ len' >= limit \div 2)
           /\ Deliver(p, "rr", "out")
Qpass(p) == /\ Call(p, "qpass") /\ len < limit /\ ~closed
            /\ Pass(p)
            /\ UNCHANGED <<fixed, limit, noblock, closed, rlock, wlock, early>>
Qpassnolim(p) == /\ Call(p, "qpassnolim") /\ ~closed
                 /\ Pass(p)
                 /\ UNCHANGED <<fixed, limit, noblock, closed, rlock, wlock, early>>

Qproduce(p) == /\ Call(p, "qproduce")
               /\ IF len >= limit
                  THEN flow' = TRUE /\ UNCHANGED <<len, starve, pc>>
                  ELSE /\ \E n \in Sizes : Adding(n)
                       /\ flow' = (flow \/ len' >= limit)
                       /\ Deliver(p, "rr", "out")
               /\ UNCHANGED <<fixed, limit, noblock, closed, rlock, wlock, early>>

Qiwrite(p) == /\ Call(p, "qiwrite") /\ ~closed /\ len \div 2 < limit
              /\ \E n \in Sizes : Adding(n)
              /\ Deliver(p, "rr", "out")
              /\ UNCHANGED <<fixed, limit, noblock, flow, closed, rlock, wlock, early>>

(* The wakeup that ends a call. *)
(* mutant: writers are not told *)
NotifyReader(p) == /\ pc[p] \in {"rr", "wr", "both"}
                   /\ Wakeup(p, IF pc[p] = "both" THEN {"rr"} ELSE {pc[p]}, "out")
                   /\ UNCHANGED <<fixed, queue, rlock, wlock, early>>
Notify(p) == /\ pc[p] \in {"rr", "wr", "both"}
             /\ Wakeup(p, IF pc[p] = "both" THEN {"rr", "wr"} ELSE {pc[p]}, "out")
             /\ UNCHANGED <<fixed, queue, rlock, wlock, early>>
-----------------------------------------------------------------------------
Qclose(p) == /\ Call(p, "qclose")
             /\ closed' = TRUE /\ flow' = FALSE /\ starve' = FALSE
             /\ len' = 0 /\ noblock' = FALSE
             /\ Goto(p, "both")
             /\ UNCHANGED <<fixed, limit, rlock, wlock, early>>

Qhangup(p) == /\ Call(p, "qhangup")
              /\ closed' = TRUE
              /\ Goto(p, "both")
              /\ UNCHANGED <<fixed, len, limit, noblock, flow, starve, rlock, wlock, early>>

Qreopen(p) == /\ Call(p, "qreopen")
              /\ closed' = FALSE /\ starve' = TRUE /\ limit' = InitLimit
              /\ UNCHANGED <<fixed, len, noblock, flow, rlock, wlock, pc, early>>

Qsetlimit(p) == /\ Call(p, "qsetlimit")
                /\ limit' \in Limits
                /\ UNCHANGED <<fixed, len, noblock, flow, starve, closed, rlock, wlock, pc, early>>

Qnoblock(p) == /\ Call(p, "qnoblock")
               /\ noblock' \in BOOLEAN
               /\ UNCHANGED <<fixed, len, limit, flow, starve, closed, rlock, wlock, pc, early>>

(* Qflow is left as it is. *)
Qflush(p) == /\ Call(p, "qflush")
             /\ len' = 0
             /\ Goto(p, "wr")
             /\ UNCHANGED <<fixed, limit, noblock, flow, starve, closed, rlock, wlock, early>>
-----------------------------------------------------------------------------
(* What goes on without being asked to. *)
Proceed(p) == \/ Qwait(p) \/ SleepR(p) \/ WakeWriter(p)
              \/ Add(p) \/ WakeReader(p) \/ FlowTest(p) \/ SetFlow(p) \/ FlowLock(p)
              \/ SleepW(p) \/ FlowAgain(p) \/ Notify(p)

Start(p) == \/ Qread(p) \/ Qwrite(p) \/ Qbwrite(p)
            \/ Qget(p) \/ Qconsume(p) \/ Qdiscard(p)
            \/ Qpass(p) \/ Qpassnolim(p) \/ Qproduce(p) \/ Qiwrite(p)
            \/ Qclose(p) \/ Qhangup(p) \/ Qreopen(p)
            \/ Qsetlimit(p) \/ Qnoblock(p) \/ Qflush(p)

Next == \E p \in Proc : Proceed(p) \/ Start(p) \/ Interrupt(p)

Spec == Init /\ [][Next]_vars

(* Processes that can go on do; one that waits for q->wlock is served in   *)
(* turn (KQLock), hence SF.  Nobody has to call anything.                  *)
FairSpec == Spec /\ \A p \in Proc : SF_vars(Proceed(p))
-----------------------------------------------------------------------------
TypeOK == /\ program \in Programs /\ coalesce \in BOOLEAN
          /\ len \in 0..MaxLen
          /\ limit \in Limits \cup {InitLimit}
          /\ noblock \in BOOLEAN /\ flow \in BOOLEAN /\ starve \in BOOLEAN /\ closed \in BOOLEAN
          /\ rlock \in Proc \cup {None} /\ wlock \in Proc \cup {None}
          /\ pc \in [Proc -> PCs]
          /\ early \in [Proc -> BOOLEAN]

Callers(cs) == {p \in Proc : program[p] \cap cs # {}}

(* Only readers, who exclude each other, take what is in the queue.        *)
SoleConsumer == Callers({"qget", "qconsume", "qdiscard", "qflush"}) = {}

(* Only one process writes, and the limit stays.  Protocols may add to the *)
(* queue too, if they set Qflow when they fill it.                         *)
SoleWriter == /\ \A p, q \in Callers({"qwrite", "qbwrite"}) : p = q
              /\ Callers({"qiwrite", "qnoblock", "qsetlimit"}) = {}

WakingR == \E p \in Proc : pc[p] \in {"wakerr", "rr", "both"}
WakingW == \E p \in Proc : pc[p] \in {"rwake", "wr", "both"}

(* "flag requesting producer to wake me" (qio.c:764): a reader sleeps on   *)
(* an empty open queue whose next writer has to wake it, unless somebody   *)
(* is on the way to.  A second consumer takes the block that cleared the   *)
(* flag before the reader sleeps, and breaks this.                         *)
NoLostReader == SoleConsumer => \A p \in Proc : pc[p] = "rasleep" =>
                  (len = 0 /\ ~closed /\ starve) \/ WakingR

(* "flow control, get producer going again" (qio.c:899): a writer sleeps   *)
(* while there is something to take whose taker has to wake it, unless     *)
(* somebody is on the way to.  A second writer refills the queue after the *)
(* flag was cleared and before the first sleeps, and breaks this.  Where   *)
(* qread lets blocks of 0 bytes go away there may be nothing to take, but  *)
(* whoever takes what comes next still has to wake the writer.             *)
NoLostWriter == SoleWriter => \A p \in Proc : pc[p] = "wasleep" =>
                  ((len > 0 \/ coalesce) /\ ~closed /\ flow) \/ WakingW

Largest == CHOOSE n \in Sizes : \A m \in Sizes : m <= n

(* "stop queue bloat" (qio.c:1173): however often its writers are          *)
(* interrupted and come back, each adds at most one block to a queue that  *)
(* was below twice its limit.                                              *)
NoBloat == Callers(Calls \ {"qread", "qwrite", "qclose", "qhangup"}) = {} =>
             len < 2 * InitLimit + Cardinality(Callers({"qwrite"})) * Largest

(* Nobody sleeps for ever on a queue that was closed, or that has what it  *)
(* waits for; but the writer does on one that qread emptied of blocks of 0 *)
(* bytes, as long as nobody else adds to it.                               *)
Served == \A p \in Proc :
  /\ SoleConsumer => (pc[p] = "rasleep" /\ Notempty ~> pc[p] # "rasleep")
  /\ SoleWriter => (pc[p] = "wasleep" /\ (closed \/ (len = 0 /\ ~coalesce)) ~> pc[p] # "wasleep")
=============================================================================
