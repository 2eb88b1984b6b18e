----------------------------- MODULE QioProofs -----------------------------
(* Proofs about the byte queues of Qio.                                    *)
EXTENDS Qio, FiniteSetTheorems, TLAPS

Step(p) == Proceed(p) \/ Start(p) \/ Interrupt(p)

(* Whoever is in qread has q->rlock; whoever is in qwrite or qbwrite was   *)
(* allowed to call it, and is not early elsewhere; the limit and noblock   *)
(* change only by their calls.                                             *)
Writing == Flowing \cup {"add", "wakerr"}
Callings == /\ \A p \in Proc : pc[p] \in Reading => rlock = p
            /\ \A p \in Proc : pc[p] \in Writing => p \in Callers({"qwrite", "qbwrite"})
            /\ \A p \in Proc : early[p] => pc[p] \in Flowing
            /\ Callers({"qsetlimit"}) = {} => limit = InitLimit
            /\ Callers({"qnoblock"}) = {} => ~noblock

(* Before it sleeps, a reader has asked for a wakeup, or there is one no   *)
(* more to wait for; so has a writer.                                      *)
ReaderAsks == SoleConsumer => \A p \in Proc : pc[p] = "rsleep" => starve \/ len > 0 \/ closed
WriterAsks == SoleWriter => \A p \in Proc : pc[p] \in {"wlock", "wsleep"} => flow \/ len < limit

IInv == /\ TypeOK /\ Callings
        /\ ReaderAsks /\ NoLostReader
        /\ WriterAsks /\ NoLostWriter

(* A step of p moves others only by waking them. *)
Moves(p) ==
  \A q \in Proc \ {p} :
    \/ pc'[q] = pc[q]
    \/ pc[q] = "rasleep" /\ pc'[q] = "rwoken"
    \/ pc[q] = "wasleep" /\ pc'[q] = "wwoken"

LEMMA RestartOK ==
  ASSUME TypeOK, NEW p \in Proc, NEW mark, NEW yes \in PCs, NEW no \in PCs, Restart(p, mark, yes, no)
  PROVE  flow' \in BOOLEAN /\ pc' \in [Proc -> PCs]
  BY DEF TypeOK, Restart, Goto

LEMMA DeliverOK ==
  ASSUME TypeOK, NEW p \in Proc, NEW yes \in PCs, NEW no \in PCs, Deliver(p, yes, no)
  PROVE  starve' \in BOOLEAN /\ pc' \in [Proc -> PCs]
  BY DEF TypeOK, Deliver, Goto

LEMMA AddingOK ==
  ASSUME TypeOK, NEW n \in Sizes, Adding(n)
  PROVE  len' \in 0..MaxLen /\ len' > len /\ len' <= len + n
<1>1. n \in Nat /\ n > 0 /\ MaxLen \in Nat
  BY QioAssumption
<1> QED
  BY <1>1 DEF TypeOK, Adding

LEMMA TakingOK ==
  ASSUME TypeOK, len' \in 0..len \/ len' \in 0..(len - 1)
  PROVE  len' \in 0..MaxLen /\ len' <= len
<1>1. MaxLen \in Nat
  BY QioAssumption
<1> QED
  BY <1>1 DEF TypeOK

(* Every call keeps the types. *)
LEMMA StepTypeOK ==
  ASSUME IInv, NEW p \in Proc, Step(p)
  PROVE  TypeOK' /\ program' = program /\ coalesce' = coalesce
<1> USE DEF fixed
<1>1. CASE Qwait(p)
  <2>1. CASE ~ReadBlocks(p)
    <3>0. starve \in BOOLEAN
      BY DEF IInv, TypeOK
    <3>1. /\ len' = 0 /\ flow' = flow /\ starve' \in BOOLEAN /\ rlock' \in {None, rlock}
          /\ Goto(p, "out") \/ Goto(p, "rsleep")
      BY <1>1, <2>1, <3>0, Zenon DEF Qwait
    <3>2. pc' \in [Proc -> PCs]
      BY <3>1 DEF Goto, IInv, TypeOK, PCs, Reading
    <3>3. len' \in 0..MaxLen
      BY <3>1, QioAssumption
    <3>4. UNCHANGED <<program, coalesce, limit, noblock, closed, wlock, early>>
      BY <1>1 DEF Qwait
    <3> QED
      BY <3>1, <3>2, <3>3, <3>4 DEF IInv, TypeOK
  <2>2. CASE ReadBlocks(p)
    <3>1. /\ len' \in 0..len /\ Restart(p, limit \div 2, "rwake", "out")
          /\ rlock' = (IF pc'[p] = "out" THEN None ELSE rlock) /\ UNCHANGED starve
      BY <2>2 DEF ReadBlocks
    <3>2. flow' \in BOOLEAN /\ pc' \in [Proc -> PCs] /\ len' \in 0..MaxLen
      BY <3>1, RestartOK, TakingOK DEF IInv, PCs, Reading
    <3>3. UNCHANGED <<program, coalesce, limit, noblock, closed, wlock, early>>
      BY <1>1 DEF Qwait
    <3> QED
      BY <3>1, <3>2, <3>3 DEF IInv, TypeOK
  <2> QED
    BY <2>1, <2>2
<1>2. CASE SleepR(p)
  BY <1>2 DEF SleepR, Notempty, Goto, queue, IInv, TypeOK, PCs, Reading, Flowing
<1>3. CASE WakeWriter(p)
  BY <1>3 DEF WakeWriter, Wakeup, Woken, queue, IInv, TypeOK, PCs, Reading, Flowing
<1>4. CASE Add(p)
  <2>1. CASE UNCHANGED <<len, starve>> /\ Goto(p, "out")
    BY <1>4, <2>1 DEF Add, Goto, IInv, TypeOK, PCs
  <2>2. CASE (\E n \in Sizes : Adding(n)) /\ Deliver(p, "wakerr", "flow")
    BY <1>4, <2>2, AddingOK, DeliverOK DEF Add, IInv, TypeOK, PCs, Flowing
  <2> QED
    BY <1>4, <2>1, <2>2 DEF Add
<1>5. CASE WakeReader(p)
  BY <1>5 DEF WakeReader, Wakeup, Woken, queue, IInv, TypeOK, PCs, Reading, Flowing
<1>6. CASE FlowTest(p)
  BY <1>6 DEF FlowTest, Notfull, Goto, queue, IInv, TypeOK, PCs, Reading, Flowing
<1>7. CASE SetFlow(p)
  BY <1>7 DEF SetFlow, Goto, IInv, TypeOK, PCs, Reading, Flowing
<1>8. CASE FlowLock(p)
  BY <1>8 DEF FlowLock, Goto, queue, IInv, TypeOK, PCs, Reading, Flowing
<1>9. CASE SleepW(p)
  BY <1>9 DEF SleepW, Notfull, Goto, queue, IInv, TypeOK, PCs, Reading, Flowing
<1>10. CASE FlowAgain(p)
  BY <1>10 DEF FlowAgain, Goto, queue, IInv, TypeOK, PCs, Reading, Flowing
<1>11. CASE Notify(p)
  BY <1>11 DEF Notify, Wakeup, Woken, queue, IInv, TypeOK, PCs, Reading, Flowing
<1>12. CASE Qread(p)
  BY <1>12 DEF Qread, Call, Goto, queue, IInv, TypeOK, PCs, Reading, Flowing
<1>13. CASE Qwrite(p)
  BY <1>13 DEF Qwrite, Call, Goto, queue, IInv, TypeOK, PCs, Reading, Flowing
<1>14. CASE Qbwrite(p)
  BY <1>14 DEF Qbwrite, Call, Goto, queue, IInv, TypeOK, PCs, Reading, Flowing
<1>15. CASE Qget(p)
  <2>1. CASE len = 0
    BY <1>15, <2>1 DEF Qget, IInv, TypeOK
  <2>2. CASE len # 0
    <3>1. len' \in 0..(len - 1) /\ Restart(p, limit \div 2, "wr", "out") /\ UNCHANGED starve
      BY <1>15, <2>2 DEF Qget
    <3>2. flow' \in BOOLEAN /\ pc' \in [Proc -> PCs] /\ len' \in 0..MaxLen
      BY <3>1, RestartOK, TakingOK DEF IInv, PCs
    <3> QED
      BY <1>15, <3>1, <3>2 DEF Qget, IInv, TypeOK
  <2> QED
    BY <2>1, <2>2
<1>16. CASE Qconsume(p)
  <2>1. /\ len' \in 0..len /\ Restart(p, limit \div 2, "wr", "out") /\ starve' \in BOOLEAN
    <3>1. 0 \in 0..len /\ starve \in BOOLEAN
      BY QioAssumption DEF IInv, TypeOK
    <3> QED
      BY <1>16, <3>1, Zenon DEF Qconsume
  <2>2. flow' \in BOOLEAN /\ pc' \in [Proc -> PCs] /\ len' \in 0..MaxLen
    BY <2>1, RestartOK, TakingOK DEF IInv, PCs
  <2> QED
    BY <1>16, <2>1, <2>2 DEF Qconsume, IInv, TypeOK
<1>17. CASE Qdiscard(p)
  <2>1. /\ len' \in 0..len /\ Restart(p, limit, "wr", "out")
    BY <1>17 DEF Qdiscard
  <2>2. flow' \in BOOLEAN /\ pc' \in [Proc -> PCs] /\ len' \in 0..MaxLen
    BY <2>1, RestartOK, TakingOK DEF IInv, PCs
  <2> QED
    BY <1>17, <2>1, <2>2 DEF Qdiscard, IInv, TypeOK
<1>18. CASE Qpass(p)
  <2>1. (\E n \in Sizes : Adding(n)) /\ Deliver(p, "rr", "out") /\ flow' \in BOOLEAN
    BY <1>18 DEF Qpass, Pass, IInv, TypeOK
  <2> QED
    BY <1>18, <2>1, AddingOK, DeliverOK DEF Qpass, IInv, TypeOK, PCs
<1>19. CASE Qpassnolim(p)
  <2>1. (\E n \in Sizes : Adding(n)) /\ Deliver(p, "rr", "out") /\ flow' \in BOOLEAN
    BY <1>19 DEF Qpassnolim, Pass, IInv, TypeOK
  <2> QED
    BY <1>19, <2>1, AddingOK, DeliverOK DEF Qpassnolim, IInv, TypeOK, PCs
<1>20. CASE Qproduce(p)
  <2>1. CASE flow' = TRUE /\ UNCHANGED <<len, starve, pc>>
    BY <1>20, <2>1 DEF Qproduce, IInv, TypeOK
  <2>2. CASE (\E n \in Sizes : Adding(n)) /\ Deliver(p, "rr", "out") /\ flow' = (flow \/ len' >= limit)
    BY <1>20, <2>2, AddingOK, DeliverOK DEF Qproduce, IInv, TypeOK, PCs
  <2> QED
    BY <1>20, <2>1, <2>2 DEF Qproduce
<1>21. CASE Qiwrite(p)
  <2>1. (\E n \in Sizes : Adding(n)) /\ Deliver(p, "rr", "out")
    BY <1>21 DEF Qiwrite
  <2> QED
    BY <1>21, <2>1, AddingOK, DeliverOK DEF Qiwrite, IInv, TypeOK, PCs
<1>22. CASE Qclose(p)
  <2>1. pc' \in [Proc -> PCs] /\ 0 \in 0..MaxLen
    BY <1>22, QioAssumption DEF Qclose, Goto, IInv, TypeOK, PCs
  <2> QED
    BY <1>22, <2>1 DEF Qclose, IInv, TypeOK
<1>23. CASE Qhangup(p)
  BY <1>23 DEF Qhangup, Call, Goto, IInv, TypeOK, PCs, Reading, Flowing
<1>24. CASE Qreopen(p)
  BY <1>24 DEF Qreopen, IInv, TypeOK
<1>25. CASE Qsetlimit(p)
  BY <1>25 DEF Qsetlimit, Call, IInv, TypeOK, PCs, Reading, Flowing
<1>26. CASE Qnoblock(p)
  BY <1>26 DEF Qnoblock, Call, IInv, TypeOK, PCs, Reading, Flowing
<1>27. CASE Qflush(p)
  <2>1. pc' \in [Proc -> PCs] /\ 0 \in 0..MaxLen
    BY <1>27, QioAssumption DEF Qflush, Goto, IInv, TypeOK, PCs
  <2> QED
    BY <1>27, <2>1 DEF Qflush, IInv, TypeOK
<1>28. CASE Interrupt(p)
  BY <1>28 DEF Interrupt, Goto, queue, IInv, TypeOK, PCs, Reading, Flowing
<1> QED
  BY <1>1, <1>2, <1>3, <1>4, <1>5, <1>6, <1>7, <1>8, <1>9, <1>10, <1>11, <1>12, <1>13, <1>14,
     <1>15, <1>16, <1>17, <1>18, <1>19, <1>20, <1>21, <1>22, <1>23, <1>24, <1>25, <1>26, <1>27, <1>28
  DEF Step, Proceed, Start

(* Who is moved by a step of another is woken. *)
LEMMA StepMoves ==
  ASSUME IInv, NEW p \in Proc, Step(p)
  PROVE  Moves(p)
<1>1. CASE Qwait(p)
  BY <1>1 DEF Qwait, NothingToRead, ReadBlocks, Restart, Goto, IInv, TypeOK, Moves
<1>2. CASE SleepR(p)
  BY <1>2 DEF SleepR, Notempty, Goto, queue, IInv, TypeOK, Moves
<1>3. CASE WakeWriter(p)
  BY <1>3 DEF WakeWriter, Wakeup, Woken, queue, IInv, TypeOK, Moves
<1>4. CASE Add(p)
  BY <1>4 DEF Add, Adding, Deliver, Goto, IInv, TypeOK, Moves
<1>5. CASE WakeReader(p)
  BY <1>5 DEF WakeReader, Wakeup, Woken, queue, IInv, TypeOK, Moves
<1>6. CASE FlowTest(p)
  BY <1>6 DEF FlowTest, Notfull, Goto, queue, IInv, TypeOK, Moves
<1>7. CASE SetFlow(p)
  BY <1>7 DEF SetFlow, Goto, IInv, TypeOK, Moves
<1>8. CASE FlowLock(p)
  BY <1>8 DEF FlowLock, Goto, queue, IInv, TypeOK, Moves
<1>9. CASE SleepW(p)
  BY <1>9 DEF SleepW, Notfull, Goto, queue, IInv, TypeOK, Moves
<1>10. CASE FlowAgain(p)
  BY <1>10 DEF FlowAgain, Goto, queue, IInv, TypeOK, Moves
<1>11. CASE Notify(p)
  BY <1>11 DEF Notify, Wakeup, Woken, queue, IInv, TypeOK, Moves
<1>12. CASE Qread(p)
  BY <1>12 DEF Qread, Call, Goto, queue, IInv, TypeOK, Moves
<1>13. CASE Qwrite(p)
  BY <1>13 DEF Qwrite, Call, Goto, queue, IInv, TypeOK, Moves
<1>14. CASE Qbwrite(p)
  BY <1>14 DEF Qbwrite, Call, Goto, queue, IInv, TypeOK, Moves
<1>15. CASE Qget(p)
  BY <1>15 DEF Qget, Call, Restart, Goto, IInv, TypeOK, Moves
<1>16. CASE Qconsume(p)
  BY <1>16 DEF Qconsume, Call, Restart, Goto, IInv, TypeOK, Moves
<1>17. CASE Qdiscard(p)
  BY <1>17 DEF Qdiscard, Call, Restart, Goto, IInv, TypeOK, Moves
<1>18. CASE Qpass(p)
  BY <1>18 DEF Qpass, Call, Pass, Adding, Deliver, Goto, IInv, TypeOK, Moves
<1>19. CASE Qpassnolim(p)
  BY <1>19 DEF Qpassnolim, Call, Pass, Adding, Deliver, Goto, IInv, TypeOK, Moves
<1>20. CASE Qproduce(p)
  BY <1>20 DEF Qproduce, Call, Adding, Deliver, Goto, IInv, TypeOK, Moves
<1>21. CASE Qiwrite(p)
  BY <1>21 DEF Qiwrite, Call, Adding, Deliver, Goto, IInv, TypeOK, Moves
<1>22. CASE Qclose(p)
  BY <1>22 DEF Qclose, Call, Goto, IInv, TypeOK, Moves
<1>23. CASE Qhangup(p)
  BY <1>23 DEF Qhangup, Call, Goto, IInv, TypeOK, Moves
<1>24. CASE Qreopen(p)
  BY <1>24 DEF Qreopen, Call, IInv, TypeOK, Moves
<1>25. CASE Qsetlimit(p)
  BY <1>25 DEF Qsetlimit, Call, IInv, TypeOK, Moves
<1>26. CASE Qnoblock(p)
  BY <1>26 DEF Qnoblock, Call, IInv, TypeOK, Moves
<1>27. CASE Qflush(p)
  BY <1>27 DEF Qflush, Call, Goto, IInv, TypeOK, Moves
<1>28. CASE Interrupt(p)
  BY <1>28 DEF Interrupt, Goto, queue, IInv, TypeOK, Moves
<1> QED
  BY <1>1, <1>2, <1>3, <1>4, <1>5, <1>6, <1>7, <1>8, <1>9, <1>10, <1>11, <1>12, <1>13, <1>14,
     <1>15, <1>16, <1>17, <1>18, <1>19, <1>20, <1>21, <1>22, <1>23, <1>24, <1>25, <1>26, <1>27, <1>28
  DEF Step, Proceed, Start

(* What a step of p does to locks and parameters. *)
OwnEffect(p) ==
  /\ pc'[p] \in Reading => rlock' = p
  /\ rlock' # rlock => rlock \in {None, p}
  /\ pc'[p] \in Writing => pc[p] \in Writing \/ "qwrite" \in program[p] \/ "qbwrite" \in program[p]
  /\ early'[p] => pc'[p] \in Flowing
  /\ \A q \in Proc \ {p} : early'[q] = early[q]
  /\ limit' \in {limit, InitLimit} \/ "qsetlimit" \in program[p]
  /\ noblock' = noblock \/ ~noblock' \/ "qnoblock" \in program[p]

(* Locks are taken when free and given up by their owner. *)
LEMMA StepOwn ==
  ASSUME IInv, NEW p \in Proc, Step(p)
  PROVE  OwnEffect(p)
<1>1. CASE Qwait(p)
  BY <1>1, QioAssumption DEF Qwait, NothingToRead, ReadBlocks, Restart, Goto, IInv, TypeOK, Callings, OwnEffect, Reading,
     Writing, Flowing
<1>2. CASE SleepR(p)
  BY <1>2, QioAssumption DEF SleepR, Notempty, Goto, queue, IInv, TypeOK, Callings, OwnEffect,
     Reading, Writing, Flowing
<1>3. CASE WakeWriter(p)
  BY <1>3, QioAssumption DEF WakeWriter, Wakeup, Woken, queue, IInv, TypeOK, Callings,
     OwnEffect, Reading, Writing, Flowing
<1>4. CASE Add(p)
  BY <1>4, QioAssumption DEF Add, Adding, Deliver, Goto, IInv, TypeOK, Callings, OwnEffect,
     Reading, Writing, Flowing
<1>5. CASE WakeReader(p)
  BY <1>5, QioAssumption DEF WakeReader, Wakeup, Woken, queue, IInv, TypeOK, Callings,
     OwnEffect, Reading, Writing, Flowing
<1>6. CASE FlowTest(p)
  BY <1>6, QioAssumption DEF FlowTest, Notfull, Goto, queue, IInv, TypeOK, Callings,
     OwnEffect, Reading, Writing, Flowing
<1>7. CASE SetFlow(p)
  BY <1>7, QioAssumption DEF SetFlow, Goto, IInv, TypeOK, Callings, OwnEffect, Reading,
     Writing, Flowing
<1>8. CASE FlowLock(p)
  BY <1>8, QioAssumption DEF FlowLock, Goto, queue, IInv, TypeOK, Callings, OwnEffect,
     Reading, Writing, Flowing
<1>9. CASE SleepW(p)
  BY <1>9, QioAssumption DEF SleepW, Notfull, Goto, queue, IInv, TypeOK, Callings, OwnEffect,
     Reading, Writing, Flowing
<1>10. CASE FlowAgain(p)
  BY <1>10, QioAssumption DEF FlowAgain, Goto, queue, IInv, TypeOK, Callings, OwnEffect,
     Reading, Writing, Flowing
<1>11. CASE Notify(p)
  BY <1>11, QioAssumption DEF Notify, Wakeup, Woken, queue, IInv, TypeOK, Callings, OwnEffect,
     Reading, Writing, Flowing
<1>12. CASE Qread(p)
  BY <1>12, QioAssumption DEF Qread, Call, Goto, queue, IInv, TypeOK, Callings, OwnEffect,
     Reading, Writing, Flowing
<1>13. CASE Qwrite(p)
  BY <1>13, QioAssumption DEF Qwrite, Call, Goto, queue, IInv, TypeOK, Callings, OwnEffect,
     Reading, Writing, Flowing
<1>14. CASE Qbwrite(p)
  BY <1>14, QioAssumption DEF Qbwrite, Call, Goto, queue, IInv, TypeOK, Callings, OwnEffect,
     Reading, Writing, Flowing
<1>15. CASE Qget(p)
  BY <1>15, QioAssumption DEF Qget, Call, Restart, Goto, IInv, TypeOK, Callings, OwnEffect,
     Reading, Writing, Flowing
<1>16. CASE Qconsume(p)
  BY <1>16, QioAssumption DEF Qconsume, Call, Restart, Goto, IInv, TypeOK, Callings,
     OwnEffect, Reading, Writing, Flowing
<1>17. CASE Qdiscard(p)
  BY <1>17, QioAssumption DEF Qdiscard, Call, Restart, Goto, IInv, TypeOK, Callings,
     OwnEffect, Reading, Writing, Flowing
<1>18. CASE Qpass(p)
  BY <1>18, QioAssumption DEF Qpass, Call, Pass, Adding, Deliver, Goto, IInv, TypeOK,
     Callings, OwnEffect, Reading, Writing, Flowing
<1>19. CASE Qpassnolim(p)
  BY <1>19, QioAssumption DEF Qpassnolim, Call, Pass, Adding, Deliver, Goto, IInv, TypeOK,
     Callings, OwnEffect, Reading, Writing, Flowing
<1>20. CASE Qproduce(p)
  BY <1>20, QioAssumption DEF Qproduce, Call, Adding, Deliver, Goto, IInv, TypeOK, Callings,
     OwnEffect, Reading, Writing, Flowing
<1>21. CASE Qiwrite(p)
  BY <1>21, QioAssumption DEF Qiwrite, Call, Adding, Deliver, Goto, IInv, TypeOK, Callings,
     OwnEffect, Reading, Writing, Flowing
<1>22. CASE Qclose(p)
  BY <1>22, QioAssumption DEF Qclose, Call, Goto, IInv, TypeOK, Callings, OwnEffect, Reading,
     Writing, Flowing
<1>23. CASE Qhangup(p)
  BY <1>23, QioAssumption DEF Qhangup, Call, Goto, IInv, TypeOK, Callings, OwnEffect, Reading,
     Writing, Flowing
<1>24. CASE Qreopen(p)
  BY <1>24, QioAssumption DEF Qreopen, Call, IInv, TypeOK, Callings, OwnEffect, Reading,
     Writing, Flowing
<1>25. CASE Qsetlimit(p)
  BY <1>25, QioAssumption DEF Qsetlimit, Call, IInv, TypeOK, Callings, OwnEffect, Reading,
     Writing, Flowing
<1>26. CASE Qnoblock(p)
  BY <1>26, QioAssumption DEF Qnoblock, Call, IInv, TypeOK, Callings, OwnEffect, Reading,
     Writing, Flowing
<1>27. CASE Qflush(p)
  BY <1>27, QioAssumption DEF Qflush, Call, Goto, IInv, TypeOK, Callings, OwnEffect, Reading,
     Writing, Flowing
<1>28. CASE Interrupt(p)
  <2>1. pc[p] \in Flowing \/ (pc[p] \in Reading /\ ~early[p])
    BY <1>28 DEF Interrupt, Flowing, Reading, IInv, Callings
  <2>2. pc'[p] = "out" \/ (pc'[p] = "flow" /\ early[p])
    BY <1>28 DEF Interrupt, Goto, IInv, TypeOK
  <2>3. /\ rlock' # rlock => rlock = p
        /\ UNCHANGED <<limit, noblock, early>>
    BY <1>28 DEF Interrupt, queue
  <2>4. /\ pc'[p] \notin Reading
        /\ pc'[p] \in Writing => pc[p] \in Writing
        /\ early[p] => pc'[p] \in Flowing
    BY <1>28, <2>1, <2>2 DEF Interrupt, Goto, IInv, TypeOK, Reading, Writing, Flowing
  <2> QED
    BY <2>3, <2>4 DEF OwnEffect
<1> QED
  BY <1>1, <1>2, <1>3, <1>4, <1>5, <1>6, <1>7, <1>8, <1>9, <1>10, <1>11, <1>12, <1>13, <1>14,
     <1>15, <1>16, <1>17, <1>18, <1>19, <1>20, <1>21, <1>22, <1>23, <1>24, <1>25, <1>26, <1>27, <1>28
  DEF Step, Proceed, Start

LEMMA StepCallings ==
  ASSUME IInv, NEW p \in Proc, Step(p)
  PROVE  Callings'
<1>1. Moves(p) /\ OwnEffect(p) /\ program' = program
  BY StepMoves, StepOwn, StepTypeOK
<1>2. \A c : Callers(c)' = Callers(c)
  BY <1>1 DEF Callers
<1>3. ASSUME NEW q \in Proc, pc'[q] \in Reading PROVE rlock' = q
  <2>1. CASE q = p
    BY <1>1, <1>3, <2>1 DEF OwnEffect
  <2>2. CASE q # p
    <3>1. pc[q] \in Reading
      BY <1>1, <1>3, <2>2 DEF Moves, Reading
    <3>2. rlock = q
      BY <3>1 DEF IInv, Callings
    <3> QED
      BY <1>1, <2>2, <3>2, QioAssumption DEF OwnEffect
  <2> QED
    BY <2>1, <2>2
<1>4. ASSUME NEW q \in Proc, pc'[q] \in Writing PROVE q \in Callers({"qwrite", "qbwrite"})
  <2>1. pc[q] \in Writing \/ "qwrite" \in program[q] \/ "qbwrite" \in program[q]
    BY <1>1, <1>4 DEF OwnEffect, Moves, Writing, Flowing
  <2> QED
    BY <2>1 DEF IInv, Callings, Callers
<1>5. ASSUME NEW q \in Proc, early'[q] PROVE pc'[q] \in Flowing
  BY <1>1, <1>5 DEF OwnEffect, Moves, IInv, Callings, Flowing
<1>6. (Callers({"qsetlimit"}) = {} => limit' = InitLimit) /\ (Callers({"qnoblock"}) = {} => ~noblock')
  BY <1>1 DEF IInv, Callings, OwnEffect, Callers
<1> QED
  BY <1>2, <1>3, <1>4, <1>5, <1>6 DEF Callings

(* What a step of p does to a reader that sleeps, or is about to. *)
WakesR == {"wakerr", "rr", "both"}
ReaderEffect(p) ==
  /\ pc'[p] = "rsleep" => starve'
  /\ pc'[p] = "rasleep" => len' = 0 /\ ~closed' /\ pc[p] = "rsleep" /\ UNCHANGED <<len, starve, closed>>
  /\ pc[p] \notin Reading => /\ starve \/ len > 0 \/ closed => starve' \/ len' > 0 \/ closed'
                             /\ len = 0 /\ ~closed /\ starve =>
                                  (len' = 0 /\ ~closed' /\ starve') \/ pc'[p] \in WakesR
  /\ pc[p] \in WakesR => pc'[p] \in WakesR \/ \A q \in Proc : pc'[q] # "rasleep"

(* No step but a reader's own takes what it waits for. *)
LEMMA StepReader ==
  ASSUME IInv, NEW p \in Proc, Step(p), SoleConsumer
  PROVE  ReaderEffect(p)
<1>1. CASE Qwait(p)
  BY <1>1, QioAssumption DEF Qwait, NothingToRead, ReadBlocks, Restart, Goto, SoleConsumer, Callers, IInv, TypeOK,
     ReaderEffect, WakesR, Reading
<1>2. CASE SleepR(p)
  BY <1>2, QioAssumption DEF SleepR, Notempty, Goto, queue, SoleConsumer, Callers, IInv,
     TypeOK, ReaderEffect, WakesR, Reading
<1>3. CASE WakeWriter(p)
  BY <1>3, QioAssumption DEF WakeWriter, Wakeup, Woken, queue, SoleConsumer, Callers, IInv,
     TypeOK, ReaderEffect, WakesR, Reading
<1>4. CASE Add(p)
  BY <1>4, QioAssumption DEF Add, Adding, Deliver, Goto, SoleConsumer, Callers, IInv, TypeOK,
     ReaderEffect, WakesR, Reading
<1>5. CASE WakeReader(p)
  BY <1>5, QioAssumption DEF WakeReader, Wakeup, Woken, queue, SoleConsumer, Callers, IInv,
     TypeOK, ReaderEffect, WakesR, Reading
<1>6. CASE FlowTest(p)
  BY <1>6, QioAssumption DEF FlowTest, Notfull, Goto, queue, SoleConsumer, Callers, IInv,
     TypeOK, ReaderEffect, WakesR, Reading
<1>7. CASE SetFlow(p)
  BY <1>7, QioAssumption DEF SetFlow, Goto, SoleConsumer, Callers, IInv, TypeOK, ReaderEffect,
     WakesR, Reading
<1>8. CASE FlowLock(p)
  BY <1>8, QioAssumption DEF FlowLock, Goto, queue, SoleConsumer, Callers, IInv, TypeOK,
     ReaderEffect, WakesR, Reading
<1>9. CASE SleepW(p)
  BY <1>9, QioAssumption DEF SleepW, Notfull, Goto, queue, SoleConsumer, Callers, IInv,
     TypeOK, ReaderEffect, WakesR, Reading
<1>10. CASE FlowAgain(p)
  BY <1>10, QioAssumption DEF FlowAgain, Goto, queue, SoleConsumer, Callers, IInv, TypeOK,
     ReaderEffect, WakesR, Reading
<1>11. CASE Notify(p)
  BY <1>11, QioAssumption DEF Notify, Wakeup, Woken, queue, SoleConsumer, Callers, IInv,
     TypeOK, ReaderEffect, WakesR, Reading
<1>12. CASE Qread(p)
  BY <1>12, QioAssumption DEF Qread, Call, Goto, queue, SoleConsumer, Callers, IInv, TypeOK,
     ReaderEffect, WakesR, Reading
<1>13. CASE Qwrite(p)
  BY <1>13, QioAssumption DEF Qwrite, Call, Goto, queue, SoleConsumer, Callers, IInv, TypeOK,
     ReaderEffect, WakesR, Reading
<1>14. CASE Qbwrite(p)
  BY <1>14, QioAssumption DEF Qbwrite, Call, Goto, queue, SoleConsumer, Callers, IInv, TypeOK,
     ReaderEffect, WakesR, Reading
<1>15. CASE Qget(p)
  BY <1>15, QioAssumption DEF Qget, Call, Restart, Goto, SoleConsumer, Callers, IInv, TypeOK,
     ReaderEffect, WakesR, Reading
<1>16. CASE Qconsume(p)
  BY <1>16, QioAssumption DEF Qconsume, Call, Restart, Goto, SoleConsumer, Callers, IInv,
     TypeOK, ReaderEffect, WakesR, Reading
<1>17. CASE Qdiscard(p)
  BY <1>17, QioAssumption DEF Qdiscard, Call, Restart, Goto, SoleConsumer, Callers, IInv,
     TypeOK, ReaderEffect, WakesR, Reading
<1>18. CASE Qpass(p)
  BY <1>18, QioAssumption DEF Qpass, Call, Pass, Adding, Deliver, Goto, SoleConsumer, Callers,
     IInv, TypeOK, ReaderEffect, WakesR, Reading
<1>19. CASE Qpassnolim(p)
  BY <1>19, QioAssumption DEF Qpassnolim, Call, Pass, Adding, Deliver, Goto, SoleConsumer,
     Callers, IInv, TypeOK, ReaderEffect, WakesR, Reading
<1>20. CASE Qproduce(p)
  BY <1>20, QioAssumption DEF Qproduce, Call, Adding, Deliver, Goto, SoleConsumer, Callers,
     IInv, TypeOK, ReaderEffect, WakesR, Reading
<1>21. CASE Qiwrite(p)
  BY <1>21, QioAssumption DEF Qiwrite, Call, Adding, Deliver, Goto, SoleConsumer, Callers,
     IInv, TypeOK, ReaderEffect, WakesR, Reading
<1>22. CASE Qclose(p)
  BY <1>22, QioAssumption DEF Qclose, Call, Goto, SoleConsumer, Callers, IInv, TypeOK,
     ReaderEffect, WakesR, Reading
<1>23. CASE Qhangup(p)
  BY <1>23, QioAssumption DEF Qhangup, Call, Goto, SoleConsumer, Callers, IInv, TypeOK,
     ReaderEffect, WakesR, Reading
<1>24. CASE Qreopen(p)
  BY <1>24, QioAssumption DEF Qreopen, Call, SoleConsumer, Callers, IInv, TypeOK,
     ReaderEffect, WakesR, Reading
<1>25. CASE Qsetlimit(p)
  BY <1>25, QioAssumption DEF Qsetlimit, Call, SoleConsumer, Callers, IInv, TypeOK,
     ReaderEffect, WakesR, Reading
<1>26. CASE Qnoblock(p)
  BY <1>26, QioAssumption DEF Qnoblock, Call, SoleConsumer, Callers, IInv, TypeOK,
     ReaderEffect, WakesR, Reading
<1>27. CASE Qflush(p)
  BY <1>27, QioAssumption DEF Qflush, Call, Goto, SoleConsumer, Callers, IInv, TypeOK,
     ReaderEffect, WakesR, Reading
<1>28. CASE Interrupt(p)
  BY <1>28, QioAssumption DEF Interrupt, Goto, queue, SoleConsumer, Callers, IInv, TypeOK,
     ReaderEffect, WakesR, Reading
<1> QED
  BY <1>1, <1>2, <1>3, <1>4, <1>5, <1>6, <1>7, <1>8, <1>9, <1>10, <1>11, <1>12, <1>13, <1>14,
     <1>15, <1>16, <1>17, <1>18, <1>19, <1>20, <1>21, <1>22, <1>23, <1>24, <1>25, <1>26, <1>27, <1>28
  DEF Step, Proceed, Start

LEMMA StepNoLostReader ==
  ASSUME IInv, NEW p \in Proc, Step(p)
  PROVE  ReaderAsks' /\ NoLostReader'
<1>1. Moves(p) /\ program' = program /\ (SoleConsumer' <=> SoleConsumer)
  BY StepMoves, StepTypeOK DEF SoleConsumer, Callers
<1> SUFFICES ASSUME SoleConsumer, NEW q \in Proc
             PROVE  /\ pc'[q] = "rsleep" => starve' \/ len' > 0 \/ closed'
                    /\ pc'[q] = "rasleep" => (len' = 0 /\ ~closed' /\ starve') \/ WakingR'
  BY <1>1 DEF ReaderAsks, NoLostReader
<1>2. ReaderEffect(p)
  BY StepReader
<1>3. CASE q = p
  <2>1. pc'[p] = "rasleep" => pc[p] = "rsleep" /\ len' = 0 /\ len = 0 /\ ~closed' /\ ~closed /\ starve' = starve
    BY <1>2 DEF ReaderEffect
  <2>2. pc[p] = "rsleep" /\ len = 0 /\ ~closed => starve
    BY DEF IInv, ReaderAsks
  <2>3. pc'[p] = "rasleep" => len' = 0 /\ ~closed' /\ starve'
    BY <2>1, <2>2
  <2>4. pc'[p] = "rsleep" => starve'
    BY <1>2 DEF ReaderEffect
  <2>5. pc'[q] = pc'[p]
    BY <1>3
  <2> QED
    BY <2>3, <2>4, <2>5
<1>4. CASE q # p
  <2> SUFFICES ASSUME pc'[q] \in {"rsleep", "rasleep"}
               PROVE  /\ pc'[q] = "rsleep" => starve' \/ len' > 0 \/ closed'
                      /\ pc'[q] = "rasleep" => (len' = 0 /\ ~closed' /\ starve') \/ WakingR'
    OBVIOUS
  <2>1. pc[q] = pc'[q] /\ pc[p] \notin Reading
    BY <1>1, <1>4 DEF Moves, IInv, Callings, Reading
  <2>2. CASE pc'[q] = "rsleep"
    BY <1>2, <2>1, <2>2 DEF ReaderEffect, IInv, ReaderAsks
  <2>3. CASE pc'[q] = "rasleep"
    <3>1. CASE len = 0 /\ ~closed /\ starve
      BY <1>2, <2>1, <3>1 DEF ReaderEffect, WakingR, WakesR
    <3>2. CASE WakingR
      <4>1. PICK r \in Proc : pc[r] \in WakesR
        BY <3>2 DEF WakingR, WakesR
      <4>2. pc'[r] \in WakesR
        BY <1>1, <1>2, <2>3, <4>1 DEF ReaderEffect, Moves, WakesR
      <4> QED
        BY <2>3, <4>2 DEF WakingR, WakesR
    <3> QED
      BY <2>1, <2>3, <3>1, <3>2 DEF IInv, NoLostReader
  <2> QED
    BY <2>2, <2>3
<1> QED
  BY <1>3, <1>4

(* What a step of p does to a writer that sleeps, or is about to. *)
WakesW == {"rwake", "wr", "both"}
WriterEffect(p) ==
  /\ pc'[p] \in {"wlock", "wsleep"} => flow' \/ (pc[p] = "wlock" /\ UNCHANGED <<len, limit, flow>>)
  /\ pc'[p] = "wasleep" => /\ pc[p] = "wsleep" /\ ~(len < limit) /\ ~closed
                           /\ UNCHANGED <<len, limit, flow, closed>>
  /\ pc[p] \notin Writing => /\ flow \/ len < limit => flow' \/ len' < limit'
                             /\ (len > 0 \/ coalesce) /\ ~closed /\ flow =>
                                  \/ (len' > 0 \/ coalesce) /\ ~closed' /\ flow'
                                  \/ pc'[p] \in WakesW
  /\ pc[p] \in WakesW => pc'[p] \in WakesW \/ \A q \in Proc : pc'[q] # "wasleep"

(* The marks at which writers are told to go on: the queue is not empty    *)
(* there, and not full below them.                                         *)
LEMMA RestartWriter ==
  ASSUME TypeOK, NEW p \in Proc, NEW mark \in Nat, mark > 0, mark <= limit,
         NEW yes \in WakesW, Restart(p, mark, yes, "out"), len' \in Nat, len' <= len
  PROVE  /\ flow \/ len < limit => flow' \/ len' < limit
         /\ flow => (len' > 0 /\ flow') \/ pc'[p] \in WakesW
         /\ pc'[p] \in {yes, "out"}
<1>1. limit \in Nat /\ len \in Nat /\ flow \in BOOLEAN
  BY QioAssumption DEF TypeOK
<1>2. CASE flow /\ len' < mark
  BY <1>1, <1>2 DEF Restart, Goto, TypeOK
<1>3. CASE ~(flow /\ len' < mark)
  BY <1>1, <1>3 DEF Restart, Goto, TypeOK
<1> QED
  BY <1>2, <1>3

LEMMA Marks ==
  ASSUME TypeOK
  PROVE  /\ limit \in Nat /\ limit > 1 /\ len \in Nat
         /\ limit \div 2 \in Nat /\ limit \div 2 > 0 /\ limit \div 2 <= limit
<1>1. limit \in Nat /\ limit > 1 /\ len \in Nat
  BY QioAssumption DEF TypeOK
<1> QED
  BY <1>1

(* No step lets a writer sleep without asking for a wakeup, or takes *)
(* what is in the queue without giving it. *)
LEMMA StepWriter ==
  ASSUME IInv, NEW p \in Proc, Step(p), SoleWriter
  PROVE  WriterEffect(p)
<1>1. CASE Qwait(p)
  <2>1. CASE ~ReadBlocks(p)
    <3>1. /\ len' = 0 /\ (len = 0 \/ coalesce) /\ UNCHANGED <<flow, closed, limit>>
          /\ pc[p] \in {"rwait", "rwoken"} /\ (Goto(p, "out") \/ Goto(p, "rsleep"))
      BY <1>1, <2>1, Zenon DEF Qwait, NothingToRead
    <3>2. pc'[p] \in {"out", "rsleep"}
      BY <3>1 DEF Goto, IInv, TypeOK
    <3> QED
      BY <3>1, <3>2, Marks DEF WriterEffect, WakesW, IInv
  <2>2. CASE ReadBlocks(p)
    <3>1. /\ Restart(p, limit \div 2, "rwake", "out") /\ len' \in Nat /\ len' <= len
          /\ UNCHANGED <<closed, limit>> /\ pc[p] \in {"rwait", "rwoken"}
      BY <1>1, <2>2, Marks DEF Qwait, ReadBlocks, IInv, TypeOK
    <3> QED
      BY <3>1, Marks, RestartWriter DEF WriterEffect, WakesW, IInv
  <2> QED
    BY <2>1, <2>2
<1>2. CASE SleepR(p)
  BY <1>2, Marks DEF SleepR, Notempty, Goto, queue, SoleWriter, Callers, IInv, TypeOK,
     Callings, WriterEffect, WakesW, Writing, Flowing
<1>3. CASE WakeWriter(p)
  BY <1>3, Marks DEF WakeWriter, Wakeup, Woken, queue, SoleWriter, Callers, IInv, TypeOK,
     Callings, WriterEffect, WakesW, Writing, Flowing
<1>4. CASE Add(p)
  BY <1>4, Marks DEF Add, Adding, Deliver, Goto, SoleWriter, Callers, IInv, TypeOK, Callings,
     WriterEffect, WakesW, Writing, Flowing
<1>5. CASE WakeReader(p)
  BY <1>5, Marks DEF WakeReader, Wakeup, Woken, queue, SoleWriter, Callers, IInv, TypeOK,
     Callings, WriterEffect, WakesW, Writing, Flowing
<1>6. CASE FlowTest(p)
  BY <1>6, Marks DEF FlowTest, Notfull, Goto, queue, SoleWriter, Callers, IInv, TypeOK,
     Callings, WriterEffect, WakesW, Writing, Flowing
<1>7. CASE SetFlow(p)
  BY <1>7, Marks DEF SetFlow, Goto, SoleWriter, Callers, IInv, TypeOK, Callings, WriterEffect,
     WakesW, Writing, Flowing
<1>8. CASE FlowLock(p)
  BY <1>8, Marks DEF FlowLock, Goto, queue, SoleWriter, Callers, IInv, TypeOK, Callings,
     WriterEffect, WakesW, Writing, Flowing
<1>9. CASE SleepW(p)
  BY <1>9, Marks DEF SleepW, Notfull, Goto, queue, SoleWriter, Callers, IInv, TypeOK,
     Callings, WriterEffect, WakesW, Writing, Flowing
<1>10. CASE FlowAgain(p)
  BY <1>10, Marks DEF FlowAgain, Goto, queue, SoleWriter, Callers, IInv, TypeOK, Callings,
     WriterEffect, WakesW, Writing, Flowing
<1>11. CASE Notify(p)
  BY <1>11, Marks DEF Notify, Wakeup, Woken, queue, SoleWriter, Callers, IInv, TypeOK,
     Callings, WriterEffect, WakesW, Writing, Flowing
<1>12. CASE Qread(p)
  BY <1>12, Marks DEF Qread, Call, Goto, queue, SoleWriter, Callers, IInv, TypeOK, Callings,
     WriterEffect, WakesW, Writing, Flowing
<1>13. CASE Qwrite(p)
  BY <1>13, Marks DEF Qwrite, Call, Goto, queue, SoleWriter, Callers, IInv, TypeOK, Callings,
     WriterEffect, WakesW, Writing, Flowing
<1>14. CASE Qbwrite(p)
  BY <1>14, Marks DEF Qbwrite, Call, Goto, queue, SoleWriter, Callers, IInv, TypeOK, Callings,
     WriterEffect, WakesW, Writing, Flowing
<1>15. CASE Qget(p)
  <2>1. CASE len = 0
    BY <1>15, <2>1 DEF Qget, Call, WriterEffect, WakesW, IInv, TypeOK
  <2>2. CASE len # 0
    <3>1. /\ Restart(p, limit \div 2, "wr", "out") /\ len' \in Nat /\ len' <= len
          /\ UNCHANGED <<closed, limit>> /\ pc[p] = "out"
      BY <1>15, <2>2, Marks DEF Qget, Call, IInv, TypeOK
    <3> QED
      BY <3>1, Marks, RestartWriter DEF WriterEffect, WakesW, IInv
  <2> QED
    BY <2>1, <2>2
<1>16. CASE Qconsume(p)
  <2>1. /\ Restart(p, limit \div 2, "wr", "out") /\ len' \in Nat /\ len' <= len
        /\ UNCHANGED <<closed, limit>> /\ pc[p] = "out"
    BY <1>16, Marks DEF Qconsume, Call, IInv, TypeOK
  <2> QED
    BY <2>1, Marks, RestartWriter DEF WriterEffect, WakesW, IInv
<1>17. CASE Qdiscard(p)
  <2>1. /\ Restart(p, limit, "wr", "out") /\ len' \in Nat /\ len' <= len
        /\ UNCHANGED <<closed, limit>> /\ pc[p] = "out"
    BY <1>17, Marks DEF Qdiscard, Call, IInv, TypeOK
  <2> QED
    BY <2>1, Marks, RestartWriter DEF WriterEffect, WakesW, IInv
<1>18. CASE Qpass(p)
  <2>1. PICK n \in Sizes : Adding(n) /\ flow' = (flow \/ len' >= limit \div 2)
    BY <1>18 DEF Qpass, Pass
  <2>2. len' \in Nat /\ len' > len /\ flow \in BOOLEAN
    BY <2>1, AddingOK, Marks DEF IInv, TypeOK
  <2>3. /\ flow => flow'
        /\ ~flow' => ~(len' >= limit \div 2)
    BY <2>1, Zenon
  <2>4. UNCHANGED <<limit, closed>> /\ pc[p] = "out" /\ pc'[p] \in {"rr", "out"}
    BY <1>18 DEF Qpass, Pass, Call, Deliver, Goto, IInv, TypeOK
  <2> QED
    BY <2>2, <2>3, <2>4, Marks DEF WriterEffect, WakesW, IInv
<1>19. CASE Qpassnolim(p)
  <2>1. PICK n \in Sizes : Adding(n) /\ flow' = (flow \/ len' >= limit \div 2)
    BY <1>19 DEF Qpassnolim, Pass
  <2>2. len' \in Nat /\ len' > len /\ flow \in BOOLEAN
    BY <2>1, AddingOK, Marks DEF IInv, TypeOK
  <2>3. /\ flow => flow'
        /\ ~flow' => ~(len' >= limit \div 2)
    BY <2>1, Zenon
  <2>4. UNCHANGED <<limit, closed>> /\ pc[p] = "out" /\ pc'[p] \in {"rr", "out"}
    BY <1>19 DEF Qpassnolim, Pass, Call, Deliver, Goto, IInv, TypeOK
  <2> QED
    BY <2>2, <2>3, <2>4, Marks DEF WriterEffect, WakesW, IInv
<1>20. CASE Qproduce(p)
  <2>1. CASE len >= limit
    BY <1>20, <2>1 DEF Qproduce, Call, WriterEffect, WakesW, IInv, TypeOK
  <2>2. CASE ~(len >= limit)
    <3>1. PICK n \in Sizes : Adding(n) /\ flow' = (flow \/ len' >= limit)
      BY <1>20, <2>2 DEF Qproduce
    <3>2. len' \in Nat /\ len' > len /\ flow \in BOOLEAN
      BY <3>1, AddingOK, Marks DEF IInv, TypeOK
    <3>3. /\ flow => flow'
          /\ ~flow' => ~(len' >= limit)
      BY <3>1, Zenon
    <3>4. UNCHANGED <<limit, closed>> /\ pc[p] = "out" /\ pc'[p] \in {"rr", "out"}
      BY <1>20, <2>2 DEF Qproduce, Call, Deliver, Goto, IInv, TypeOK
    <3> QED
      BY <3>2, <3>3, <3>4, Marks DEF WriterEffect, WakesW, IInv
  <2> QED
    BY <2>1, <2>2
<1>21. CASE Qiwrite(p)
  BY <1>21, Marks DEF Qiwrite, Call, Adding, Deliver, Goto, SoleWriter, Callers, IInv, TypeOK,
     Callings, WriterEffect, WakesW, Writing, Flowing
<1>22. CASE Qclose(p)
  BY <1>22, Marks DEF Qclose, Call, Goto, SoleWriter, Callers, IInv, TypeOK, Callings,
     WriterEffect, WakesW, Writing, Flowing
<1>23. CASE Qhangup(p)
  BY <1>23, Marks DEF Qhangup, Call, Goto, SoleWriter, Callers, IInv, TypeOK, Callings,
     WriterEffect, WakesW, Writing, Flowing
<1>24. CASE Qreopen(p)
  BY <1>24, Marks DEF Qreopen, Call, SoleWriter, Callers, IInv, TypeOK, Callings,
     WriterEffect, WakesW, Writing, Flowing
<1>25. CASE Qsetlimit(p)
  BY <1>25, Marks DEF Qsetlimit, Call, SoleWriter, Callers, IInv, TypeOK, Callings,
     WriterEffect, WakesW, Writing, Flowing
<1>26. CASE Qnoblock(p)
  BY <1>26, Marks DEF Qnoblock, Call, SoleWriter, Callers, IInv, TypeOK, Callings,
     WriterEffect, WakesW, Writing, Flowing
<1>27. CASE Qflush(p)
  BY <1>27, Marks DEF Qflush, Call, Goto, SoleWriter, Callers, IInv, TypeOK, Callings,
     WriterEffect, WakesW, Writing, Flowing
<1>28. CASE Interrupt(p)
  BY <1>28, Marks DEF Interrupt, Goto, queue, SoleWriter, Callers, IInv, TypeOK, Callings,
     WriterEffect, WakesW, Writing, Flowing
<1> QED
  BY <1>1, <1>2, <1>3, <1>4, <1>5, <1>6, <1>7, <1>8, <1>9, <1>10, <1>11, <1>12, <1>13, <1>14,
     <1>15, <1>16, <1>17, <1>18, <1>19, <1>20, <1>21, <1>22, <1>23, <1>24, <1>25, <1>26, <1>27, <1>28
  DEF Step, Proceed, Start

LEMMA StepNoLostWriter ==
  ASSUME IInv, NEW p \in Proc, Step(p)
  PROVE  WriterAsks' /\ NoLostWriter'
<1>1. Moves(p) /\ coalesce' = coalesce /\ (SoleWriter' <=> SoleWriter)
  BY StepMoves, StepTypeOK DEF SoleWriter, Callers
<1> SUFFICES ASSUME SoleWriter, NEW q \in Proc
             PROVE  /\ pc'[q] \in {"wlock", "wsleep"} => flow' \/ len' < limit'
                    /\ pc'[q] = "wasleep" => ((len' > 0 \/ coalesce) /\ ~closed' /\ flow') \/ WakingW'
  BY <1>1 DEF WriterAsks, NoLostWriter
<1>2. WriterEffect(p)
  BY StepWriter
<1>3. CASE q = p
  <2>1. pc'[p] \in {"wlock", "wsleep"} => flow' \/ len' < limit'
    BY <1>2 DEF WriterEffect, IInv, WriterAsks
  <2>2. pc'[p] = "wasleep" => /\ pc[p] = "wsleep" /\ ~(len < limit) /\ ~closed' /\ len' = len
                              /\ flow' = flow
    BY <1>2 DEF WriterEffect
  <2>3. pc[p] = "wsleep" /\ ~(len < limit) => flow /\ len > 0
    BY Marks DEF IInv, WriterAsks
  <2>4. pc'[p] = "wasleep" => len' > 0 /\ ~closed' /\ flow'
    BY <2>2, <2>3
  <2> QED
    BY <1>3, <2>1, <2>4
<1>4. CASE q # p
  <2> SUFFICES ASSUME pc'[q] \in {"wlock", "wsleep", "wasleep"}
               PROVE  /\ pc'[q] \in {"wlock", "wsleep"} => flow' \/ len' < limit'
                      /\ pc'[q] = "wasleep" => ((len' > 0 \/ coalesce) /\ ~closed' /\ flow') \/ WakingW'
    OBVIOUS
  <2>1. pc[q] = pc'[q]
    BY <1>1, <1>4 DEF Moves
  <2>2. pc[p] \notin Writing
    BY <1>4, <2>1 DEF IInv, Callings, Writing, Flowing, SoleWriter
  <2>3. CASE pc'[q] \in {"wlock", "wsleep"}
    BY <1>2, <2>1, <2>2, <2>3 DEF WriterEffect, IInv, WriterAsks
  <2>4. CASE pc'[q] = "wasleep"
    <3>1. CASE (len > 0 \/ coalesce) /\ ~closed /\ flow
      BY <1>2, <2>2, <2>4, <3>1 DEF WriterEffect, WakingW, WakesW
    <3>2. CASE WakingW
      <4>1. PICK r \in Proc : pc[r] \in WakesW
        BY <3>2 DEF WakingW, WakesW
      <4>2. pc'[r] \in WakesW
        BY <1>1, <1>2, <2>4, <4>1 DEF WriterEffect, Moves, WakesW
      <4> QED
        BY <2>4, <4>2 DEF WakingW, WakesW
    <3> QED
      BY <2>1, <2>4, <3>1, <3>2 DEF IInv, NoLostWriter
  <2> QED
    BY <2>3, <2>4
<1> QED
  BY <1>3, <1>4

-----------------------------------------------------------------------------
LEMMA InitInv == Init => IInv
<1> SUFFICES ASSUME Init PROVE IInv
  OBVIOUS
<1>1. TypeOK
  <2>1. 0 \in 0..MaxLen /\ pc \in [Proc -> PCs] /\ early \in [Proc -> BOOLEAN]
    BY QioAssumption DEF Init, PCs
  <2> QED
    BY <2>1 DEF Init, TypeOK
<1>2. \A p \in Proc : pc[p] = "out" /\ ~early[p]
  BY DEF Init
<1> QED
  BY <1>1, <1>2 DEF Init, IInv, Callings, Reading, Writing, Flowing, ReaderAsks, NoLostReader,
                    WriterAsks, NoLostWriter

LEMMA NextInv == IInv /\ [Next]_vars => IInv'
<1> SUFFICES ASSUME IInv, [Next]_vars PROVE IInv'
  OBVIOUS
<1>1. ASSUME NEW p \in Proc, Step(p) PROVE IInv'
  BY <1>1, StepTypeOK, StepCallings, StepNoLostReader, StepNoLostWriter DEF IInv
<1>2. CASE UNCHANGED vars
  BY <1>2 DEF vars, fixed, queue, IInv, TypeOK, Callings, Callers, ReaderAsks, NoLostReader, WakingR,
              WriterAsks, NoLostWriter, WakingW, SoleConsumer, SoleWriter
<1> QED
  BY <1>1, <1>2 DEF Next, Step

THEOREM Invariance == Spec => []IInv
  BY InitInv, NextInv, PTL DEF Spec

(* The queue and its state stay within their types, whoever calls what.    *)
THEOREM QioTypeOK == Spec => []TypeOK
<1>1. IInv => TypeOK
  BY DEF IInv
<1> QED
  BY <1>1, Invariance, PTL

(* A reader of qio.c:750-772 that nobody races for the blocks is asleep    *)
(* only while the next writer has to wake it, for any number of writers,   *)
(* interrupt handlers and processes that close, reopen or reconfigure the  *)
(* queue.                                                                  *)
THEOREM QioNoLostReader == Spec => []NoLostReader
<1>1. IInv => NoLostReader
  BY DEF IInv
<1> QED
  BY <1>1, Invariance, PTL

(* The one writer of a queue, asleep in qflow (qio.c:1067-1087), is woken  *)
(* by whoever takes the queue below its mark, for any number of readers,   *)
(* interrupt handlers and protocols that add to the queue.  After a qread  *)
(* of a coalescing queue that found only blocks of 0 bytes the queue is    *)
(* empty, and the wakeup is left to whoever takes what is added next.      *)
THEOREM QioNoLostWriter == Spec => []NoLostWriter
<1>1. IInv => NoLostWriter
  BY DEF IInv
<1> QED
  BY <1>1, Invariance, PTL
-----------------------------------------------------------------------------
(* The queue is used with qread, qwrite, qclose and qhangup only. *)
Plain == Callers(Calls \ {"qread", "qwrite", "qclose", "qhangup"}) = {}
Writers == Callers({"qwrite"})
Adders == {p \in Proc : pc[p] = "add"}

(* Each writer that has the test of qwrite behind it and its block still   *)
(* to add is one that has not yet added.                                   *)
Bounded == Plain /\ ~closed => len < 2 * InitLimit + Cardinality(Writers \ Adders) * Largest

BloatEffect(p) ==
  /\ closed => closed'
  /\ closed \/ closed' => len' <= len
  /\ \/ /\ pc'[p] = "add" /\ pc[p] # "add"
        /\ len' = len /\ closed' = closed /\ (len < 2 * InitLimit \/ closed)
     \/ /\ pc'[p] # "add" /\ pc[p] = "add"
        /\ \E n \in Sizes \cup {0} : len' <= len + n
     \/ /\ pc'[p] = "add" <=> pc[p] = "add"
        /\ len' <= len

(* Nobody adds to a queue that is closed, and only who was let in adds. *)
LEMMA StepBloat ==
  ASSUME IInv, NEW p \in Proc, Step(p), Plain
  PROVE  BloatEffect(p)
<1>0. /\ limit = InitLimit /\ ~noblock /\ limit \in Nat /\ len \in Nat
      /\ program[p] \subseteq {"qread", "qwrite", "qclose", "qhangup"}
  <2>1. program[p] \subseteq Calls
    BY QioAssumption DEF IInv, TypeOK
  <2> QED
    BY <2>1, Marks DEF Plain, Callers, IInv, Callings, Calls
<1>1. CASE Qwait(p)
  BY <1>1, <1>0 DEF Qwait, NothingToRead, ReadBlocks, Restart, Goto, IInv, TypeOK, BloatEffect
<1>2. CASE SleepR(p)
  BY <1>2, <1>0 DEF SleepR, Notempty, Goto, queue, IInv, TypeOK, BloatEffect
<1>3. CASE WakeWriter(p)
  BY <1>3, <1>0 DEF WakeWriter, Wakeup, Woken, queue, IInv, TypeOK, BloatEffect
<1>4. CASE Add(p)
  <2>1. CASE closed
    BY <1>0, <1>4, <2>1 DEF Add, Goto, BloatEffect, IInv, TypeOK
  <2>2. CASE ~closed
    <3>1. PICK n \in Sizes : Adding(n)
      BY <1>0, <1>4, <2>2 DEF Add
    <3>2. len' <= len + n
      BY <3>1, AddingOK DEF IInv
    <3>3. pc[p] = "add" /\ pc'[p] # "add" /\ ~closed'
      BY <1>0, <1>4, <2>2 DEF Add, Deliver, Goto, IInv, TypeOK
    <3> QED
      BY <2>2, <3>2, <3>3 DEF BloatEffect
  <2> QED
    BY <2>1, <2>2
<1>5. CASE WakeReader(p)
  BY <1>5, <1>0 DEF WakeReader, Wakeup, Woken, queue, IInv, TypeOK, BloatEffect
<1>6. CASE FlowTest(p)
  BY <1>6, <1>0 DEF FlowTest, Notfull, Goto, queue, IInv, TypeOK, BloatEffect
<1>7. CASE SetFlow(p)
  BY <1>7, <1>0 DEF SetFlow, Goto, IInv, TypeOK, BloatEffect
<1>8. CASE FlowLock(p)
  BY <1>8, <1>0 DEF FlowLock, Goto, queue, IInv, TypeOK, BloatEffect
<1>9. CASE SleepW(p)
  BY <1>9, <1>0 DEF SleepW, Notfull, Goto, queue, IInv, TypeOK, BloatEffect
<1>10. CASE FlowAgain(p)
  BY <1>10, <1>0 DEF FlowAgain, Goto, queue, IInv, TypeOK, BloatEffect
<1>11. CASE Notify(p)
  BY <1>11, <1>0 DEF Notify, Wakeup, Woken, queue, IInv, TypeOK, BloatEffect
<1>12. CASE Qread(p)
  BY <1>12, <1>0 DEF Qread, Call, Goto, queue, IInv, TypeOK, BloatEffect
<1>13. CASE Qwrite(p)
  BY <1>13, <1>0 DEF Qwrite, Call, Goto, queue, IInv, TypeOK, BloatEffect
<1>14. CASE Qbwrite(p)
  BY <1>14, <1>0 DEF Qbwrite, Call, Goto, queue, IInv, TypeOK, BloatEffect
<1>15. CASE Qget(p)
  BY <1>15, <1>0 DEF Qget, Call, Restart, Goto, IInv, TypeOK, BloatEffect
<1>16. CASE Qconsume(p)
  BY <1>16, <1>0 DEF Qconsume, Call, Restart, Goto, IInv, TypeOK, BloatEffect
<1>17. CASE Qdiscard(p)
  BY <1>17, <1>0 DEF Qdiscard, Call, Restart, Goto, IInv, TypeOK, BloatEffect
<1>18. CASE Qpass(p)
  BY <1>18, <1>0 DEF Qpass, Call, Pass, Adding, Deliver, Goto, IInv, TypeOK, BloatEffect
<1>19. CASE Qpassnolim(p)
  BY <1>19, <1>0 DEF Qpassnolim, Call, Pass, Adding, Deliver, Goto, IInv, TypeOK, BloatEffect
<1>20. CASE Qproduce(p)
  BY <1>20, <1>0 DEF Qproduce, Call, Adding, Deliver, Goto, IInv, TypeOK, BloatEffect
<1>21. CASE Qiwrite(p)
  BY <1>21, <1>0 DEF Qiwrite, Call, Adding, Deliver, Goto, IInv, TypeOK, BloatEffect
<1>22. CASE Qclose(p)
  BY <1>22, <1>0 DEF Qclose, Call, Goto, IInv, TypeOK, BloatEffect
<1>23. CASE Qhangup(p)
  BY <1>23, <1>0 DEF Qhangup, Call, Goto, IInv, TypeOK, BloatEffect
<1>24. CASE Qreopen(p)
  BY <1>24, <1>0 DEF Qreopen, Call, IInv, TypeOK, BloatEffect
<1>25. CASE Qsetlimit(p)
  BY <1>25, <1>0 DEF Qsetlimit, Call, IInv, TypeOK, BloatEffect
<1>26. CASE Qnoblock(p)
  BY <1>26, <1>0 DEF Qnoblock, Call, IInv, TypeOK, BloatEffect
<1>27. CASE Qflush(p)
  BY <1>27, <1>0 DEF Qflush, Call, Goto, IInv, TypeOK, BloatEffect
<1>28. CASE Interrupt(p)
  BY <1>28, <1>0 DEF Interrupt, Goto, queue, IInv, TypeOK, BloatEffect
<1> QED
  BY <1>1, <1>2, <1>3, <1>4, <1>5, <1>6, <1>7, <1>8, <1>9, <1>10, <1>11, <1>12, <1>13, <1>14,
     <1>15, <1>16, <1>17, <1>18, <1>19, <1>20, <1>21, <1>22, <1>23, <1>24, <1>25, <1>26, <1>27, <1>28
  DEF Step, Proceed, Start

LEMMA LargestOK == Largest \in Nat /\ \A n \in Sizes \cup {0} : n <= Largest
<1>1. Largest \in Sizes /\ \A n \in Sizes : n <= Largest
  BY QioAssumption DEF Largest
<1> QED
  BY <1>1, QioAssumption

LEMMA NextBounded ==
  ASSUME IsFiniteSet(Proc), IInv, Bounded, NoBloat, [Next]_vars
  PROVE  Bounded' /\ NoBloat'
<1>1. CASE UNCHANGED vars
  BY <1>1 DEF vars, fixed, queue, Bounded, NoBloat, Plain, Callers, Writers, Adders
<1>2. ASSUME NEW p \in Proc, Step(p) PROVE Bounded' /\ NoBloat'
  <2>1. Moves(p) /\ program' = program /\ TypeOK'
    BY <1>2, StepMoves, StepTypeOK
  <2>2. (Plain' <=> Plain) /\ Writers' = Writers
    BY <2>1 DEF Plain, Writers, Callers
  <2> SUFFICES ASSUME Plain
               PROVE  /\ ~closed' => len' < 2 * InitLimit + Cardinality(Writers \ Adders') * Largest
                      /\ len' < 2 * InitLimit + Cardinality(Writers) * Largest
    BY <2>2 DEF Bounded, NoBloat, Plain, Writers
  <2>3. BloatEffect(p)
    BY <1>2, StepBloat
  <2> DEFINE L == 2 * InitLimit
             c == Cardinality(Writers \ Adders)
             d == Cardinality(Writers \ Adders')
             w == Cardinality(Writers)
             g == Largest
  <2>4. /\ IsFiniteSet(Writers) /\ IsFiniteSet(Writers \ Adders) /\ IsFiniteSet(Writers \ Adders')
        /\ c \in Nat /\ d \in Nat /\ w \in Nat /\ d <= w
    <3>1. IsFiniteSet(Writers)
      BY FS_Subset DEF Writers, Callers
    <3>2. IsFiniteSet(Writers \ Adders) /\ IsFiniteSet(Writers \ Adders') /\ d <= w
      BY <3>1, FS_Subset
    <3> QED
      BY <3>1, <3>2, FS_CardinalityType
  <2>5. /\ L \in Nat /\ g \in Nat /\ len \in Nat /\ len' \in Nat
        /\ len < L + w * g
        /\ ~closed => len < L + c * g
    <3>1. L \in Nat /\ g \in Nat /\ len \in Nat /\ len' \in Nat
      <4>1. L \in Nat /\ g \in Nat
        BY LargestOK, QioAssumption
      <4>2. len \in 0..MaxLen /\ len' \in 0..MaxLen
        BY <2>1 DEF IInv, TypeOK
      <4> QED
        BY <4>1, <4>2, QioAssumption
    <3>2. len < L + w * g
      BY DEF NoBloat, Plain, Writers
    <3>3. ~closed => len < L + c * g
      BY DEF Bounded
    <3> QED
      BY <3>1, <3>2, <3>3
  <2>6. Adders' \ {p} = Adders \ {p}
    BY <2>1 DEF Moves, Adders
  <2>7. ~closed' => len' < L + d * g
    <3> SUFFICES ASSUME ~closed' PROVE len' < L + d * g
      OBVIOUS
    <3>1. ~closed
      BY <2>3 DEF BloatEffect
    <3>2. CASE /\ pc'[p] = "add" /\ pc[p] # "add"
               /\ len' = len /\ closed' = closed /\ (len < 2 * InitLimit \/ closed)
      <4>1. d * g \in Nat
        BY <2>4, <2>5
      <4> QED
        BY <2>5, <3>1, <3>2, <4>1
    <3>3. CASE pc'[p] # "add" /\ pc[p] = "add" /\ \E n \in Sizes \cup {0} : len' <= len + n
      <4>1. len' <= len + g
        BY <2>5, <3>3, LargestOK, QioAssumption
      <4>2. p \in Writers
        BY <3>3 DEF IInv, Callings, Writing, Writers, Callers, Plain, Calls
      <4>3. Writers \ Adders' = (Writers \ Adders) \cup {p} /\ p \notin Writers \ Adders
        BY <2>6, <3>3, <4>2 DEF Adders
      <4>4. d = c + 1
        BY <2>4, <4>3, FS_AddElement
      <4>5. d * g = c * g + g /\ c * g \in Nat
        BY <2>4, <2>5, <4>4
      <4> HIDE DEF L, c, d, g
      <4> QED
        BY <2>5, <3>1, <4>1, <4>5
    <3>4. CASE (pc'[p] = "add" <=> pc[p] = "add") /\ len' <= len
      <4>1. Adders' = Adders
        BY <2>6, <3>4 DEF Adders
      <4>2. c * g \in Nat
        BY <2>4, <2>5
      <4> QED
        BY <2>5, <3>1, <3>4, <4>1, <4>2
    <3> QED
      BY <2>3, <3>2, <3>3, <3>4 DEF BloatEffect
  <2>8. len' < L + w * g
    <3>1. CASE closed'
      <4>1. len' <= len /\ w * g \in Nat
        BY <2>3, <2>4, <2>5, <3>1 DEF BloatEffect
      <4> QED
        BY <2>5, <4>1
    <3>2. CASE ~closed'
      <4>1. d * g <= w * g /\ d * g \in Nat /\ w * g \in Nat
        <5> HIDE DEF d, w, g
        <5>1. w - d \in Nat /\ w = d + (w - d)
          BY <2>4
        <5>2. w * g = d * g + (w - d) * g /\ (w - d) * g \in Nat /\ d * g \in Nat
          BY <2>4, <2>5, <5>1
        <5> QED
          BY <5>2
      <4> QED
        BY <2>5, <2>7, <3>2, <4>1
    <3> QED
      BY <3>1, <3>2
  <2> QED
    BY <2>7, <2>8
<1> QED
  BY <1>1, <1>2 DEF Next, Step

(* qwrite's early wait (qio.c:1173) bounds a queue that is only read and   *)
(* written by twice the limit and a block for each writer, for any number  *)
(* of writers that notes interrupt at any time.                            *)
THEOREM QioNoBloat ==
  ASSUME IsFiniteSet(Proc)
  PROVE  Spec => []NoBloat
<1>1. Init => Bounded /\ NoBloat
  <2> SUFFICES ASSUME Init PROVE Bounded /\ NoBloat
    OBVIOUS
  <2>1. len = 0 /\ InitLimit \in Nat /\ InitLimit > 0 /\ Largest \in Nat
    BY LargestOK, QioAssumption DEF Init
  <2>2. IsFiniteSet(Writers) /\ IsFiniteSet(Writers \ Adders)
    BY FS_Subset DEF Writers, Callers
  <2>3. Cardinality(Writers) \in Nat /\ Cardinality(Writers \ Adders) \in Nat
    BY <2>2, FS_CardinalityType
  <2>4. Cardinality(Writers) * Largest \in Nat /\ Cardinality(Writers \ Adders) * Largest \in Nat
    BY <2>1, <2>3
  <2> QED
    BY <2>1, <2>4 DEF Bounded, NoBloat, Writers
<1>2. IInv /\ (Bounded /\ NoBloat) /\ [Next]_vars => (Bounded /\ NoBloat)'
  BY NextBounded
<1> QED
  BY <1>1, <1>2, Invariance, PTL DEF Spec
=============================================================================
