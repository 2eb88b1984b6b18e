-------------------------- MODULE UserLocksProofs ---------------------------
(***************************************************************************)
(* The C library's RWLock, and below it the Lock it is built on, for any   *)
(* number of processes and any pool of entries.  Of the RWLock: in every   *)
(* program q->_readers is no less than the readers, and until a rendezvous *)
(* is torn (interrupted on one side) it counts them and no assertion on an *)
(* entry fails; programs in which only writers queue, without a limit of   *)
(* time, exclude readers and writers, forget nobody, implement RWMutex,    *)
(* and as long as the pool has more entries than there are processes do    *)
(* not abort, but for who is met too early after a torn rendezvous.  Of    *)
(* the Lock: nobody is forgotten, and without canlock it implements Mutex. *)
(***************************************************************************)
EXTENDS UserRWLock, FiniteSetTheorems, TLAPS

Entry == QLp \cup {None}

Typed == /\ readers \in Nat /\ writer \in BOOLEAN /\ program \in [Proc -> SUBSET Functions]
         /\ head \in Entry /\ tail \in Entry
         /\ next \in [QLp -> Entry] /\ state \in [QLp -> States]
         /\ pc \in [Proc -> PCs]
         /\ mine \in [Proc -> Entry] /\ peer \in [Proc -> Entry] /\ at \in [Proc -> Entry]
         /\ torn \in BOOLEAN

(* A process that waits, or failed after it did, has an entry of its own,  *)
(* which is queued or Done, and every such entry is that of such a         *)
(* process.  Who is back from its rendezvous was let in, unless some       *)
(* rendezvous was torn.                                                    *)
Owning == Waiting \cup {"gotr", "gotw", "failed"}
Waits ==
  /\ \A p \in Proc : mine[p] # None <=> pc[p] \in Owning
  /\ \A p, q \in Proc : mine[p] = mine[q] /\ mine[p] # None => p = q
  /\ \A p \in Proc : pc[p] \in {"waitr", "waitrt", "gotr"} => state[mine[p]] \in {"QueuingR", "Done"}
  /\ \A p \in Proc : pc[p] \in {"waitw", "waitwt", "gotw"} => state[mine[p]] \in {"QueuingW", "Done"}
  /\ \A p \in Proc : pc[p] = "failed" => state[mine[p]] \in {"QueuingR", "QueuingW", "Done"}
  /\ \A p \in Proc : ~torn /\ pc[p] \in {"gotr", "gotw"} => state[mine[p]] = "Done"
  /\ \A e \in QLp : state[e] \in {"QueuingR", "QueuingW", "Done"} => \E p \in Proc : mine[p] = e

(* Until a rendezvous is torn, the process an unlock is to meet has been   *)
(* let in and is still waiting, and is met by nobody else.                 *)
Wakes == ~torn =>
  /\ \A p \in Proc : pc[p] \in {"wake", "waker"} =>
       \E w \in Proc : pc[w] \in Waiting /\ mine[w] = peer[p] /\ state[peer[p]] = "Done"
  /\ \A p, q \in Proc :
       pc[p] \in {"wake", "waker"} /\ pc[q] \in {"wake", "waker"} /\ peer[p] = peer[q] => p = q

(* Nor does a call find its entry in a state its assertion excludes. *)
NoneFailed == ~torn => \A p \in Proc : pc[p] # "failed"

(* The invariant of every program.  ReadersCounted is not inductive: that  *)
(* wunlock lets in one reader for each entry it counts needs that entries  *)
(* that are queued have owners that wait, and no entry has two.            *)
IInv == Typed /\ Waits /\ Wakes /\ NoneFailed /\ ReadersCounted

(* Places that say nothing of entries and readers. *)
Neutral == {"out", "wcs", "walk", "walkw", "walkr", "more", "full", "corrupt"}

(* Readers is finite, so q->_readers is its size. *)
LEMMA ReadersFinite ==
  ASSUME IsFiniteSet(Proc)
  PROVE  IsFiniteSet(Readers) /\ Cardinality(Readers) \in Nat
                              /\ Cardinality(Readers) <= Cardinality(Proc)
BY FS_Subset, FS_CardinalityType, Readers \subseteq Proc DEF Readers

(* The lock as it is initialised satisfies the invariant. *)
LEMMA InitInv == Init => IInv
<1> SUFFICES ASSUME Init PROVE IInv
  OBVIOUS
<1>1. Typed
  BY UserRWLockAssumption DEF Init, Typed, Entry, States, PCs
<1>2. Readers = {}
  BY DEF Init, Readers, LetIn, Waiting
<1>3. ReadersCounted
  BY <1>2, FS_EmptySet DEF Init, ReadersCounted
<1>4. Waits /\ Wakes /\ NoneFailed
  BY DEF Init, Waits, Owning, Wakes, NoneFailed, Waiting
<1> QED
  BY <1>1, <1>3, <1>4 DEF IInv

(* A step of processes that neither wait, read nor wake anybody, in which  *)
(* at most timed out entries change, leaves waiting and waking alone.      *)
LEMMA QuietStep ==
  ASSUME IInv, Typed', mine' = mine, peer' = peer, readers' = readers, torn' = torn,
         \A e \in QLp : state'[e] = state[e] \/ (state[e] = "Timedout" /\ state'[e] = "Free"),
         \A q \in Proc : pc'[q] = pc[q] \/ (pc[q] \in Neutral /\ pc'[q] \in Neutral)
  PROVE  IInv'
<1>1. \A q \in Proc : mine[q] # None => /\ mine[q] \in QLp
                                        /\ state[mine[q]] # "Timedout"
                                        /\ state'[mine[q]] = state[mine[q]]
  BY DEF IInv, Typed, Waits, Owning, Waiting, Entry
<1>2. \A q \in Proc : pc[q] \in Neutral => mine[q] = None
  BY DEF IInv, Waits, Owning, Waiting, Neutral
<1>3. Waits'
  <2>1. (\A p \in Proc : mine[p] # None <=> pc[p] \in Owning)'
    BY <1>2 DEF IInv, Waits, Owning, Waiting, Neutral
  <2>2. (\A p, q \in Proc : mine[p] = mine[q] /\ mine[p] # None => p = q)'
    BY DEF IInv, Waits, Owning
  <2>3. \A p \in Proc : pc'[p] \in Owning => pc[p] = pc'[p] /\ mine[p] # None
    BY DEF IInv, Waits, Owning, Waiting, Neutral
  <2>4. (\A e \in QLp : state[e] \in {"QueuingR", "QueuingW", "Done"} => \E p \in Proc : mine[p] = e)'
    BY DEF IInv, Waits, Owning
  <2> QED
    BY <1>1, <2>1, <2>2, <2>3, <2>4 DEF IInv, Waits, Owning, Waiting
<1>4. Wakes'
  <2> SUFFICES ASSUME ~torn PROVE Wakes'
    BY DEF Wakes
  <2>1. \A p \in Proc : pc'[p] \in {"wake", "waker"} => pc[p] = pc'[p]
    BY DEF Neutral
  <2>2. \A w \in Proc : pc[w] \in Waiting => pc'[w] = pc[w]
    BY DEF Neutral, Waiting
  <2>3. \A w \in Proc : pc[w] \in Waiting => mine[w] # None
    BY DEF IInv, Waits, Owning
  <2>4. ASSUME NEW p \in Proc, pc'[p] \in {"wake", "waker"}
        PROVE  \E w \in Proc : pc'[w] \in Waiting /\ mine[w] = peer[p] /\ state'[peer[p]] = "Done"
    <3>1. PICK w \in Proc : pc[w] \in Waiting /\ mine[w] = peer[p] /\ state[peer[p]] = "Done"
      BY <2>1, <2>4 DEF IInv, Wakes
    <3> QED
      BY <1>1, <2>2, <2>3, <3>1
  <2>5. (\A p, q \in Proc :
       pc[p] \in {"wake", "waker"} /\ pc[q] \in {"wake", "waker"} /\ peer[p] = peer[q] => p = q)'
    BY <2>1 DEF IInv, Wakes
  <2> QED
    BY <2>4, <2>5 DEF Wakes
<1>5. NoneFailed'
  BY DEF IInv, NoneFailed, Neutral
<1>6. Readers' = Readers
  <2>1. \A p \in Proc : LetIn(p)' <=> LetIn(p)
    BY <1>1, <1>3 DEF IInv, Waits, Owning, LetIn, Neutral, Waiting
  <2> QED
    BY <2>1 DEF Readers, LetIn, Neutral, Waiting
<1> QED
  BY <1>3, <1>4, <1>5, <1>6 DEF IInv, ReadersCounted

(* Entering the lock as a reader: one reader more, counted. *)
LEMMA TakeRInv ==
  ASSUME IsFiniteSet(Proc), IInv, NEW p \in Proc, pc[p] = "out", TakeR(p), torn' = torn
  PROVE  IInv'
<1>1. Typed'
  BY DEF IInv, Typed, TakeR, Goto, list, locals, PCs
<1>2. /\ pc' = [pc EXCEPT ![p] = "rcs"] /\ pc \in [Proc -> PCs]
      /\ mine' = mine /\ peer' = peer /\ state' = state
  BY DEF IInv, Typed, TakeR, Goto, list, locals
<1>3. Waits'
  BY <1>2 DEF IInv, Waits, Owning, Waiting
<1>4. Wakes'
  BY <1>2 DEF IInv, Wakes, Waiting
<1>5. NoneFailed'
  BY <1>2 DEF IInv, NoneFailed
<1>6. Readers' = Readers \cup {p} /\ p \notin Readers
  BY <1>2 DEF Readers, LetIn, Waiting
<1>7. Cardinality(Readers') = Cardinality(Readers) + 1
  BY <1>6, ReadersFinite, FS_AddElement
<1>8. readers' = readers + 1
  BY DEF TakeR
<1>9. ReadersCounted'
  BY <1>7, <1>8, ReadersFinite DEF IInv, Typed, ReadersCounted
<1> QED
  BY <1>1, <1>3, <1>4, <1>5, <1>9 DEF IInv

(* Leaving it: the assertion that somebody reads holds. *)
LEMMA RunlockInv ==
  ASSUME IsFiniteSet(Proc), IInv, NEW p \in Proc, Runlock(p), torn' = torn
  PROVE  readers > 0 /\ readers' = readers - 1 /\ pc'[p] \in {"out", "walk"} /\ IInv'
<1>1. p \in Readers /\ pc[p] = "rcs"
  BY DEF Runlock, Entering, Readers
<1>2. readers > 0
  BY <1>1, ReadersFinite, FS_EmptySet DEF IInv, Typed, ReadersCounted
<1>3. PICK to \in {"out", "walk"} : pc' = [pc EXCEPT ![p] = to]
  BY <1>2 DEF Runlock, Goto, IInv, Typed
<1>4. readers' = readers - 1 /\ at' \in [Proc -> Entry]
  BY <1>2 DEF Runlock, IInv, Typed
<1>5. /\ program' = program /\ writer' = writer /\ head' = head /\ tail' = tail /\ next' = next
      /\ state' = state /\ mine' = mine /\ peer' = peer
  BY DEF Runlock, list
<1>7. pc \in [Proc -> PCs] /\ readers \in Nat
  BY DEF IInv, Typed
<1>6. Typed'
  <2>1. readers' \in Nat
    BY <1>2, <1>4, <1>7
  <2>2. to \in PCs
    BY DEF PCs, Walking
  <2>3. pc' \in [Proc -> PCs]
    BY <1>3, <1>7, <2>2
  <2> QED
    BY <1>4, <1>5, <2>1, <2>3 DEF IInv, Typed
<1>8. Waits'
  BY <1>1, <1>3, <1>5, <1>7 DEF IInv, Waits, Owning, Waiting
<1>9. Wakes'
  BY <1>1, <1>3, <1>5, <1>7 DEF IInv, Wakes, Waiting
<1>10. NoneFailed'
  BY <1>1, <1>3, <1>5, <1>7 DEF IInv, NoneFailed
<1>11. Readers' = Readers \ {p}
  BY <1>1, <1>3, <1>5, <1>7 DEF Readers, LetIn, Waiting
<1>12. Cardinality(Readers') = Cardinality(Readers) - 1
  BY <1>1, <1>11, ReadersFinite, FS_RemoveElement
<1>13. ReadersCounted'
  BY <1>2, <1>4, <1>7, <1>12, ReadersFinite DEF IInv, ReadersCounted
<1> QED
  BY <1>2, <1>3, <1>4, <1>6, <1>7, <1>8, <1>9, <1>10, <1>13 DEF IInv

(* Queueing an entry that was free. *)
LEMMA EnqueueInv ==
  ASSUME IInv, NEW p \in Proc, pc[p] = "out",
         NEW s \in {"QueuingR", "QueuingW"}, NEW to \in Waiting,
         s = "QueuingR" <=> to \in {"waitr", "waitrt"},
         Enqueue(p, s, to), torn' = torn
  PROVE  IInv'
<1>1. CASE /\ Cardinality(FreeEntries) <= 1
           /\ Goto(p, "full")
           /\ UNCHANGED <<program, readers, writer, list, state, locals>>
  <2>1. Typed'
    BY <1>1 DEF IInv, Typed, Goto, list, locals, PCs, Aborted
  <2>2. /\ mine' = mine /\ peer' = peer /\ readers' = readers /\ state' = state
        /\ pc' = [pc EXCEPT ![p] = "full"] /\ pc \in [Proc -> PCs]
    BY <1>1 DEF IInv, Typed, Goto, list, locals
  <2> QED
    BY <2>1, <2>2, QuietStep DEF Neutral
<1>2. ASSUME NEW e \in FreeEntries,
             /\ SetState(e, s)
             /\ mine' = [mine EXCEPT ![p] = e]
             /\ head' = IF tail = None THEN e ELSE head
             /\ next' = [x \in QLp |-> IF x = e THEN None ELSE IF x = tail THEN e ELSE next[x]]
             /\ tail' = e
             /\ Goto(p, to)
             /\ UNCHANGED <<program, readers, writer, peer, at>>
      PROVE  IInv'
  <2>1. /\ e \in QLp /\ state[e] = "Free" /\ e # None
        /\ state' = [state EXCEPT ![e] = s] /\ mine' = [mine EXCEPT ![p] = e]
        /\ pc' = [pc EXCEPT ![p] = to] /\ peer' = peer /\ readers' = readers
    BY <1>2, UserRWLockAssumption DEF FreeEntries, SetState, Goto
  <2>2. /\ pc \in [Proc -> PCs] /\ mine \in [Proc -> Entry] /\ state \in [QLp -> States]
        /\ next \in [QLp -> Entry]
    BY DEF IInv, Typed
  <2>3. to \in PCs /\ s \in States
    BY DEF PCs, States, Waiting
  <2>4. next' \in [QLp -> Entry] /\ head' \in Entry /\ tail' \in Entry
    BY <1>2, <2>1 DEF IInv, Typed, Entry
  <2>5. pc' \in [Proc -> PCs] /\ mine' \in [Proc -> Entry] /\ state' \in [QLp -> States]
    BY <2>1, <2>2, <2>3 DEF Entry
  <2>6. Typed'
    BY <1>2, <2>4, <2>5 DEF IInv, Typed
  <2>7. \A q \in Proc : mine[q] # e
    BY <2>1, UserRWLockAssumption DEF IInv, Waits, Owning, Waiting
  <2>8. \A q \in Proc : mine[q] # None => mine[q] \in QLp
    BY <2>2 DEF Entry
  <2>9. mine[p] = None
    BY DEF IInv, Waits, Owning, Waiting
  <2>10. Waits'
    <3>1. (\A q \in Proc : mine[q] # None <=> pc[q] \in Owning)'
      BY <2>1, <2>2 DEF IInv, Waits, Owning
    <3>2. (\A q, r \in Proc : mine[q] = mine[r] /\ mine[q] # None => q = r)'
      BY <2>1, <2>2, <2>7 DEF IInv, Waits, Owning
    <3>3. \A q \in Proc : q # p => pc'[q] = pc[q] /\ mine'[q] = mine[q]
                                   /\ (mine[q] # None => state'[mine[q]] = state[mine[q]])
      BY <2>1, <2>2, <2>7, <2>8
    <3>4. pc'[p] = to /\ mine'[p] = e /\ state'[e] = s
      BY <2>1, <2>2
    <3>5. \A q \in Proc : pc[q] \in Owning => mine[q] # None
      BY DEF IInv, Waits, Owning
    <3>6. (\A q \in Proc : pc[q] \in {"waitr", "waitrt", "gotr"} => state[mine[q]] \in {"QueuingR", "Done"})'
      BY <3>3, <3>4, <3>5 DEF IInv, Waits, Owning, Waiting
    <3>7. (\A q \in Proc : pc[q] \in {"waitw", "waitwt", "gotw"} => state[mine[q]] \in {"QueuingW", "Done"})'
      BY <3>3, <3>4, <3>5 DEF IInv, Waits, Owning, Waiting
    <3>8. (\A q \in Proc : pc[q] = "failed" => state[mine[q]] \in {"QueuingR", "QueuingW", "Done"})'
      BY <3>3, <3>4, <3>5 DEF IInv, Waits, Owning, Waiting
    <3>8a. (\A q \in Proc : ~torn /\ pc[q] \in {"gotr", "gotw"} => state[mine[q]] = "Done")'
      BY <3>3, <3>4, <3>5 DEF IInv, Waits, Owning, Waiting
    <3>9. (\A x \in QLp : state[x] \in {"QueuingR", "QueuingW", "Done"} => \E q \in Proc : mine[q] = x)'
      <4> SUFFICES ASSUME NEW x \in QLp, state'[x] \in {"QueuingR", "QueuingW", "Done"}
                   PROVE  \E q \in Proc : mine'[q] = x
        OBVIOUS
      <4>1. CASE x = e
        BY <3>4, <4>1
      <4>2. CASE x # e
        <5>1. state[x] \in {"QueuingR", "QueuingW", "Done"}
          BY <2>1, <2>2, <4>2
        <5>2. PICK q \in Proc : mine[q] = x
          BY <5>1 DEF IInv, Waits, Owning
        <5>3. q # p
          BY <2>9, <5>2, UserRWLockAssumption
        <5> QED
          BY <3>3, <5>2, <5>3
      <4> QED
        BY <4>1, <4>2
    <3> QED
      BY <3>1, <3>2, <3>6, <3>7, <3>8, <3>8a, <3>9, Zenon DEF Waits
  <2>11. Wakes'
    <3> SUFFICES ASSUME ~torn PROVE Wakes'
      BY DEF Wakes
    <3>1. \A q \in Proc : pc'[q] \in {"wake", "waker"} => pc[q] = pc'[q]
      BY <2>1, <2>2 DEF Waiting
    <3>2. ASSUME NEW q \in Proc, pc'[q] \in {"wake", "waker"}
          PROVE  \E w \in Proc : pc'[w] \in Waiting /\ mine'[w] = peer'[q] /\ state'[peer'[q]] = "Done"
      <4>1. PICK w \in Proc : pc[w] \in Waiting /\ mine[w] = peer[q] /\ state[peer[q]] = "Done"
        BY <3>1, <3>2 DEF IInv, Wakes
      <4>2. w # p /\ mine[w] # e
        BY <2>7, <4>1 DEF Waiting
      <4>3. mine[w] \in QLp
        BY <2>8, <4>1 DEF IInv, Waits, Owning
      <4> QED
        BY <2>1, <2>2, <4>1, <4>2, <4>3
    <3> QED
      BY <2>1, <3>1, <3>2 DEF IInv, Wakes
  <2>12. NoneFailed'
    BY <2>1, <2>2 DEF IInv, NoneFailed, Waiting
  <2>13. Readers' = Readers
    <3>1. \A q \in Proc : q # p => (LetIn(q)' <=> LetIn(q))
      BY <2>1, <2>2, <2>7, <2>8 DEF LetIn, IInv, Waits, Owning
    <3>2. ~LetIn(p)' /\ ~LetIn(p)
      BY <2>1, <2>2 DEF LetIn, Waiting
    <3>3. pc'[p] # "rcs" /\ \A q \in Proc : q # p => pc'[q] = pc[q]
      BY <2>1, <2>2 DEF Waiting
    <3> QED
      BY <3>1, <3>2, <3>3 DEF Readers
  <2> QED
    BY <2>1, <2>6, <2>10, <2>11, <2>12, <2>13 DEF IInv, ReadersCounted
<1> QED
  BY <1>1, <1>2 DEF Enqueue

(* Letting in the owner of a queued entry: it waits, and is met by p only, *)
(* unless it failed or came back early after some rendezvous was torn.     *)
LEMMA LetInStep ==
  ASSUME IInv, Typed', NEW p \in Proc, pc[p] \in Neutral, NEW e \in QLp,
         state[e] \in {"QueuingR", "QueuingW"}, NEW to \in {"wake", "waker"},
         state' = [state EXCEPT ![e] = "Done"], peer' = [peer EXCEPT ![p] = e],
         mine' = mine, pc' = [pc EXCEPT ![p] = to], torn' = torn
  PROVE  /\ Waits' /\ Wakes' /\ NoneFailed'
         /\ \E w \in Proc :
              /\ mine[w] = e /\ w # p /\ w \notin Readers
              /\ ~torn => pc[w] \in Waiting
              /\ Readers' = IF state[e] = "QueuingR" /\ pc[w] # "failed"
                            THEN Readers \cup {w} ELSE Readers
<1>1. /\ pc \in [Proc -> PCs] /\ mine \in [Proc -> Entry] /\ state \in [QLp -> States]
      /\ peer \in [Proc -> Entry]
  BY DEF IInv, Typed
<1>2. PICK w \in Proc : mine[w] = e
  BY DEF IInv, Waits, Owning
<1>3. e # None
  BY UserRWLockAssumption
<1>4. /\ pc[w] \in Owning /\ (~torn => pc[w] \in Waiting)
      /\ state[e] = "QueuingR" => pc[w] \in {"waitr", "waitrt", "gotr", "failed"}
      /\ state[e] = "QueuingW" => pc[w] \in {"waitw", "waitwt", "gotw", "failed"}
  BY <1>2, <1>3 DEF IInv, Waits, Owning, Waiting, NoneFailed
<1>5. w # p /\ pc'[w] = pc[w]
  BY <1>1, <1>4 DEF Neutral, Waiting, Owning
<1>6. \A q \in Proc : q # p => pc'[q] = pc[q]
  BY <1>1
<1>7. pc'[p] = to
  BY <1>1
<1>8. mine[p] = None
  BY DEF IInv, Waits, Owning, Waiting, Neutral
<1>9. \A q \in Proc : mine[q] # None /\ q # w => /\ mine[q] \in QLp /\ mine[q] # e
                                                 /\ state'[mine[q]] = state[mine[q]]
  BY <1>1, <1>2, <1>3 DEF IInv, Waits, Owning, Entry
<1>10. state'[e] = "Done"
  BY <1>1
<1>11. \A q \in Proc : pc'[q] \in Owning => pc'[q] = pc[q] /\ mine[q] # None
  BY <1>6, <1>7 DEF IInv, Waits, Owning, Waiting
<1>12. Waits'
  <2>1. (\A q \in Proc : mine[q] # None <=> pc[q] \in Owning)'
    BY <1>6, <1>7, <1>8 DEF IInv, Waits, Owning, Waiting
  <2>2. (\A q, r \in Proc : mine[q] = mine[r] /\ mine[q] # None => q = r)'
    BY DEF IInv, Waits, Owning
  <2>3. (\A q \in Proc : pc[q] \in {"waitr", "waitrt", "gotr"} => state[mine[q]] \in {"QueuingR", "Done"})'
    BY <1>2, <1>9, <1>10, <1>11 DEF IInv, Waits, Owning, Waiting
  <2>4. (\A q \in Proc : pc[q] \in {"waitw", "waitwt", "gotw"} => state[mine[q]] \in {"QueuingW", "Done"})'
    BY <1>2, <1>9, <1>10, <1>11 DEF IInv, Waits, Owning, Waiting
  <2>5. (\A q \in Proc : pc[q] = "failed" => state[mine[q]] \in {"QueuingR", "QueuingW", "Done"})'
    BY <1>2, <1>9, <1>10, <1>11 DEF IInv, Waits, Owning, Waiting
  <2>5a. (\A q \in Proc : ~torn /\ pc[q] \in {"gotr", "gotw"} => state[mine[q]] = "Done")'
    BY <1>2, <1>9, <1>10, <1>11 DEF IInv, Waits, Owning, Waiting
  <2>6. (\A x \in QLp : state[x] \in {"QueuingR", "QueuingW", "Done"} => \E q \in Proc : mine[q] = x)'
    BY <1>1, <1>2 DEF IInv, Waits, Owning
  <2> QED
    BY <2>1, <2>2, <2>3, <2>4, <2>5, <2>5a, <2>6, Zenon DEF Waits
<1>13. ~torn => \A q \in Proc : pc'[q] \in {"wake", "waker"} /\ q # p =>
         /\ pc[q] \in {"wake", "waker"} /\ peer'[q] = peer[q] /\ peer[q] # e
  BY <1>1, <1>6 DEF IInv, Wakes
<1>14. Wakes'
  <2> SUFFICES ASSUME ~torn PROVE Wakes'
    BY DEF Wakes
  <2>1. ASSUME NEW q \in Proc, pc'[q] \in {"wake", "waker"}
        PROVE  \E v \in Proc : pc'[v] \in Waiting /\ mine[v] = peer'[q] /\ state'[peer'[q]] = "Done"
    <3>1. CASE q = p
      BY <1>1, <1>2, <1>4, <1>5, <1>10, <3>1
    <3>2. CASE q # p
      <4>1. PICK v \in Proc : pc[v] \in Waiting /\ mine[v] = peer[q] /\ state[peer[q]] = "Done"
        BY <1>13, <2>1, <3>2 DEF IInv, Wakes
      <4>2. v # p /\ v # w /\ mine[v] # None
        BY <1>2, <1>13, <2>1, <3>2, <4>1 DEF IInv, Waits, Owning, Waiting, Neutral
      <4> QED
        BY <1>6, <1>9, <1>13, <2>1, <3>2, <4>1, <4>2
    <3> QED
      BY <3>1, <3>2
  <2>2. (\A q, r \in Proc :
          pc[q] \in {"wake", "waker"} /\ pc[r] \in {"wake", "waker"} /\ peer[q] = peer[r] => q = r)'
    <3>1. peer'[p] = e
      BY <1>1
    <3> QED
      BY <1>13, <3>1 DEF IInv, Wakes
  <2> QED
    BY <2>1, <2>2 DEF Wakes
<1>15. NoneFailed'
  BY <1>6, <1>7 DEF IInv, NoneFailed
<1>16. \A q \in Proc : q # p /\ q # w => (LetIn(q)' <=> LetIn(q))
  BY <1>6, <1>9 DEF LetIn, IInv, Waits, Owning
<1>17. (LetIn(w)' <=> pc[w] # "failed") /\ ~LetIn(w) /\ ~LetIn(p)' /\ ~LetIn(p)
  BY <1>2, <1>4, <1>5, <1>7, <1>10 DEF LetIn, Waiting, Neutral, Owning
<1>18. pc[p] # "rcs" /\ pc'[p] # "rcs" /\ pc[w] # "rcs"
  BY <1>4, <1>7 DEF Neutral, Waiting, Owning
<1>19. w \notin Readers
  BY <1>17, <1>18 DEF Readers
<1>20. Readers' = IF state[e] = "QueuingR" /\ pc[w] # "failed" THEN Readers \cup {w} ELSE Readers
  <2>1. CASE state[e] = "QueuingR"
    BY <1>4, <1>5, <1>6, <1>16, <1>17, <1>18, <2>1 DEF Readers, LetIn
  <2>2. CASE state[e] = "QueuingW"
    BY <1>4, <1>5, <1>6, <1>16, <1>17, <1>18, <2>2 DEF Readers
  <2> QED
    BY <2>1, <2>2
<1> QED
  BY <1>2, <1>4, <1>5, <1>12, <1>14, <1>15, <1>19, <1>20

(* Starting a writer from the queue. *)
LEMMA StartWriterInv ==
  ASSUME IInv, NEW p \in Proc, pc[p] \in Neutral, NEW e \in QLp, StartWriter(p, e),
         writer' \in BOOLEAN, torn' = torn
  PROVE  IInv'
<1>1. /\ state' = [state EXCEPT ![e] = "Done"] /\ peer' = [peer EXCEPT ![p] = e]
      /\ mine' = mine /\ pc' = [pc EXCEPT ![p] = "wake"] /\ readers' = readers
      /\ at' = [at EXCEPT ![p] = None] /\ next' = next /\ program' = program
      /\ head' = next[e] /\ tail' = (IF next[e] = None THEN None ELSE tail)
  BY DEF StartWriter, SetState, Goto
<1>2. /\ "Done" \in States /\ "wake" \in PCs /\ None \in Entry /\ e \in Entry
  BY DEF States, PCs, Entry
<1>3. Typed'
  BY <1>1, <1>2 DEF IInv, Typed
<1>4. state[e] = "QueuingW"
  BY DEF StartWriter
<1>5. Waits' /\ Wakes' /\ NoneFailed' /\ Readers' = Readers
  BY <1>1, <1>3, <1>4, LetInStep
<1> QED
  BY <1>1, <1>3, <1>5 DEF IInv, ReadersCounted

(* Starting a reader from the queue: one reader more, counted before it    *)
(* runs.                                                                   *)
LEMMA StartReaderInv ==
  ASSUME IsFiniteSet(Proc), IInv, NEW p \in Proc, pc[p] \in Neutral, NEW e \in QLp,
         StartReader(p, e), torn' = torn
  PROVE  IInv'
<1>1. /\ state' = [state EXCEPT ![e] = "Done"] /\ peer' = [peer EXCEPT ![p] = e]
      /\ mine' = mine /\ pc' = [pc EXCEPT ![p] = "waker"] /\ readers' = readers + 1
      /\ at' = [at EXCEPT ![p] = next[e]] /\ next' = next /\ program' = program
      /\ head' = head /\ tail' = tail /\ writer' = writer
  BY DEF StartReader, SetState, Goto, list
<1>2. /\ "Done" \in States /\ "waker" \in PCs /\ e \in Entry
  BY DEF States, PCs, Entry
<1>3. Typed'
  BY <1>1, <1>2 DEF IInv, Typed
<1>4. state[e] = "QueuingR"
  BY DEF StartReader
<1>5. Waits' /\ Wakes' /\ NoneFailed'
  BY <1>1, <1>3, <1>4, LetInStep
<1>6. PICK w \in Proc : /\ w \notin Readers
                        /\ \/ Readers' = Readers \cup {w}
                           \/ Readers' = Readers /\ torn
  BY <1>1, <1>3, <1>4, LetInStep DEF Waiting
<1>7. Cardinality(Readers \cup {w}) = Cardinality(Readers) + 1 /\ Cardinality(Readers) \in Nat
  BY <1>6, ReadersFinite, FS_AddElement
<1>8. ReadersCounted'
  <2>1. Cardinality(Readers') \in {Cardinality(Readers), Cardinality(Readers) + 1}
    BY <1>6, <1>7
  <2>2. ~torn => Cardinality(Readers') = Cardinality(Readers) + 1
    BY <1>6, <1>7
  <2>3. readers \in Nat /\ Cardinality(Readers) <= readers /\ (~torn => Cardinality(Readers) = readers)
    BY DEF IInv, Typed, ReadersCounted
  <2> QED
    BY <1>1, <1>7, <2>1, <2>2, <2>3 DEF ReadersCounted
<1> QED
  BY <1>3, <1>5, <1>8 DEF IInv

(* Where the parties of a rendezvous go on. *)
LEMMA RendezvousMoves ==
  ASSUME Typed, NEW p \in Proc, NEW w \in Proc, Rendezvous(p, w)
  PROVE  /\ Typed' /\ p # w
         /\ pc'[p] = Back(p)
         /\ (pc'[w] = pc[w] /\ torn') \/ (pc'[w] = Back(w) /\ torn' = torn)
         /\ \A q \in Proc : q \notin {p, w} => pc'[q] = pc[q] /\ peer'[q] = peer[q]
         /\ \A q \in {p, w} : \/ pc[q] = "wake" /\ Back(q) = "out"
                              \/ pc[q] = "waker" /\ Back(q) = "more"
                              \/ pc[q] \in {"waitr", "waitrt"} /\ Back(q) = "gotr"
                              \/ pc[q] \in {"waitw", "waitwt"} /\ Back(q) = "gotw"
<1> DEFINE Moves(q) == \/ pc[q] = "wake" /\ Back(q) = "out"
                       \/ pc[q] = "waker" /\ Back(q) = "more"
                       \/ pc[q] \in {"waitr", "waitrt"} /\ Back(q) = "gotr"
                       \/ pc[q] \in {"waitw", "waitwt"} /\ Back(q) = "gotw"
<1>1. /\ pc[p] \in Waiting \cup Waking /\ pc[w] \in Waiting \cup Waking /\ p # w
      /\ UNCHANGED <<program, readers, writer, head, tail, next, state, mine, at>>
  BY DEF Rendezvous, list
<1>2. ASSUME NEW q \in {p, w} PROVE Moves(q)
  <2>1. pc[q] \in Waiting \cup Waking
    BY <1>1
  <2> QED
    BY <2>1 DEF Back, Waiting, Waking
<1>3. Back(p) \in PCs /\ Back(w) \in PCs
  BY <1>2 DEF PCs
<1>4. \/ /\ pc' = [pc EXCEPT ![p] = Back(p), ![w] = Back(w)]
         /\ peer' = [peer EXCEPT ![p] = None, ![w] = None] /\ torn' = torn
      \/ /\ pc' = [pc EXCEPT ![p] = Back(p)]
         /\ peer' = [peer EXCEPT ![p] = None] /\ torn' = TRUE
  BY DEF Rendezvous, Goto
<1>5. pc \in [Proc -> PCs] /\ peer \in [Proc -> Entry] /\ None \in Entry /\ torn \in BOOLEAN
  BY DEF Typed, Entry
<1>6. pc' \in [Proc -> PCs] /\ peer' \in [Proc -> Entry] /\ torn' \in BOOLEAN
  BY <1>3, <1>4, <1>5
<1>7. Typed'
  BY <1>1, <1>6 DEF Typed
<1>8. /\ pc'[p] = Back(p)
      /\ (pc'[w] = pc[w] /\ torn') \/ (pc'[w] = Back(w) /\ torn' = torn)
      /\ \A q \in Proc : q \notin {p, w} => pc'[q] = pc[q] /\ peer'[q] = peer[q]
  BY <1>1, <1>4, <1>5
<1> QED
  BY <1>1, <1>2, <1>7, <1>8

(* While none was torn, one party is an unlock and the other the process   *)
(* it let in; both go on.                                                  *)
LEMMA RendezvousPair ==
  ASSUME IInv, NEW p \in Proc, NEW w \in Proc, Rendezvous(p, w), ~torn'
  PROVE  /\ ~torn
         /\ \E a, b \in {p, w} :
              /\ a # b /\ pc[a] \in {"wake", "waker"} /\ pc[b] \in Waiting /\ mine[b] = peer[a]
              /\ pc'[a] \in {"out", "more"} /\ pc'[b] \in {"gotr", "gotw"}
<1>1. /\ p # w /\ pc[p] \in Waiting \cup Waking /\ pc[w] \in Waiting \cup Waking
      /\ Tag(p) = Tag(w)
  BY DEF Rendezvous
<1>2. ~torn /\ pc'[p] = Back(p) /\ pc'[w] = Back(w)
  BY RendezvousMoves DEF IInv
<1>3. /\ \A q \in {p, w} : pc[q] \in Waking => Tag(q) = peer[q] /\ Back(q) \in {"out", "more"}
      /\ \A q \in {p, w} : pc[q] \in Waiting => Tag(q) = mine[q] /\ Back(q) \in {"gotr", "gotw"}
  BY DEF Tag, Back, Waiting, Waking
<1>4. ~(pc[p] \in Waking /\ pc[w] \in Waking)
  BY <1>1, <1>2, <1>3 DEF IInv, Wakes, Waking
<1>5. ~(pc[p] \in Waiting /\ pc[w] \in Waiting)
  BY <1>1, <1>3 DEF IInv, Waits, Owning
<1>6. CASE pc[p] \in Waking /\ pc[w] \in Waiting
  BY <1>1, <1>2, <1>3, <1>6 DEF Waking
<1>7. CASE pc[w] \in Waking /\ pc[p] \in Waiting
  BY <1>1, <1>2, <1>3, <1>7 DEF Waking
<1> QED
  BY <1>1, <1>4, <1>5, <1>6, <1>7

(* The rendezvous: entries and readers stay as they are. *)
LEMMA RendezvousInv ==
  ASSUME IInv, NEW p \in Proc, NEW w \in Proc, Rendezvous(p, w)
  PROVE  IInv'
<1>1. Typed' /\ p # w /\ mine' = mine /\ state' = state /\ readers' = readers
  BY RendezvousMoves DEF IInv, Rendezvous
<1>2. \A q \in Proc : \/ pc'[q] = pc[q]
                      \/ pc[q] \in {"wake", "waker"} /\ pc'[q] \in {"out", "more"}
                      \/ pc[q] \in {"waitr", "waitrt"} /\ pc'[q] = "gotr"
                      \/ pc[q] \in {"waitw", "waitwt"} /\ pc'[q] = "gotw"
  BY RendezvousMoves DEF IInv
<1>3. torn => torn'
  BY RendezvousMoves DEF IInv
<1>4. \A q \in Proc : q \notin {p, w} => pc'[q] = pc[q] /\ peer'[q] = peer[q]
  BY RendezvousMoves DEF IInv
<1>5. Waits'
  <2>1. (\A q \in Proc : mine[q] # None <=> pc[q] \in Owning)'
    BY <1>1, <1>2 DEF IInv, Waits, Owning, Waiting
  <2>2. (\A q, r \in Proc : mine[q] = mine[r] /\ mine[q] # None => q = r)'
    BY <1>1 DEF IInv, Waits
  <2>3. (\A q \in Proc : /\ pc[q] \in {"waitr", "waitrt", "gotr"} => state[mine[q]] \in {"QueuingR", "Done"}
                         /\ pc[q] \in {"waitw", "waitwt", "gotw"} => state[mine[q]] \in {"QueuingW", "Done"}
                         /\ pc[q] = "failed" => state[mine[q]] \in {"QueuingR", "QueuingW", "Done"})'
    BY <1>1, <1>2 DEF IInv, Waits
  <2>4. ASSUME NEW q \in Proc, ~torn', pc'[q] \in {"gotr", "gotw"} PROVE state[mine[q]] = "Done"
    <3>1. CASE q \notin {p, w}
      BY <1>3, <1>4, <2>4, <3>1 DEF IInv, Waits
    <3>2. CASE q \in {p, w}
      <4>1. PICK a, b \in {p, w} : /\ a # b /\ pc[a] \in {"wake", "waker"} /\ mine[b] = peer[a]
                                   /\ pc'[a] \in {"out", "more"}
        BY <2>4, RendezvousPair
      <4>2. q = b
        BY <2>4, <3>2, <4>1
      <4> QED
        BY <1>3, <2>4, <4>1, <4>2 DEF IInv, Wakes
    <3> QED
      BY <3>1, <3>2
  <2>5. (\A x \in QLp : state[x] \in {"QueuingR", "QueuingW", "Done"} => \E q \in Proc : mine[q] = x)'
    BY <1>1 DEF IInv, Waits
  <2> QED
    BY <1>1, <2>1, <2>2, <2>3, <2>4, <2>5 DEF Waits
<1>6. Wakes'
  <2> SUFFICES ASSUME ~torn' PROVE Wakes'
    BY DEF Wakes
  <2>1. PICK a, b \in {p, w} : /\ a # b /\ pc[a] \in {"wake", "waker"} /\ pc[b] \in Waiting
                               /\ mine[b] = peer[a] /\ pc'[a] \in {"out", "more"}
                               /\ pc'[b] \in {"gotr", "gotw"}
    BY RendezvousPair
  <2>2. \A q \in Proc : pc'[q] \in {"wake", "waker"} =>
          /\ q \notin {p, w} /\ pc[q] = pc'[q] /\ peer'[q] = peer[q] /\ peer[q] # peer[a]
    BY <1>3, <1>4, <2>1 DEF IInv, Wakes
  <2>3. ASSUME NEW q \in Proc, pc'[q] \in {"wake", "waker"}
        PROVE  \E v \in Proc : pc'[v] \in Waiting /\ mine[v] = peer'[q] /\ state[peer'[q]] = "Done"
    <3>1. PICK v \in Proc : pc[v] \in Waiting /\ mine[v] = peer[q] /\ state[peer[q]] = "Done"
      BY <1>3, <2>2, <2>3 DEF IInv, Wakes
    <3>2. v \notin {p, w}
      BY <2>1, <2>2, <2>3, <3>1 DEF Waiting
    <3> QED
      BY <1>4, <2>2, <2>3, <3>1, <3>2
  <2> QED
    BY <1>1, <1>3, <2>2, <2>3 DEF IInv, Wakes
<1>7. NoneFailed'
  BY <1>2, <1>3 DEF IInv, NoneFailed
<1>8. Readers' = Readers
  BY <1>1, <1>2 DEF Readers, LetIn, Waiting
<1> QED
  BY <1>1, <1>3, <1>5, <1>6, <1>7, <1>8 DEF IInv, ReadersCounted

(* A process leaves its entry, which is let go of. *)
LEMMA LeaveStep ==
  ASSUME IInv, Typed', NEW p \in Proc, mine[p] # None,
         NEW s \in {"Free", "Timedout"}, NEW to \in {"out", "rcs", "wcs"},
         state' = [state EXCEPT ![mine[p]] = s], mine' = [mine EXCEPT ![p] = None],
         pc' = [pc EXCEPT ![p] = to], peer' = peer, torn' = torn,
         ~torn => \A q \in Proc : pc[q] \in {"wake", "waker"} => peer[q] # mine[p]
  PROVE  /\ Waits' /\ Wakes' /\ NoneFailed'
         /\ Readers' = IF to = "rcs" THEN Readers \cup {p} ELSE Readers \ {p}
<1>1. /\ pc \in [Proc -> PCs] /\ mine \in [Proc -> Entry] /\ state \in [QLp -> States]
      /\ peer \in [Proc -> Entry] /\ mine[p] \in QLp
  BY DEF IInv, Typed, Entry
<1>2. pc'[p] = to /\ mine'[p] = None /\ state'[mine[p]] = s
  BY <1>1
<1>3. \A q \in Proc : q # p => pc'[q] = pc[q] /\ mine'[q] = mine[q]
  BY <1>1
<1>4. \A q \in Proc : mine[q] # None /\ q # p => mine[q] \in QLp /\ mine[q] # mine[p]
                                                 /\ state'[mine[q]] = state[mine[q]]
  BY <1>1 DEF IInv, Waits, Owning, Entry
<1>5. \A q \in Proc : pc[q] \in Owning => mine[q] # None
  BY DEF IInv, Waits, Owning
<1>6. Waits'
  <2>1. (\A q \in Proc : mine[q] # None <=> pc[q] \in Owning)'
    BY <1>2, <1>3 DEF IInv, Waits, Owning, Waiting
  <2>2. (\A q, r \in Proc : mine[q] = mine[r] /\ mine[q] # None => q = r)'
    BY <1>2, <1>3 DEF IInv, Waits, Owning
  <2>3. (\A q \in Proc : pc[q] \in {"waitr", "waitrt", "gotr"} => state[mine[q]] \in {"QueuingR", "Done"})'
    BY <1>2, <1>3, <1>4, <1>5 DEF IInv, Waits, Owning, Waiting
  <2>4. (\A q \in Proc : pc[q] \in {"waitw", "waitwt", "gotw"} => state[mine[q]] \in {"QueuingW", "Done"})'
    BY <1>2, <1>3, <1>4, <1>5 DEF IInv, Waits, Owning, Waiting
  <2>5. (\A q \in Proc : pc[q] = "failed" => state[mine[q]] \in {"QueuingR", "QueuingW", "Done"})'
    BY <1>2, <1>3, <1>4, <1>5 DEF IInv, Waits, Owning, Waiting
  <2>5a. (\A q \in Proc : ~torn /\ pc[q] \in {"gotr", "gotw"} => state[mine[q]] = "Done")'
    BY <1>2, <1>3, <1>4, <1>5 DEF IInv, Waits, Owning, Waiting
  <2>6. (\A x \in QLp : state[x] \in {"QueuingR", "QueuingW", "Done"} => \E q \in Proc : mine[q] = x)'
    BY <1>1, <1>2, <1>3 DEF IInv, Waits, Owning
  <2> QED
    BY <2>1, <2>2, <2>3, <2>4, <2>5, <2>5a, <2>6, Zenon DEF Waits
<1>7. \A q \in Proc : pc'[q] \in {"wake", "waker"} => q # p /\ pc[q] \in {"wake", "waker"}
  BY <1>2, <1>3
<1>8. Wakes'
  <2> SUFFICES ASSUME ~torn PROVE Wakes'
    BY DEF Wakes
  <2>1. ASSUME NEW q \in Proc, pc'[q] \in {"wake", "waker"}
        PROVE  \E v \in Proc : pc'[v] \in Waiting /\ mine'[v] = peer[q] /\ state'[peer[q]] = "Done"
    <3>1. PICK v \in Proc : pc[v] \in Waiting /\ mine[v] = peer[q] /\ state[peer[q]] = "Done"
      BY <1>7, <2>1 DEF IInv, Wakes
    <3>2. v # p
      BY <1>7, <2>1, <3>1
    <3> QED
      BY <1>3, <1>4, <1>5, <3>1, <3>2
  <2> QED
    BY <1>7, <2>1 DEF IInv, Wakes
<1>9. NoneFailed'
  BY <1>2, <1>3 DEF IInv, NoneFailed
<1>10. \A q \in Proc : q # p => (LetIn(q)' <=> LetIn(q))
  BY <1>3, <1>4, <1>5 DEF LetIn
<1>11. ~LetIn(p)'
  BY <1>2 DEF LetIn, Waiting
<1>12. to = "rcs" => Readers' = Readers \cup {p}
  BY <1>2, <1>3, <1>10 DEF Readers
<1>13. to # "rcs" => Readers' = Readers \ {p}
  BY <1>2, <1>3, <1>10, <1>11 DEF Readers
<1> QED
  BY <1>6, <1>8, <1>9, <1>12, <1>13

(* Back from the rendezvous: if the entry is Done it is let go of.         *)
LEMMA GrantedLeaves ==
  ASSUME IInv, NEW p \in Proc, Granted(p), torn' = torn, state[mine[p]] = "Done"
  PROVE  IInv'
<1>1. pc[p] \in {"gotr", "gotw"} /\ mine[p] # None
  BY DEF Granted, IInv, Waits, Owning
<1>2. PICK to \in {"rcs", "wcs"} : /\ pc' = [pc EXCEPT ![p] = to]
                                   /\ to = "rcs" <=> pc[p] = "gotr"
  BY <1>1 DEF Granted, Goto
<1>3. /\ state' = [state EXCEPT ![mine[p]] = "Free"] /\ mine' = [mine EXCEPT ![p] = None]
      /\ UNCHANGED <<program, readers, writer, head, tail, next, peer, at>>
  BY <1>1 DEF Granted, SetState, list
<1>4. "Free" \in States /\ to \in PCs /\ None \in Entry
  BY DEF States, PCs, Entry
<1>5. Typed'
  BY <1>2, <1>3, <1>4 DEF IInv, Typed
<1>6. ~torn => \A q \in Proc : pc[q] \in {"wake", "waker"} => peer[q] # mine[p]
  <2> SUFFICES ASSUME ~torn, NEW q \in Proc, pc[q] \in {"wake", "waker"}, peer[q] = mine[p]
               PROVE  FALSE
    OBVIOUS
  <2>1. PICK v \in Proc : pc[v] \in Waiting /\ mine[v] = peer[q]
    BY DEF IInv, Wakes
  <2>2. v = p
    BY <1>1, <2>1 DEF IInv, Waits
  <2> QED
    BY <1>1, <2>1, <2>2 DEF Waiting
<1>7. Waits' /\ Wakes' /\ NoneFailed'
  BY <1>1, <1>2, <1>3, <1>5, <1>6, LeaveStep
<1>8. Readers' = IF to = "rcs" THEN Readers \cup {p} ELSE Readers \ {p}
  BY <1>1, <1>2, <1>3, <1>5, <1>6, LeaveStep
<1>9. p \in Readers <=> to = "rcs"
  BY <1>1, <1>2 DEF Readers, LetIn
<1>10. Readers' = Readers
  BY <1>8, <1>9
<1> QED
  BY <1>1, <1>3, <1>5, <1>7, <1>10 DEF IInv, ReadersCounted

(* If it is not, after some rendezvous was torn, the assertion fails.      *)
LEMMA GrantedFails ==
  ASSUME IInv, NEW p \in Proc, Granted(p), torn' = torn, state[mine[p]] # "Done"
  PROVE  IInv' /\ torn
<1>1. /\ pc[p] \in {"gotr", "gotw"} /\ torn /\ pc' = [pc EXCEPT ![p] = "failed"]
      /\ UNCHANGED <<program, readers, writer, head, tail, next, state, mine, peer, at>>
  BY DEF Granted, IInv, Waits, Goto, list
<1>2. pc \in [Proc -> PCs] /\ "failed" \in PCs
  BY DEF IInv, Typed, PCs, Aborted
<1>3. Typed'
  BY <1>1, <1>2 DEF IInv, Typed
<1>4. pc'[p] = "failed" /\ \A q \in Proc : q # p => pc'[q] = pc[q]
  BY <1>1, <1>2
<1>5. state[mine[p]] \in {"QueuingR", "QueuingW", "Done"}
  BY <1>1 DEF IInv, Waits
<1>6. Waits'
  BY <1>1, <1>4, <1>5 DEF IInv, Waits, Owning
<1>7. Wakes' /\ NoneFailed'
  BY <1>1 DEF Wakes, NoneFailed
<1>8. Readers' = Readers
  BY <1>1, <1>4 DEF Readers, LetIn, Waiting
<1> QED
  BY <1>1, <1>3, <1>6, <1>7, <1>8 DEF IInv, ReadersCounted

(* Giving up: the entry is queued still, so nobody is about to meet its    *)
(* owner, and the assertion holds.                                         *)
LEMMA TimeoutInv ==
  ASSUME IInv, NEW p \in Proc, NEW s \in {"QueuingR", "QueuingW"},
         s = "QueuingR" => pc[p] = "waitrt", s = "QueuingW" => pc[p] = "waitwt",
         Timeout(p, s), torn' = torn
  PROVE  IInv'
<1>1. mine[p] # None /\ state[mine[p]] \in {s, "Done"} /\ pc[p] \in {"waitrt", "waitwt"}
  BY DEF IInv, Waits, Owning, Waiting
<1>2. /\ state[mine[p]] = s
      /\ state' = [state EXCEPT ![mine[p]] = "Timedout"] /\ mine' = [mine EXCEPT ![p] = None]
      /\ pc' = [pc EXCEPT ![p] = "out"]
      /\ UNCHANGED <<program, readers, writer, head, tail, next, peer, at>>
  BY <1>1 DEF Timeout, SetState, Goto, list
<1>3. "Timedout" \in States /\ "out" \in PCs /\ None \in Entry
  BY DEF States, PCs, Entry
<1>4. Typed'
  BY <1>2, <1>3 DEF IInv, Typed
<1>5. ~torn => \A q \in Proc : pc[q] \in {"wake", "waker"} => peer[q] # mine[p]
  BY <1>1, <1>2 DEF IInv, Wakes
<1>6. Waits' /\ Wakes' /\ NoneFailed' /\ Readers' = Readers \ {p}
  BY <1>1, <1>2, <1>4, <1>5, LeaveStep
<1>7. p \notin Readers
  BY <1>1, <1>2 DEF Readers, LetIn
<1> QED
  BY <1>2, <1>4, <1>6, <1>7 DEF IInv, ReadersCounted

(* The steps in which nobody starts or stops to wait, read or wake. *)
LEMMA QuietInv ==
  ASSUME IInv, NEW p \in Proc, pc[p] \in Neutral, NEW to \in Neutral, Goto(p, to),
         UNCHANGED <<readers, mine, peer, state, program, next, torn>>,
         head' \in Entry, tail' \in Entry, writer' \in BOOLEAN, at' \in [Proc -> Entry]
  PROVE  IInv'
<1>1. pc \in [Proc -> PCs] /\ to \in PCs
  BY DEF IInv, Typed, Neutral, PCs, Walking, Aborted
<1>2. Typed'
  BY <1>1 DEF IInv, Typed, Goto
<1>3. \A q \in Proc : pc'[q] = pc[q] \/ (pc[q] \in Neutral /\ pc'[q] \in Neutral)
  BY <1>1 DEF Goto
<1> QED
  BY <1>2, <1>3, QuietStep

(* Freeing an entry that timed out. *)
LEMMA SkipInv ==
  ASSUME IInv, NEW p \in Proc, NEW e \in QLp, Skip(p, e), torn' = torn
  PROVE  IInv'
<1>1. /\ state[e] = "Timedout" /\ state' = [state EXCEPT ![e] = "Free"]
      /\ at' = [at EXCEPT ![p] = next[e]]
      /\ UNCHANGED <<program, readers, writer, head, tail, next, pc, mine, peer>>
  BY DEF Skip, SetState, list
<1>2. /\ state \in [QLp -> States] /\ at \in [Proc -> Entry] /\ next[e] \in Entry
      /\ "Free" \in States
  BY DEF IInv, Typed, States
<1>3. Typed'
  BY <1>1, <1>2 DEF IInv, Typed
<1>4. \A x \in QLp : state'[x] = state[x] \/ (state[x] = "Timedout" /\ state'[x] = "Free")
  BY <1>1, <1>2
<1> QED
  BY <1>1, <1>3, <1>4, QuietStep

(* Every call keeps the invariant. *)
LEMMA CallInv ==
  ASSUME IsFiniteSet(Proc), IInv, NEW p \in Proc, Call(p), torn' = torn
  PROVE  IInv'
<1>1. pc[p] = "out"
  BY DEF Call, Rlock, Canrlock, Wlock, Canwlock, Entering
<1>2. CASE TakeR(p)
  BY <1>1, <1>2, TakeRInv
<1>3. CASE TakeW(p)
  <2>1. /\ Goto(p, "wcs") /\ writer' = TRUE /\ at' = at
        /\ UNCHANGED <<readers, mine, peer, state, program, next, head, tail>>
    BY <1>3 DEF TakeW, list, locals
  <2>2. head \in Entry /\ tail \in Entry /\ at \in [Proc -> Entry]
    BY DEF IInv, Typed
  <2> QED
    BY <1>1, <2>1, <2>2, QuietInv DEF Neutral
<1>4. CASE \E to \in {"waitr", "waitrt"} : Enqueue(p, "QueuingR", to)
  BY <1>1, <1>4, EnqueueInv DEF Waiting
<1>5. CASE \E to \in {"waitw", "waitwt"} : Enqueue(p, "QueuingW", to)
  BY <1>1, <1>5, EnqueueInv DEF Waiting
<1> QED
  BY <1>2, <1>3, <1>4, <1>5 DEF Call, Rlock, Canrlock, Wlock, Canwlock

(* So does every step of a walk of the list. *)
LEMMA WalkInv ==
  ASSUME IsFiniteSet(Proc), IInv, NEW p \in Proc,
         RunlockWalk(p) \/ WunlockWriter(p) \/ WunlockReader(p), torn' = torn
  PROVE  IInv'
<1>1. pc[p] \in Walking
  BY DEF RunlockWalk, WunlockWriter, WunlockReader, Walking
<1>2. /\ head \in Entry /\ tail \in Entry /\ at \in [Proc -> Entry] /\ None \in Entry
      /\ writer \in BOOLEAN /\ at[p] \in Entry
  BY DEF IInv, Typed, Entry
<1>3. at[p] # None => at[p] \in QLp
  BY <1>2 DEF Entry
<1>4. pc[p] \in Neutral
  BY <1>1 DEF Walking, Neutral
<1>5. ASSUME NEW to \in Neutral, Goto(p, to),
             UNCHANGED <<program, readers, writer, list, state, locals>>
      PROVE  IInv'
  BY <1>2, <1>4, <1>5, QuietInv DEF list, locals
<1>6. ASSUME NEW e \in Entry, WunlockEnd(p, e)
      PROVE  IInv'
  <2>1. /\ Goto(p, "out") /\ head' \in Entry /\ tail' \in Entry /\ writer' \in BOOLEAN
        /\ at' \in [Proc -> Entry]
        /\ UNCHANGED <<readers, mine, peer, state, program, next>>
    BY <1>2, <1>6 DEF WunlockEnd
  <2> QED
    BY <1>4, <2>1, QuietInv DEF Neutral
<1>7. CASE at[p] # None /\ StartWriter(p, at[p]) /\ writer' \in BOOLEAN
  BY <1>3, <1>4, <1>7, StartWriterInv
<1>8. CASE at[p] # None /\ StartReader(p, at[p])
  BY <1>3, <1>4, <1>8, StartReaderInv
<1>9. CASE at[p] # None /\ Skip(p, at[p])
  BY <1>3, <1>9, SkipInv
<1>10. CASE RunlockWalk(p)
  BY <1>5, <1>7, <1>9, <1>10 DEF RunlockWalk, Corrupt, Neutral
<1>11. CASE WunlockWriter(p)
  BY <1>2, <1>5, <1>6, <1>7, <1>9, <1>11 DEF WunlockWriter, Corrupt, Switch, Neutral
<1>12. CASE WunlockReader(p)
  BY <1>2, <1>5, <1>6, <1>8, <1>9, <1>12 DEF WunlockReader, Corrupt, Switch, Neutral
<1> QED
  BY <1>10, <1>11, <1>12

(* Leaving as a writer, and taking q->lock again. *)
LEMMA WunlockInv ==
  ASSUME IInv, NEW p \in Proc, Wunlock(p) \/ WunlockRelock(p), torn' = torn
  PROVE  IInv'
<1>1. /\ head \in Entry /\ tail \in Entry /\ at \in [Proc -> Entry] /\ writer \in BOOLEAN
      /\ pc[p] \in {"wcs", "more"}
  BY DEF IInv, Typed, Wunlock, WunlockRelock, Entering
<1>2. \E to \in Neutral : Goto(p, to)
  BY DEF Wunlock, WunlockRelock, Switch, Neutral
<1>3. /\ writer' \in BOOLEAN /\ at' \in [Proc -> Entry]
      /\ UNCHANGED <<readers, mine, peer, state, program, next, head, tail>>
  BY <1>1 DEF Wunlock, WunlockRelock, Switch, list, locals
<1> QED
  BY <1>1, <1>2, <1>3, QuietInv DEF Neutral

(* Every step of every program keeps IInv, and the calls of a process      *)
(* never change.                                                           *)
LEMMA NextInv ==
  ASSUME IsFiniteSet(Proc), IInv, [Next]_vars
  PROVE  IInv'
<1>1. CASE UNCHANGED vars
  <2>1. UNCHANGED <<program, readers, writer, head, tail, next, state, pc, mine, peer, at, torn>>
    BY <1>1 DEF vars, list, locals
  <2>2. Typed' /\ Waits' /\ Wakes' /\ NoneFailed'
    BY <2>1 DEF IInv, Typed, Waits, Owning, Wakes, NoneFailed
  <2>3. Readers' = Readers
    BY <2>1 DEF Readers, LetIn
  <2> QED
    BY <2>1, <2>2, <2>3 DEF IInv, ReadersCounted
<1>2. ASSUME NEW p \in Proc, Run(p), torn' = torn PROVE IInv'
  BY <1>2, RunlockInv, WalkInv, WunlockInv, GrantedLeaves, GrantedFails DEF Run
<1>3. ASSUME NEW p \in Proc, RlocktTimeout(p), torn' = torn PROVE IInv'
  BY <1>3, TimeoutInv DEF RlocktTimeout
<1>4. ASSUME NEW p \in Proc, WlocktTimeout(p), torn' = torn PROVE IInv'
  BY <1>4, TimeoutInv DEF WlocktTimeout
<1> QED
  BY <1>1, <1>2, <1>3, <1>4, CallInv, RendezvousInv DEF Next, Proceed

(* IInv holds of every behaviour. *)
THEOREM Invariance ==
  ASSUME IsFiniteSet(Proc)
  PROVE  Spec => []IInv
<1>1. Init => IInv
  BY InitInv
<1>2. IInv /\ [Next]_vars => IInv'
  BY NextInv
<1> QED
  BY <1>1, <1>2, PTL DEF Spec

(* The types of the state of qlock.c:295-629: among them, q->_readers is   *)
(* never negative.                                                         *)
THEOREM RWLockTypeOK ==
  ASSUME IsFiniteSet(Proc)
  PROVE  Spec => []TypeOK
<1>1. IInv => TypeOK
  BY DEF IInv, Typed, TypeOK, Entry
<1> QED
  BY <1>1, Invariance, PTL

(* In every program, whatever rlock, rlockt, wlock, wlockt and the two     *)
(* unlocks do in any order, and wherever the list leads them,              *)
(* q->_readers is the number of processes that read or were let in to      *)
(* read (qlock.c:303, 338, 388, 405, 590), and never less than that even   *)
(* after a rendezvous was interrupted on one side.                         *)
THEOREM RWLockReadersCounted ==
  ASSUME IsFiniteSet(Proc)
  PROVE  Spec => []ReadersCounted
<1>1. IInv => ReadersCounted
  BY DEF IInv
<1> QED
  BY <1>1, Invariance, PTL

(* In every program in which no rendezvous was interrupted on one side no  *)
(* call fails its assertion on the state of its own entry, after the       *)
(* rendezvous or after a timeout (qlock.c:321, 370, 374, 467, 517, 520);   *)
(* and runlock by a reader always finds readers (qlock.c:402).             *)
THEOREM RWLockNoneFailed ==
  ASSUME IsFiniteSet(Proc)
  PROVE  Spec => [](NoneFailed /\ \A p \in Proc : pc[p] = "rcs" => readers > 0)
<1>1. IInv => NoneFailed /\ \A p \in Proc : pc[p] = "rcs" => readers > 0
  <2> SUFFICES ASSUME IInv PROVE NoneFailed /\ \A p \in Proc : pc[p] = "rcs" => readers > 0
    OBVIOUS
  <2>1. ASSUME NEW p \in Proc, pc[p] = "rcs" PROVE readers > 0
    <3>1. Readers # {}
      BY <2>1 DEF Readers
    <3> QED
      BY <3>1, ReadersFinite, FS_EmptySet DEF IInv, Typed, ReadersCounted
  <2> QED
    BY <2>1 DEF IInv
<1> QED
  BY <1>1, Invariance, PTL
-----------------------------------------------------------------------------
(* In a Plain program the entries that are queued are a list from q->head  *)
(* to q->tail along QLp.next: s, of length n, without a repetition.        *)
Chain(n, s) ==
  /\ \A e \in QLp : state[e] = "QueuingW" <=> \E i \in 1..n : s[i] = e
  /\ \A i, j \in 1..n : s[i] = s[j] => i = j
  /\ head = IF n = 0 THEN None ELSE s[1]
  /\ tail = IF n = 0 THEN None ELSE s[n]
  /\ \A i \in 1..n : next[s[i]] = IF i = n THEN None ELSE s[i + 1]
Chained == \E n \in Nat : \E s \in [1..n -> QLp] : Chain(n, s)

(* Where a process can be; that who walks looks at the head; and that      *)
(* q->lock excludes.                                                       *)
Locking == {"walk", "walkw", "full"}
Places ==
  /\ \A p \in Proc : pc[p] \in {"out", "rcs", "wcs", "waitw", "gotw", "wake", "failed"} \cup Locking
  /\ \A e \in QLp : state[e] \in {"Free", "QueuingW", "Done"}
  /\ \A p \in Proc : pc[p] \in {"walk", "walkw"} => at[p] = head /\ head # None
  /\ \A p, q \in Proc : pc[p] \in Locking /\ pc[q] \in Locking => p = q

(* There is one writer, counting the one that is leaving, and then no      *)
(* reader; and no writer is queued but behind a writer or readers, or in   *)
(* front of the walk of the last reader.                                   *)
Writes(p) == pc[p] \in {"wcs", "walkw"} \/ Taken(p)
OneWriter ==
  /\ \A p, q \in Proc : Writes(p) /\ Writes(q) => p = q
  /\ writer <=> \E p \in Proc : Writes(p)
  /\ writer => readers = 0
  /\ \A p \in Proc : pc[p] = "walk" => readers = 0 /\ ~writer
Behind == (\E e \in QLp : state[e] = "QueuingW") =>
            writer \/ readers > 0 \/ \E p \in Proc : pc[p] = "walk"

(* What holds besides in a Plain program.  Exclusion is not inductive:     *)
(* that runlock and wunlock start one writer needs that the head of the    *)
(* list is a writer that waits, hence that the list is one.                *)
PlainInv == Chained /\ Places /\ OneWriter /\ Behind

(* As no reader queues, q->_readers counts those that read exactly. *)
Reads == {p \in Proc : pc[p] = "rcs"}
PlainCount == readers = Cardinality(Reads)

(* The list is as it was when it and what is queued do not change. *)
LEMMA SameChain ==
  ASSUME Chained, UNCHANGED list,
         \A e \in QLp : state'[e] = "QueuingW" <=> state[e] = "QueuingW"
  PROVE  Chained'
<1>1. PICK n \in Nat : \E s \in [1..n -> QLp] : Chain(n, s)
  BY DEF Chained
<1>2. PICK s \in [1..n -> QLp] : Chain(n, s)
  BY <1>1
<1>3. Chain(n, s)'
  BY <1>2 DEF Chain, list
<1> QED
  BY <1>3 DEF Chained

(* q->head tells whether anybody is queued, and is a queued writer. *)
LEMMA HeadQueued ==
  ASSUME Chained
  PROVE  /\ head # None => head \in QLp /\ state[head] = "QueuingW"
         /\ head = None <=> \A e \in QLp : state[e] # "QueuingW"
         /\ head = None <=> tail = None
<1>1. PICK n \in Nat : \E s \in [1..n -> QLp] : Chain(n, s)
  BY DEF Chained
<1>2. PICK s \in [1..n -> QLp] : Chain(n, s)
  BY <1>1
<1>3. CASE n = 0
  BY <1>2, <1>3 DEF Chain
<1>4. CASE n # 0
  <2>1. 1 \in 1..n /\ n \in 1..n
    BY <1>4
  <2>2. s[1] \in QLp /\ s[n] \in QLp /\ s[1] # None /\ s[n] # None
    BY <2>1, UserRWLockAssumption
  <2>3. head = s[1] /\ tail = s[n]
    BY <1>2, <1>4 DEF Chain
  <2>4. state[s[1]] = "QueuingW"
    BY <1>2, <2>1, <2>2 DEF Chain
  <2> QED
    BY <2>2, <2>3, <2>4
<1> QED
  BY <1>3, <1>4

(* An entry is added at the end. *)
LEMMA AppendChain ==
  ASSUME Chained, NEW e \in QLp, state[e] = "Free", state \in [QLp -> States],
         state' = [state EXCEPT ![e] = "QueuingW"],
         head' = IF tail = None THEN e ELSE head,
         next' = [x \in QLp |-> IF x = e THEN None ELSE IF x = tail THEN e ELSE next[x]],
         tail' = e
  PROVE  Chained'
<1>1. PICK n \in Nat : \E s \in [1..n -> QLp] : Chain(n, s)
  BY DEF Chained
<1>2. PICK s \in [1..n -> QLp] : Chain(n, s)
  BY <1>1
<1> DEFINE t == [i \in 1..(n + 1) |-> IF i = n + 1 THEN e ELSE s[i]]
<1>3. t \in [1..(n + 1) -> QLp] /\ n + 1 \in Nat
  OBVIOUS
<1>4. \A i \in 1..n : s[i] # e /\ s[i] \in QLp /\ i \in 1..(n + 1) /\ t[i] = s[i]
  BY <1>2 DEF Chain
<1>5. n + 1 \in 1..(n + 1) /\ t[n + 1] = e
  OBVIOUS
<1>6. \A i \in 1..(n + 1) : i = n + 1 \/ i \in 1..n
  OBVIOUS
<1>7. \A x \in QLp : state'[x] = "QueuingW" <=> \E i \in 1..(n + 1) : t[i] = x
  <2>1. \A x \in QLp : state[x] = "QueuingW" <=> \E i \in 1..n : s[i] = x
    BY <1>2 DEF Chain
  <2> QED
    BY <1>4, <1>5, <1>6, <2>1
<1>8. \A i, j \in 1..(n + 1) : t[i] = t[j] => i = j
  <2>1. \A i, j \in 1..n : s[i] = s[j] => i = j
    BY <1>2 DEF Chain
  <2> HIDE DEF t
  <2> QED
    BY <1>4, <1>5, <1>6, <2>1
<1>9. head' = t[1] /\ tail' = t[n + 1]
  <2>1. CASE n = 0
    <3>1. tail = None
      BY <1>2, <2>1 DEF Chain
    <3> QED
      BY <1>5, <2>1, <3>1
  <2>2. CASE n # 0
    <3>1. 1 \in 1..n /\ n \in 1..n
      BY <2>2
    <3>2. tail = s[n] /\ head = s[1] /\ tail # None
      BY <1>2, <2>2, <3>1, UserRWLockAssumption DEF Chain
    <3> QED
      BY <1>4, <1>5, <3>1, <3>2
  <2> QED
    BY <2>1, <2>2
<1>10. \A i \in 1..(n + 1) : next'[t[i]] = IF i = n + 1 THEN None ELSE t[i + 1]
  <2> SUFFICES ASSUME NEW i \in 1..(n + 1)
               PROVE  next'[t[i]] = IF i = n + 1 THEN None ELSE t[i + 1]
    OBVIOUS
  <2>1. CASE i = n + 1
    BY <1>5, <2>1
  <2>2. CASE i = n /\ n # 0
    <3>1. n \in 1..n
      BY <2>2
    <3>2. tail = s[n]
      BY <1>2, <2>2 DEF Chain
    <3>3. next'[s[n]] = e
      BY <1>4, <3>1, <3>2
    <3> QED
      BY <1>4, <1>5, <2>2, <3>1, <3>3
  <2>3. CASE i \in 1..n /\ i # n
    <3>1. i + 1 \in 1..n /\ n \in 1..n /\ n # 0
      BY <2>3
    <3>2. tail = s[n] /\ s[i] # s[n]
      BY <1>2, <2>3, <3>1 DEF Chain
    <3>3. next[s[i]] = s[i + 1]
      BY <1>2, <2>3 DEF Chain
    <3>4. next'[s[i]] = s[i + 1]
      BY <1>4, <2>3, <3>2, <3>3
    <3> QED
      BY <1>4, <2>3, <3>1, <3>4
  <2> QED
    BY <2>1, <2>2, <2>3
<1>11. Chain(n + 1, t)'
  <2> HIDE DEF t
  <2> QED
    BY <1>7, <1>8, <1>9, <1>10 DEF Chain
<1> QED
  BY <1>3, <1>11 DEF Chained

(* The entry at the head is taken off. *)
LEMMA TailChain ==
  ASSUME Chained, head # None, state \in [QLp -> States],
         state' = [state EXCEPT ![head] = "Done"],
         head' = next[head],
         tail' = IF next[head] = None THEN None ELSE tail,
         next' = next
  PROVE  Chained'
<1>1. PICK n \in Nat : \E s \in [1..n -> QLp] : Chain(n, s)
  BY DEF Chained
<1>2. PICK s \in [1..n -> QLp] : Chain(n, s)
  BY <1>1
<1>3. n # 0 /\ n - 1 \in Nat /\ 1 \in 1..n /\ n \in 1..n
  BY <1>2 DEF Chain
<1> DEFINE t == [i \in 1..(n - 1) |-> s[i + 1]]
<1>4. head = s[1] /\ tail = s[n] /\ s[1] \in QLp
  BY <1>2, <1>3 DEF Chain
<1>5. \A i \in 1..(n - 1) : i + 1 \in 1..n /\ t[i] = s[i + 1] /\ i \in 1..n
  BY <1>3
<1>6. t \in [1..(n - 1) -> QLp]
  BY <1>5
<1>7. \A i \in 1..n : i = 1 \/ (i - 1 \in 1..(n - 1) /\ t[i - 1] = s[i])
  BY <1>3
<1>8. \A i, j \in 1..n : s[i] = s[j] => i = j
  BY <1>2 DEF Chain
<1>9. \A x \in QLp : state'[x] = "QueuingW" <=> \E i \in 1..(n - 1) : t[i] = x
  <2>1. \A x \in QLp : state[x] = "QueuingW" <=> \E i \in 1..n : s[i] = x
    BY <1>2 DEF Chain
  <2>2. \A x \in QLp : state'[x] = "QueuingW" <=> state[x] = "QueuingW" /\ x # s[1]
    BY <1>4
  <2>3. \A i \in 1..(n - 1) : t[i] # s[1] /\ t[i] \in QLp
    BY <1>3, <1>5, <1>8
  <2> HIDE DEF t
  <2>4. ASSUME NEW x \in QLp, state'[x] = "QueuingW" PROVE \E i \in 1..(n - 1) : t[i] = x
    BY <1>7, <2>1, <2>2, <2>4
  <2>5. ASSUME NEW x \in QLp, NEW i \in 1..(n - 1), t[i] = x PROVE state'[x] = "QueuingW"
    BY <1>5, <2>1, <2>2, <2>3, <2>5
  <2> QED
    BY <2>4, <2>5
<1>10. \A i, j \in 1..(n - 1) : t[i] = t[j] => i = j
  <2> HIDE DEF t
  <2> SUFFICES ASSUME NEW i \in 1..(n - 1), NEW j \in 1..(n - 1), t[i] = t[j] PROVE i = j
    OBVIOUS
  <2>1. i + 1 = j + 1
    BY <1>5, <1>8
  <2> QED
    BY <2>1, <1>3
<1>11. next[s[1]] = IF n = 1 THEN None ELSE s[2]
  BY <1>2, <1>3 DEF Chain
<1>12. n # 1 => 1 \in 1..(n - 1) /\ n - 1 \in 1..(n - 1) /\ t[1] = s[2] /\ t[n - 1] = s[n] /\ s[2] # None
  BY <1>3, UserRWLockAssumption
<1>13. head' = IF n - 1 = 0 THEN None ELSE t[1]
  <2> HIDE DEF t
  <2> QED
    BY <1>3, <1>4, <1>11, <1>12
<1>14. tail' = IF n - 1 = 0 THEN None ELSE t[n - 1]
  <2> HIDE DEF t
  <2> QED
    BY <1>3, <1>4, <1>11, <1>12
<1>15. \A i \in 1..(n - 1) : next[t[i]] = IF i = n - 1 THEN None ELSE t[i + 1]
  <2> SUFFICES ASSUME NEW i \in 1..(n - 1)
               PROVE  next[t[i]] = IF i = n - 1 THEN None ELSE t[i + 1]
    OBVIOUS
  <2>1. next[s[i + 1]] = IF i + 1 = n THEN None ELSE s[(i + 1) + 1]
    BY <1>2, <1>5 DEF Chain
  <2>2. CASE i = n - 1
    BY <1>3, <1>5, <2>1, <2>2
  <2>3. CASE i # n - 1
    <3>1. i + 1 \in 1..(n - 1) /\ i + 1 # n
      BY <1>3, <2>3
    <3> QED
      BY <1>5, <2>1, <2>3, <3>1
  <2> QED
    BY <2>2, <2>3
<1>16. Chain(n - 1, t)'
  <2> HIDE DEF t
  <2> QED
    BY <1>9, <1>10, <1>13, <1>14, <1>15 DEF Chain
<1> QED
  BY <1>3, <1>6, <1>16 DEF Chained

(* Who has an entry is a writer, whose turn has come or not. *)
LEMMA WriterEntry ==
  ASSUME IInv, PlainInv, NEW p \in Proc, mine[p] # None
  PROVE  /\ mine[p] \in QLp /\ pc[p] \in {"waitw", "gotw", "failed"}
         /\ state[mine[p]] \in {"QueuingW", "Done"}
<1>1. mine[p] \in QLp
  BY DEF IInv, Typed, Entry
<1>2. pc[p] \in {"waitw", "gotw", "failed"}
  <2>1. pc[p] \in Owning
    BY DEF IInv, Waits
  <2> QED
    BY <2>1 DEF PlainInv, Places, Locking, Owning, Waiting
<1>3. state[mine[p]] \in {"QueuingW", "Done"}
  BY <1>1, <1>2 DEF PlainInv, Places, IInv, Waits
<1> QED
  BY <1>1, <1>2, <1>3

(* A process enters as a reader. *)
LEMMA PlainTakeR ==
  ASSUME IInv, PlainInv, NEW p \in Proc, Entering(p, "out"), TakeR(p)
  PROVE  PlainInv'
<1>1. /\ pc \in [Proc -> PCs] /\ pc[p] = "out" /\ pc' = [pc EXCEPT ![p] = "rcs"]
      /\ ~writer /\ head = None /\ readers' = readers + 1 /\ readers \in Nat
      /\ UNCHANGED <<writer, head, tail, next, state, mine, at>>
  BY DEF IInv, Typed, Entering, TakeR, CanRead, Goto, list, locals
<1>2. \A q \in Proc : pc[q] \notin Locking
  <2>1. \A q \in Proc : pc[q] \notin Walking \cup {"full", "corrupt"}
    BY DEF Entering, Unlocked
  <2> QED
    BY <2>1 DEF Walking, Locking
<1>3. Chained'
  BY <1>1, SameChain DEF PlainInv, list
<1>4. Places'
  BY <1>1, <1>2 DEF PlainInv, Places, Locking
<1>5. \A q \in Proc : Writes(q)' <=> Writes(q)
  BY <1>1 DEF Writes, Taken
<1>6. OneWriter'
  BY <1>1, <1>2, <1>5 DEF PlainInv, OneWriter, Locking
<1>7. Behind'
  BY <1>1 DEF Behind
<1> QED
  BY <1>3, <1>4, <1>6, <1>7 DEF PlainInv

(* A process enters as a writer. *)
LEMMA PlainTakeW ==
  ASSUME IInv, PlainInv, NEW p \in Proc, Entering(p, "out"), TakeW(p)
  PROVE  PlainInv'
<1>1. /\ pc \in [Proc -> PCs] /\ pc[p] = "out" /\ pc' = [pc EXCEPT ![p] = "wcs"]
      /\ ~writer /\ readers = 0 /\ readers' = readers /\ writer' = TRUE
      /\ UNCHANGED <<head, tail, next, state, mine, at>>
  BY DEF IInv, Typed, Entering, TakeW, CanWrite, Goto, list, locals
<1>2. \A q \in Proc : pc[q] \notin Locking
  <2>1. \A q \in Proc : pc[q] \notin Walking \cup {"full", "corrupt"}
    BY DEF Entering, Unlocked
  <2> QED
    BY <2>1 DEF Walking, Locking
<1>3. Chained'
  BY <1>1, SameChain DEF PlainInv, list
<1>4. Places'
  BY <1>1, <1>2 DEF PlainInv, Places, Locking
<1>5. \A q \in Proc : Writes(q)' <=> q = p
  <2>1. \A q \in Proc : ~Writes(q)
    BY <1>1 DEF PlainInv, OneWriter
  <2> QED
    BY <1>1, <2>1 DEF Writes, Taken
<1>6. OneWriter'
  BY <1>1, <1>2, <1>5 DEF OneWriter, Locking
<1>7. Behind'
  BY <1>1 DEF Behind
<1> QED
  BY <1>3, <1>4, <1>6, <1>7 DEF PlainInv

(* A writer queues, behind whoever it may not enter with. *)
LEMMA PlainEnqueue ==
  ASSUME IInv, PlainInv, NEW p \in Proc, Entering(p, "out"), ~CanWrite,
         Enqueue(p, "QueuingW", "waitw")
  PROVE  PlainInv'
<1>1. pc \in [Proc -> PCs] /\ pc[p] = "out" /\ state \in [QLp -> States]
      /\ mine \in [Proc -> Entry] /\ readers \in Nat
  BY DEF IInv, Typed, Entering
<1>2. \A q \in Proc : pc[q] \notin Locking
  <2>1. \A q \in Proc : pc[q] \notin Walking \cup {"full", "corrupt"}
    BY DEF Entering, Unlocked
  <2> QED
    BY <2>1 DEF Walking, Locking
<1>3. CASE /\ Cardinality(FreeEntries) <= 1
           /\ Goto(p, "full")
           /\ UNCHANGED <<program, readers, writer, list, state, locals>>
  <2>1. /\ pc' = [pc EXCEPT ![p] = "full"]
        /\ UNCHANGED <<readers, writer, head, tail, next, state, mine, at>>
    BY <1>3 DEF Goto, list, locals
  <2>2. Chained'
    BY <2>1, SameChain DEF PlainInv, list
  <2>3. Places'
    BY <1>1, <1>2, <2>1 DEF PlainInv, Places, Locking
  <2>4. \A q \in Proc : Writes(q)' <=> Writes(q)
    BY <1>1, <2>1 DEF Writes, Taken
  <2>5. OneWriter'
    BY <1>1, <1>2, <2>1, <2>4 DEF PlainInv, OneWriter, Locking
  <2>6. Behind'
    BY <1>1, <1>2, <2>1 DEF PlainInv, Behind, Locking
  <2> QED
    BY <2>2, <2>3, <2>5, <2>6 DEF PlainInv
<1>4. ASSUME NEW e \in FreeEntries,
             /\ SetState(e, "QueuingW")
             /\ mine' = [mine EXCEPT ![p] = e]
             /\ head' = IF tail = None THEN e ELSE head
             /\ next' = [x \in QLp |-> IF x = e THEN None ELSE IF x = tail THEN e ELSE next[x]]
             /\ tail' = e
             /\ Goto(p, "waitw")
             /\ UNCHANGED <<program, readers, writer, peer, at>>
      PROVE  PlainInv'
  <2>1. /\ e \in QLp /\ state[e] = "Free" /\ state' = [state EXCEPT ![e] = "QueuingW"]
        /\ mine' = [mine EXCEPT ![p] = e] /\ pc' = [pc EXCEPT ![p] = "waitw"]
        /\ UNCHANGED <<readers, writer, at>>
    BY <1>4 DEF FreeEntries, SetState, Goto
  <2>2. Chained'
    BY <1>1, <1>4, <2>1, AppendChain DEF PlainInv
  <2>3. Places'
    BY <1>1, <1>2, <2>1 DEF PlainInv, Places, Locking
  <2>4. \A q \in Proc : Writes(q)' <=> Writes(q)
    <3>1. \A q \in Proc : mine[q] # None => mine[q] \in QLp /\ mine[q] # e
      BY <2>1, WriterEntry
    <3>2. \A q \in Proc : q # p => pc'[q] = pc[q] /\ mine'[q] = mine[q]
      BY <1>1, <2>1
    <3>3. pc'[p] = "waitw" /\ state'[mine'[p]] = "QueuingW" /\ mine[p] = None
      BY <1>1, <2>1 DEF IInv, Waits, Owning, Waiting
    <3>4. \A q \in Proc : q # p => (Writes(q)' <=> Writes(q))
      BY <1>1, <2>1, <3>1, <3>2 DEF Writes, Taken
    <3>5. ~Writes(p)' /\ ~Writes(p)
      BY <1>1, <3>3 DEF Writes, Taken
    <3> QED
      BY <3>4, <3>5
  <2>5. OneWriter'
    BY <1>1, <1>2, <2>1, <2>4 DEF PlainInv, OneWriter, Locking
  <2>6. Behind'
    BY <1>1, <2>1 DEF Behind, CanWrite
  <2> QED
    BY <2>2, <2>3, <2>5, <2>6 DEF PlainInv
<1> QED
  BY <1>3, <1>4 DEF Enqueue

(* A reader leaves, and looks for a writer when it was the last. *)
LEMMA PlainRunlock ==
  ASSUME IsFiniteSet(Proc), IInv, PlainInv, NEW p \in Proc, Runlock(p), torn' = torn
  PROVE  PlainInv'
<1>1. /\ pc \in [Proc -> PCs] /\ at \in [Proc -> Entry] /\ readers \in Nat /\ pc[p] = "rcs"
      /\ UNCHANGED <<writer, head, tail, next, state, mine>>
  BY DEF IInv, Typed, Entering, Runlock, list
<1>2. \A q \in Proc : pc[q] \notin Locking
  <2>1. \A q \in Proc : pc[q] \notin Walking \cup {"full", "corrupt"}
    BY DEF Runlock, Entering, Unlocked
  <2> QED
    BY <2>1 DEF Walking, Locking
<1>3. readers > 0 /\ readers' = readers - 1
  BY RunlockInv
<1>4. ~writer
  BY <1>1, <1>3 DEF PlainInv, OneWriter
<1>5. Chained'
  BY <1>1, SameChain DEF PlainInv, list
<1>6. CASE (readers > 1 \/ head = None) /\ pc' = [pc EXCEPT ![p] = "out"] /\ at' = at
  <2>1. Places'
    BY <1>1, <1>2, <1>6 DEF PlainInv, Places, Locking
  <2>2. \A q \in Proc : Writes(q)' <=> Writes(q)
    BY <1>1, <1>6 DEF Writes, Taken
  <2>3. OneWriter'
    BY <1>1, <1>2, <1>4, <1>6, <2>2 DEF PlainInv, OneWriter, Locking
  <2>4. Behind'
    <3>1. CASE readers > 1
      BY <1>1, <1>3, <3>1 DEF Behind
    <3>2. CASE head = None
      BY <1>1, <3>2, HeadQueued DEF PlainInv, Behind
    <3> QED
      BY <1>6, <3>1, <3>2
  <2> QED
    BY <1>5, <2>1, <2>3, <2>4 DEF PlainInv
<1>7. CASE readers = 1 /\ head # None /\ pc' = [pc EXCEPT ![p] = "walk"] /\ at' = [at EXCEPT ![p] = head]
  <2>1. Places'
    BY <1>1, <1>2, <1>7 DEF PlainInv, Places, Locking
  <2>2. \A q \in Proc : Writes(q)' <=> Writes(q)
    BY <1>1, <1>7 DEF Writes, Taken
  <2>3. OneWriter'
    BY <1>1, <1>2, <1>3, <1>4, <1>7, <2>2 DEF PlainInv, OneWriter, Locking
  <2>4. pc'[p] = "walk"
    BY <1>1, <1>7
  <2>5. Behind'
    BY <2>4 DEF Behind
  <2> QED
    BY <1>5, <2>1, <2>3, <2>5 DEF PlainInv
<1> QED
  BY <1>1, <1>3, <1>6, <1>7 DEF Runlock, Goto

(* The writer leaves, or starts the next one. *)
LEMMA PlainWunlock ==
  ASSUME IInv, PlainInv, NEW p \in Proc, Wunlock(p)
  PROVE  PlainInv'
<1>1. /\ pc \in [Proc -> PCs] /\ at \in [Proc -> Entry] /\ readers \in Nat /\ pc[p] = "wcs"
      /\ UNCHANGED <<readers, head, tail, next, state, mine>>
  BY DEF IInv, Typed, Entering, Wunlock, list
<1>2. \A q \in Proc : pc[q] \notin Locking
  <2>1. \A q \in Proc : pc[q] \notin Walking \cup {"full", "corrupt"}
    BY DEF Wunlock, Entering, Unlocked
  <2> QED
    BY <2>1 DEF Walking, Locking
<1>3. Writes(p)
  BY <1>1 DEF Writes
<1>4. writer /\ readers = 0 /\ \A q \in Proc : Writes(q) => q = p
  BY <1>3 DEF PlainInv, OneWriter
<1>5. Chained'
  BY <1>1, SameChain DEF PlainInv, list
<1>6. CASE head = None /\ writer' = FALSE /\ pc' = [pc EXCEPT ![p] = "out"] /\ at' = at
  <2>1. Places'
    BY <1>1, <1>2, <1>6 DEF PlainInv, Places, Locking
  <2>2. \A q \in Proc : ~Writes(q)'
    <3>1. mine[p] = None
      BY <1>1 DEF IInv, Waits, Owning, Waiting
    <3> QED
      BY <1>1, <1>4, <1>6, <3>1 DEF Writes, Taken
  <2>3. OneWriter'
    BY <1>1, <1>2, <1>4, <1>6, <2>2 DEF OneWriter, Locking
  <2>4. Behind'
    BY <1>1, <1>6, HeadQueued DEF PlainInv, Behind
  <2> QED
    BY <1>5, <2>1, <2>3, <2>4 DEF PlainInv
<1>7. CASE head # None /\ pc' = [pc EXCEPT ![p] = "walkw"] /\ at' = [at EXCEPT ![p] = head]
           /\ writer' = writer
  <2>1. Places'
    BY <1>1, <1>2, <1>7 DEF PlainInv, Places, Locking
  <2>2. \A q \in Proc : Writes(q)' <=> q = p
    BY <1>1, <1>3, <1>4, <1>7 DEF Writes, Taken
  <2>3. OneWriter'
    BY <1>1, <1>2, <1>4, <1>7, <2>2 DEF OneWriter, Locking
  <2>4. Behind'
    BY <1>4, <1>7 DEF Behind
  <2> QED
    BY <1>5, <2>1, <2>3, <2>4 DEF PlainInv
<1> QED
  BY <1>4, <1>6, <1>7 DEF Wunlock, Goto

(* Whoever walks the list starts the writer at its head: in the same step  *)
(* it stops to count as the writer, if it did, and the other begins to.    *)
LEMMA PlainStartWriter ==
  ASSUME IInv, PlainInv, NEW p \in Proc, pc[p] \in {"walk", "walkw"}, StartWriter(p, at[p]),
         writer' = TRUE
  PROVE  PlainInv'
<1>1. /\ pc \in [Proc -> PCs] /\ mine \in [Proc -> Entry] /\ state \in [QLp -> States]
      /\ at \in [Proc -> Entry]
  BY DEF IInv, Typed
<1>2. at[p] = head /\ head # None /\ head \in QLp /\ state[head] = "QueuingW"
  BY HeadQueued DEF PlainInv, Places
<1>3. /\ state' = [state EXCEPT ![head] = "Done"] /\ head' = next[head]
      /\ tail' = (IF next[head] = None THEN None ELSE tail)
      /\ at' = [at EXCEPT ![p] = None] /\ pc' = [pc EXCEPT ![p] = "wake"]
      /\ UNCHANGED <<readers, next, mine>>
  BY <1>2 DEF StartWriter, SetState, Goto
<1>4. PICK w \in Proc : mine[w] = head
  BY <1>2 DEF IInv, Waits
<1>5. w # p /\ mine[p] = None
  BY <1>2, <1>4 DEF IInv, Waits, Owning, Waiting
<1>6. Chained'
  BY <1>1, <1>2, <1>3, TailChain DEF PlainInv
<1>7. \A q \in Proc : q # p => pc[q] \notin Locking /\ pc'[q] = pc[q]
  BY <1>1, <1>3 DEF PlainInv, Places, Locking
<1>8. pc'[p] = "wake"
  BY <1>1, <1>3
<1>9. Places'
  <2>1. (\A q \in Proc : pc[q] \in {"out", "rcs", "wcs", "waitw", "gotw", "wake", "failed"}
                                   \cup Locking)'
    BY <1>7, <1>8 DEF PlainInv, Places
  <2>2. (\A e \in QLp : state[e] \in {"Free", "QueuingW", "Done"})'
    BY <1>1, <1>3 DEF PlainInv, Places
  <2>3. \A q \in Proc : pc'[q] \notin Locking
    BY <1>7, <1>8 DEF Locking
  <2> QED
    BY <2>1, <2>2, <2>3 DEF Places, Locking
<1>10. \A q \in Proc : q # p => ~Writes(q)
  BY DEF PlainInv, OneWriter, Writes
<1>11. readers = 0
  <2>1. pc[p] = "walkw" => Writes(p)
    BY DEF Writes
  <2> QED
    BY <2>1 DEF PlainInv, OneWriter
<1>12. \A q \in Proc : mine[q] # None /\ q # w => mine[q] \in QLp /\ state'[mine[q]] = state[mine[q]]
  BY <1>1, <1>3, <1>4, WriterEntry DEF IInv, Waits
<1>13. Writes(w)'
  BY <1>1, <1>2, <1>3, <1>4 DEF Writes, Taken
<1>14. \A q \in Proc : q # w => ~Writes(q)'
  BY <1>3, <1>5, <1>7, <1>8, <1>10, <1>12 DEF Writes, Taken
<1>15. OneWriter'
  BY <1>3, <1>7, <1>8, <1>11, <1>13, <1>14 DEF OneWriter, Locking
<1>16. Behind'
  BY <1>3 DEF Behind
<1> QED
  BY <1>6, <1>9, <1>15, <1>16 DEF PlainInv

(* A walk finds a queued writer at once. *)
LEMMA PlainWalk ==
  ASSUME IInv, PlainInv, NEW p \in Proc, RunlockWalk(p) \/ WunlockWriter(p)
  PROVE  PlainInv'
<1>1. pc[p] \in {"walk", "walkw"}
  BY DEF RunlockWalk, WunlockWriter
<1>2. at[p] # None /\ state[at[p]] = "QueuingW"
  BY <1>1, HeadQueued DEF PlainInv, Places
<1>3. StartWriter(p, at[p]) /\ (writer' = TRUE \/ (pc[p] = "walkw" /\ writer' = writer))
  BY <1>2 DEF RunlockWalk, WunlockWriter, Skip
<1>4. pc[p] = "walkw" => writer = TRUE
  BY DEF PlainInv, OneWriter, Writes, IInv, Typed
<1> QED
  BY <1>1, <1>3, <1>4, PlainStartWriter

(* A rendezvous changes nobody's entry. *)
LEMMA PlainRendezvous ==
  ASSUME IInv, PlainInv, NEW p \in Proc, NEW w \in Proc, Rendezvous(p, w)
  PROVE  /\ PlainInv'
         /\ UNCHANGED <<readers, state, mine>>
         /\ \A q \in Proc : \/ pc'[q] = pc[q]
                            \/ pc[q] = "wake" /\ pc'[q] = "out"
                            \/ pc[q] = "waitw" /\ pc'[q] = "gotw"
<1>1. UNCHANGED <<readers, writer, head, tail, next, state, mine, at>>
  BY DEF Rendezvous, list
<1>2. \A q \in Proc : q \notin {p, w} => pc'[q] = pc[q]
  BY RendezvousMoves DEF IInv
<1>3. \A q \in {p, w} : pc'[q] = pc[q] \/ pc'[q] = Back(q)
  BY RendezvousMoves DEF IInv
<1>4. \A q \in {p, w} : \/ pc[q] = "wake" /\ Back(q) = "out"
                        \/ pc[q] = "waker" /\ Back(q) = "more"
                        \/ pc[q] \in {"waitr", "waitrt"} /\ Back(q) = "gotr"
                        \/ pc[q] \in {"waitw", "waitwt"} /\ Back(q) = "gotw"
  BY RendezvousMoves DEF IInv
<1>5. \A q \in Proc : pc[q] \notin {"waker", "waitr", "waitrt", "waitwt"}
  BY DEF PlainInv, Places, Locking
<1>6. \A q \in Proc : \/ pc'[q] = pc[q]
                      \/ pc[q] = "wake" /\ pc'[q] = "out"
                      \/ pc[q] = "waitw" /\ pc'[q] = "gotw"
  BY <1>2, <1>3, <1>4, <1>5
<1>7. Chained'
  BY <1>1, SameChain DEF PlainInv, list
<1>8. Places'
  BY <1>1, <1>6 DEF PlainInv, Places, Locking
<1>9. \A q \in Proc : Writes(q)' <=> Writes(q)
  BY <1>1, <1>6 DEF Writes, Taken
<1>10. OneWriter'
  BY <1>1, <1>6, <1>9 DEF PlainInv, OneWriter
<1>11. Behind'
  BY <1>1, <1>6 DEF PlainInv, Behind
<1> QED
  BY <1>1, <1>6, <1>7, <1>8, <1>10, <1>11 DEF PlainInv

(* A writer back from its rendezvous goes on to write, or aborts. *)
LEMMA PlainGranted ==
  ASSUME IInv, PlainInv, NEW p \in Proc, Granted(p)
  PROVE  PlainInv'
<1>1. /\ pc \in [Proc -> PCs] /\ mine \in [Proc -> Entry] /\ state \in [QLp -> States]
  BY DEF IInv, Typed
<1>2. pc[p] = "gotw" /\ mine[p] \in QLp /\ mine[p] # None
  <2>1. pc[p] = "gotw"
    BY DEF Granted, PlainInv, Places, Locking
  <2>2. mine[p] # None
    BY <2>1 DEF IInv, Waits, Owning
  <2> QED
    BY <2>1, <2>2, WriterEntry
<1>3. UNCHANGED <<readers, writer, head, tail, next, at>>
  BY DEF Granted, list
<1>4. CASE state[mine[p]] = "Done"
  <2>1. /\ state' = [state EXCEPT ![mine[p]] = "Free"] /\ pc' = [pc EXCEPT ![p] = "wcs"]
        /\ mine' = [mine EXCEPT ![p] = None]
    BY <1>2, <1>4 DEF Granted, SetState, Goto
  <2>2. \A e \in QLp : state'[e] = "QueuingW" <=> state[e] = "QueuingW"
    BY <1>1, <1>2, <1>4, <2>1
  <2>3. Chained'
    BY <1>3, <2>2, SameChain DEF PlainInv, list
  <2>4. pc'[p] = "wcs" /\ \A q \in Proc : q # p => pc'[q] = pc[q] /\ mine'[q] = mine[q]
    BY <1>1, <2>1
  <2>5. (\A e \in QLp : state[e] \in {"Free", "QueuingW", "Done"})'
    BY <1>1, <2>1 DEF PlainInv, Places
  <2>6. Places'
    BY <1>3, <2>4, <2>5 DEF PlainInv, Places, Locking
  <2>7. \A q \in Proc : mine[q] # None /\ q # p => state'[mine[q]] = state[mine[q]]
    <3>1. \A q \in Proc : mine[q] # None /\ q # p => mine[q] \in QLp /\ mine[q] # mine[p]
      BY <1>2, WriterEntry DEF IInv, Waits
    <3> QED
      BY <1>1, <1>2, <2>1, <3>1
  <2>8. \A q \in Proc : Writes(q)' <=> Writes(q)
    BY <1>2, <1>4, <2>4, <2>7 DEF Writes, Taken
  <2>9. OneWriter'
    BY <1>2, <1>3, <2>4, <2>8 DEF PlainInv, OneWriter
  <2>10. Behind'
    BY <1>2, <1>3, <2>2, <2>4 DEF PlainInv, Behind
  <2> QED
    BY <2>3, <2>6, <2>9, <2>10 DEF PlainInv
<1>5. CASE state[mine[p]] # "Done"
  <2>1. pc' = [pc EXCEPT ![p] = "failed"] /\ UNCHANGED <<state, mine>>
    BY <1>5 DEF Granted, Goto
  <2>2. pc'[p] = "failed" /\ \A q \in Proc : q # p => pc'[q] = pc[q]
    BY <1>1, <2>1
  <2>3. Chained'
    BY <1>3, <2>1, SameChain DEF PlainInv, list
  <2>4. Places'
    BY <1>2, <1>3, <2>1, <2>2 DEF PlainInv, Places, Locking
  <2>5. \A q \in Proc : Writes(q)' <=> Writes(q)
    BY <1>2, <2>1, <2>2 DEF Writes, Taken
  <2>6. OneWriter'
    BY <1>2, <1>3, <2>2, <2>5 DEF PlainInv, OneWriter
  <2>7. Behind'
    BY <1>2, <1>3, <2>1, <2>2 DEF PlainInv, Behind
  <2> QED
    BY <2>3, <2>4, <2>6, <2>7 DEF PlainInv
<1> QED
  BY <1>4, <1>5

(* What a Plain program calls. *)
LEMMA PlainCalls ==
  ASSUME Plain, NEW p \in Proc, Call(p)
  PROVE  /\ Entering(p, "out")
         /\ TakeR(p) \/ TakeW(p) \/ (~CanWrite /\ Enqueue(p, "QueuingW", "waitw"))
<1>1. /\ "rlock" \notin program[p] /\ "rlockt" \notin program[p] /\ "wlockt" \notin program[p]
  BY DEF Plain
<1> QED
  BY <1>1 DEF Call, Canrlock, Wlock, Canwlock

(* Every step of a Plain program keeps PlainInv. *)
LEMMA PlainNext ==
  ASSUME IsFiniteSet(Proc), IInv, Plain, PlainInv, [Next]_vars
  PROVE  PlainInv'
<1>1. CASE UNCHANGED vars
  <2>1. UNCHANGED <<readers, writer, head, tail, next, state, pc, mine, at>>
    BY <1>1 DEF vars, list, locals
  <2>2. Chained'
    BY <2>1, SameChain DEF PlainInv, list
  <2> QED
    BY <2>1, <2>2 DEF PlainInv, Places, OneWriter, Writes, Taken, Behind
<1>2. ASSUME NEW p \in Proc, Call(p) PROVE PlainInv'
  BY <1>2, PlainCalls, PlainTakeR, PlainTakeW, PlainEnqueue
<1>3. ASSUME NEW p \in Proc
      PROVE  ~WunlockReader(p) /\ ~WunlockRelock(p) /\ ~RlocktTimeout(p) /\ ~WlocktTimeout(p)
  <2>1. pc[p] \in {"out", "rcs", "wcs", "waitw", "gotw", "wake", "failed", "walk", "walkw", "full"}
    BY DEF PlainInv, Places, Locking
  <2> QED
    BY <2>1 DEF WunlockReader, WunlockRelock, Entering, RlocktTimeout, WlocktTimeout
<1>4. ASSUME NEW p \in Proc, Run(p), torn' = torn PROVE PlainInv'
  BY <1>3, <1>4, PlainRunlock, PlainWalk, PlainWunlock, PlainGranted DEF Run
<1> QED
  BY <1>1, <1>2, <1>3, <1>4, PlainRendezvous DEF Next, Proceed

(* A program stays what it is. *)
LEMMA ProgramFixed ==
  ASSUME [Next]_vars
  PROVE  program' = program
<1>1. ASSUME NEW p \in Proc, Call(p) PROVE program' = program
  BY <1>1 DEF Call, Rlock, Canrlock, Wlock, Canwlock, TakeR, TakeW, Enqueue
<1>2. ASSUME NEW p \in Proc, Proceed(p) PROVE program' = program
  BY <1>2 DEF Proceed, Run, Runlock, RunlockWalk, Wunlock, WunlockWriter, WunlockReader, WunlockRelock,
              Granted, Rendezvous, StartWriter, StartReader, Skip, Corrupt, Switch, WunlockEnd
<1>3. ASSUME NEW p \in Proc, RlocktTimeout(p) \/ WlocktTimeout(p) PROVE program' = program
  BY <1>3 DEF RlocktTimeout, WlocktTimeout, Timeout
<1> QED
  BY <1>1, <1>2, <1>3 DEF Next, vars

(* PlainInv holds of every behaviour of a Plain program. *)
THEOREM PlainInvariance ==
  ASSUME IsFiniteSet(Proc)
  PROVE  Spec => [](IInv /\ (Plain => PlainInv))
<1>1. Init => IInv /\ (Plain => PlainInv)
  <2> SUFFICES ASSUME Init PROVE PlainInv
    BY InitInv
  <2>1. Chained
    <3> DEFINE s == [i \in 1..0 |-> None]
    <3>1. s \in [1..0 -> QLp] /\ 0 \in Nat
      OBVIOUS
    <3>2. Chain(0, s)
      BY DEF Init, Chain
    <3> QED
      BY <3>1, <3>2 DEF Chained
  <2>2. Places /\ OneWriter /\ Behind
    BY DEF Init, Places, Locking, OneWriter, Writes, Taken, Behind
  <2> QED
    BY <2>1, <2>2 DEF PlainInv
<1>2. IInv /\ (Plain => PlainInv) /\ [Next]_vars => (IInv /\ (Plain => PlainInv))'
  <2> SUFFICES ASSUME IInv, Plain => PlainInv, [Next]_vars PROVE IInv' /\ (Plain' => PlainInv')
    OBVIOUS
  <2>1. Plain' => Plain
    BY ProgramFixed DEF Plain
  <2> QED
    BY <2>1, NextInv, PlainNext
<1> QED
  BY <1>1, <1>2, PTL DEF Spec

(* The readers are counted exactly by every step of a Plain program. *)
LEMMA PlainCountNext ==
  ASSUME IsFiniteSet(Proc), IInv, Plain, PlainInv, PlainCount, [Next]_vars
  PROVE  PlainCount'
<1>1. pc \in [Proc -> PCs] /\ readers \in Nat
  BY DEF IInv, Typed
<1>2. IsFiniteSet(Reads) /\ Cardinality(Reads) \in Nat
  BY FS_Subset, FS_CardinalityType, Reads \subseteq Proc DEF Reads
<1>3. ASSUME readers' = readers, \A q \in Proc : pc'[q] = "rcs" <=> pc[q] = "rcs"
      PROVE  PlainCount'
  BY <1>3 DEF PlainCount, Reads
<1>4. ASSUME NEW p \in Proc, NEW to, pc[p] # "rcs", to # "rcs", Goto(p, to), readers' = readers
      PROVE  PlainCount'
  BY <1>1, <1>3, <1>4 DEF Goto
<1>5. ASSUME NEW p \in Proc, Call(p) PROVE PlainCount'
  <2>1. pc[p] = "out"
    BY <1>5, PlainCalls DEF Entering
  <2>2. CASE TakeR(p)
    <3>1. pc' = [pc EXCEPT ![p] = "rcs"] /\ readers' = readers + 1
      BY <2>2 DEF TakeR, Goto
    <3>2. Reads' = Reads \cup {p} /\ p \notin Reads
      BY <1>1, <2>1, <3>1 DEF Reads
    <3>3. Cardinality(Reads') = Cardinality(Reads) + 1
      BY <1>2, <3>2, FS_AddElement
    <3> QED
      BY <3>1, <3>3 DEF PlainCount
  <2>3. CASE TakeW(p) \/ Enqueue(p, "QueuingW", "waitw")
    BY <1>4, <2>1, <2>3 DEF TakeW, Enqueue
  <2> QED
    BY <1>5, <2>2, <2>3, PlainCalls
<1>6. ASSUME NEW p \in Proc, Runlock(p), torn' = torn PROVE PlainCount'
  <2>1. pc[p] = "rcs" /\ readers > 0 /\ readers' = readers - 1
    BY <1>6, RunlockInv DEF Runlock, Entering
  <2>2. PICK to \in {"out", "walk"} : pc' = [pc EXCEPT ![p] = to]
    BY <1>1, <1>6, <2>1 DEF Runlock, Goto
  <2>3. Reads' = Reads \ {p} /\ p \in Reads
    BY <1>1, <2>1, <2>2 DEF Reads
  <2>4. Cardinality(Reads') = Cardinality(Reads) - 1
    BY <1>2, <2>3, FS_RemoveElement
  <2> QED
    BY <2>1, <2>4 DEF PlainCount
<1>7. ASSUME NEW p \in Proc, Wunlock(p) \/ Granted(p) PROVE PlainCount'
  <2>1. pc[p] \in {"wcs", "gotw"} /\ readers' = readers
    BY <1>7 DEF Wunlock, Entering, Granted, PlainInv, Places, Locking
  <2>2. \E to \in {"out", "walkw", "corrupt", "wcs", "failed"} : Goto(p, to)
    BY <1>7, <2>1 DEF Wunlock, Entering, Granted
  <2> QED
    BY <1>4, <2>1, <2>2
<1>8. ASSUME NEW p \in Proc, RunlockWalk(p) \/ WunlockWriter(p) PROVE PlainCount'
  <2>1. pc[p] \in {"walk", "walkw"}
    BY <1>8 DEF RunlockWalk, WunlockWriter
  <2>2. at[p] # None /\ state[at[p]] = "QueuingW"
    BY <2>1, HeadQueued DEF PlainInv, Places
  <2>3. StartWriter(p, at[p])
    BY <1>8, <2>2 DEF RunlockWalk, WunlockWriter, Skip
  <2> QED
    BY <1>4, <2>1, <2>3 DEF StartWriter
<1>9. ASSUME NEW p \in Proc, NEW w \in Proc, Rendezvous(p, w) PROVE PlainCount'
  BY <1>3, <1>9, PlainRendezvous
<1>10. ASSUME NEW p \in Proc
       PROVE  ~WunlockReader(p) /\ ~WunlockRelock(p) /\ ~RlocktTimeout(p) /\ ~WlocktTimeout(p)
  <2>1. pc[p] \notin {"walkr", "more", "waitrt", "waitwt"}
    BY DEF PlainInv, Places, Locking
  <2> QED
    BY <2>1 DEF WunlockReader, WunlockRelock, Entering, RlocktTimeout, WlocktTimeout
<1>11. CASE UNCHANGED vars
  BY <1>3, <1>11 DEF vars
<1>12. CASE Next
  BY <1>5, <1>6, <1>7, <1>8, <1>9, <1>10, <1>12 DEF Next, Proceed, Run
<1> QED
  BY <1>11, <1>12

(* In a Plain program q->_readers is the number of processes that read     *)
(* (qlock.c:388, 405), torn rendezvous or not.                             *)
THEOREM RWLockPlainCount ==
  ASSUME IsFiniteSet(Proc)
  PROVE  Spec => [](Plain => PlainCount)
<1>1. Init => PlainCount
  <2> SUFFICES ASSUME Init PROVE PlainCount
    OBVIOUS
  <2>1. Reads = {} /\ readers = 0
    BY DEF Init, Reads
  <2> QED
    BY <2>1, FS_EmptySet DEF PlainCount
<1>2. IInv /\ (Plain => PlainInv) /\ (Plain => PlainCount) /\ [Next]_vars => (Plain => PlainCount)'
  <2> SUFFICES ASSUME IInv, Plain => PlainInv, Plain => PlainCount, [Next]_vars, Plain'
               PROVE  PlainCount'
    OBVIOUS
  <2>1. Plain
    BY ProgramFixed DEF Plain
  <2> QED
    BY <2>1, PlainCountNext
<1> QED
  BY <1>1, <1>2, PlainInvariance, PTL DEF Spec

(* One writer or many readers (qlock.c:295-629), in a program in which     *)
(* only writers queue.                                                     *)
THEOREM RWLockExclusion ==
  ASSUME IsFiniteSet(Proc)
  PROVE  Spec => []Exclusion
<1>1. IInv /\ (Plain => PlainInv) => Exclusion
  <2> SUFFICES ASSUME IInv, PlainInv
               PROVE  Cardinality(Writers) <= 1 /\ (Writers # {} => Readers = {} /\ writer)
    BY DEF Exclusion
  <2>1. \A p \in Writers : p \in Proc /\ Writes(p)
    <3> SUFFICES ASSUME NEW p \in Writers PROVE p \in Proc /\ Writes(p)
      OBVIOUS
    <3>1. p \in Proc /\ (pc[p] = "wcs" \/ LetIn(p))
      BY DEF Writers
    <3>2. LetIn(p) => Taken(p)
      BY <3>1 DEF LetIn, Taken, IInv, Waits, Owning
    <3> QED
      BY <3>1, <3>2 DEF Writes
  <2>2. \A p, q \in Writers : p = q
    BY <2>1 DEF PlainInv, OneWriter
  <2>3. CASE Writers = {}
    BY <2>3, FS_EmptySet
  <2>4. CASE Writers # {}
    <3>1. PICK p \in Writers : TRUE
      BY <2>4
    <3>2. Writers = {p}
      BY <2>2, <3>1
    <3>3. Cardinality(Writers) = 1
      BY <3>2, FS_Singleton
    <3>4. writer /\ readers = 0
      BY <2>1, <3>1 DEF PlainInv, OneWriter
    <3>5. Readers = {}
      BY <3>4, ReadersFinite, FS_EmptySet DEF IInv, Typed, ReadersCounted
    <3> QED
      BY <3>3, <3>4, <3>5
  <2> QED
    BY <2>3, <2>4
<1> QED
  BY <1>1, PlainInvariance, PTL

(* In such a program nobody stays queued on a free lock: whoever frees it  *)
(* has let in the writer at the head (runlock, qlock.c:405-437, wunlock,   *)
(* qlock.c:550-622).                                                       *)
THEOREM RWLockNoneForgotten ==
  ASSUME IsFiniteSet(Proc)
  PROVE  Spec => []NoneForgotten
<1>1. IInv /\ (Plain => PlainInv) => NoneForgotten
  <2> SUFFICES ASSUME IInv, PlainInv, Unlocked, CanWrite, NEW p \in Proc, pc[p] \in Waiting
               PROVE  LetIn(p)
    BY DEF NoneForgotten
  <2>1. mine[p] # None
    BY DEF IInv, Waits, Owning
  <2>2. \A q \in Proc : pc[q] # "walk"
    BY DEF Unlocked, Walking
  <2>3. \A e \in QLp : state[e] # "QueuingW"
    BY <2>2 DEF PlainInv, Behind, CanWrite
  <2>4. state[mine[p]] = "Done"
    BY <2>1, <2>3, WriterEntry
  <2> QED
    BY <2>4 DEF LetIn
<1> QED
  BY <1>1, PlainInvariance, PTL

(* In such a program the comment of runlock that a walked entry is neither *)
(* Done nor Free (qlock.c:415-417) holds, although it does not in general. *)
THEOREM RWLockPlainWalk ==
  ASSUME IsFiniteSet(Proc)
  PROVE  Spec => [](Plain => WalkedNotDone)
<1>1. IInv /\ (Plain => PlainInv) => (Plain => WalkedNotDone)
  BY HeadQueued DEF PlainInv, Places, WalkedNotDone
<1> QED
  BY <1>1, PlainInvariance, PTL
-----------------------------------------------------------------------------
(* Each entry that is not free has an owner, which is not the process that *)
(* asks for one: with more entries than processes getqlp finds one.        *)
LEMMA EnoughEntries ==
  ASSUME IsFiniteSet(Proc), IsFiniteSet(QLp), Cardinality(QLp) > Cardinality(Proc),
         IInv, PlainInv, NEW p \in Proc, pc[p] = "out"
  PROVE  Cardinality(FreeEntries) > 1
<1> DEFINE Held == QLp \ FreeEntries
           f == [e \in Held |-> CHOOSE q \in Proc : mine[q] = e]
<1>1. \A e \in Held : e \in QLp /\ state[e] \in {"QueuingW", "Done"}
  BY DEF FreeEntries, PlainInv, Places
<1>2. \A e \in Held : \E q \in Proc : mine[q] = e
  BY <1>1 DEF IInv, Waits
<1>3. mine[p] = None
  BY DEF IInv, Waits, Owning, Waiting
<1>4. \A e \in Held : f[e] \in Proc /\ mine[f[e]] = e
  BY <1>2
<1>5. \A e \in Held : f[e] # p
  BY <1>1, <1>3, <1>4, UserRWLockAssumption
<1>6. f \in [Held -> Proc \ {p}]
  BY <1>4, <1>5
<1>7. f \in Injection(Held, Proc \ {p})
  <2> HIDE DEF f
  <2> QED
    BY <1>4, <1>6 DEF Injection, IsInjective
<1>8. /\ IsFiniteSet(Proc \ {p}) /\ Cardinality(Proc \ {p}) = Cardinality(Proc) - 1
      /\ Cardinality(Proc) \in Nat /\ Cardinality(QLp) \in Nat
  BY FS_RemoveElement, FS_CardinalityType
<1>9. Cardinality(Held) <= Cardinality(Proc) - 1
  <2> HIDE DEF f, Held
  <2> QED
    BY <1>7, <1>8, FS_Injection
<1>10. Cardinality(Held) = Cardinality(QLp) - Cardinality(FreeEntries)
  <2>1. QLp \cap FreeEntries = FreeEntries
    BY DEF FreeEntries
  <2> QED
    BY <2>1, FS_Difference
<1>11. Cardinality(FreeEntries) \in Nat
  <2>1. FreeEntries \in SUBSET QLp
    BY DEF FreeEntries
  <2>2. IsFiniteSet(FreeEntries)
    BY <2>1, FS_Subset
  <2> QED
    BY <2>2, FS_CardinalityType
<1> HIDE DEF Held
<1> QED
  BY <1>8, <1>9, <1>10, <1>11

(* The pool is not exhausted. *)
NotFull == \A p \in Proc : pc[p] # "full"

(* No step of a Plain program exhausts a pool with more entries than there *)
(* are processes.                                                          *)
LEMMA NotFullNext ==
  ASSUME IsFiniteSet(Proc), IsFiniteSet(QLp), Cardinality(QLp) > Cardinality(Proc),
         IInv, Plain, PlainInv, NotFull, [Next]_vars
  PROVE  NotFull'
<1>1. pc \in [Proc -> PCs]
  BY DEF IInv, Typed
<1>2. CASE UNCHANGED vars
  BY <1>2 DEF vars, NotFull
<1>3. ASSUME NEW p \in Proc, NEW to, to # "full", Goto(p, to) PROVE NotFull'
  BY <1>1, <1>3 DEF Goto, NotFull
<1>4. ASSUME NEW p \in Proc, Call(p) PROVE NotFull'
  <2>1. pc[p] = "out"
    BY <1>4, PlainCalls DEF Entering
  <2>2. ~(Cardinality(FreeEntries) <= 1)
    <3>1. Cardinality(FreeEntries) > 1
      BY <2>1, EnoughEntries
    <3>2. Cardinality(FreeEntries) \in Nat
      BY FS_Subset, FS_CardinalityType, FreeEntries \subseteq QLp DEF FreeEntries
    <3> QED
      BY <3>1, <3>2
  <2>3. Goto(p, "rcs") \/ Goto(p, "wcs") \/ Goto(p, "waitw")
    BY <1>4, <2>2, PlainCalls DEF TakeR, TakeW, Enqueue
  <2> QED
    BY <1>3, <2>3
<1>5. ASSUME NEW p \in Proc, NEW w \in Proc, Rendezvous(p, w) PROVE NotFull'
  BY <1>5, PlainRendezvous DEF NotFull
<1>6. ASSUME NEW p \in Proc, NEW e, Skip(p, e) PROVE NotFull'
  BY <1>6 DEF Skip, NotFull
<1>7. ASSUME NEW p \in Proc, Runlock(p) \/ Wunlock(p) \/ WunlockRelock(p) \/ Granted(p)
      PROVE  NotFull'
  BY <1>3, <1>7 DEF Runlock, Wunlock, WunlockRelock, Switch, Granted
<1>8. ASSUME NEW p \in Proc, RunlockWalk(p) \/ WunlockWriter(p) \/ WunlockReader(p)
      PROVE  NotFull'
  BY <1>3, <1>6, <1>8 DEF RunlockWalk, WunlockWriter, WunlockReader, Switch, Corrupt,
                          StartWriter, StartReader, WunlockEnd
<1>9. ASSUME NEW p \in Proc, RlocktTimeout(p) \/ WlocktTimeout(p) PROVE NotFull'
  BY <1>3, <1>9 DEF RlocktTimeout, WlocktTimeout, Timeout
<1> QED
  BY <1>2, <1>4, <1>5, <1>7, <1>8, <1>9 DEF Next, Proceed, Run

(* With a pool of more entries than there are processes such a program     *)
(* reaches no abort() and no failed assertion of qlock.c: not getqlp's,    *)
(* and none on the state of the lock or of an entry, but the one on the    *)
(* entry of a process met too early because a rendezvous was torn.         *)
THEOREM RWLockNoAbort ==
  ASSUME IsFiniteSet(Proc), IsFiniteSet(QLp), Cardinality(QLp) > Cardinality(Proc)
  PROVE  Spec => []NoAbort
<1>1. Init => (Plain => NotFull)
  BY DEF Init, NotFull
<1>2. IInv /\ (Plain => PlainInv) /\ (Plain => NotFull) /\ [Next]_vars => (Plain => NotFull)'
  <2> SUFFICES ASSUME IInv, Plain => PlainInv, Plain => NotFull, [Next]_vars, Plain'
               PROVE  NotFull'
    OBVIOUS
  <2>1. Plain
    BY ProgramFixed DEF Plain
  <2> QED
    BY <2>1, NotFullNext
<1>3. IInv /\ (Plain => PlainInv) /\ (Plain => NotFull) => NoAbort
  BY DEF NoAbort, NotFull, PlainInv, Places, Locking, Aborted, IInv, NoneFailed
<1> QED
  BY <1>1, <1>2, <1>3, PlainInvariance, PTL DEF Spec
-----------------------------------------------------------------------------
(***************************************************************************)
(* In a Plain program the lock implements RWMutex.  Its variables, for a   *)
(* Plain program, in terms of where the processes are:                     *)
(***************************************************************************)
Reading == {p \in Proc : pc[p] \in {"rcs", "walk"}}
Writing == {p \in Proc : Writes(p)}
WaitW == {p \in Proc : Queued(p)}

(* What the fields of the lock say of those who have it and those who      *)
(* wait: q->head whether anybody waits, q->writer and q->_readers whether  *)
(* anybody has the lock, who wait only behind somebody that has.           *)
LEMMA PlainOwners ==
  ASSUME IsFiniteSet(Proc), IInv, PlainInv, PlainCount
  PROVE  /\ head = None <=> WaitW = {}
         /\ writer <=> Writing # {}
         /\ \A p, q \in Writing : p = q
         /\ readers = 0 <=> \A p \in Proc : pc[p] # "rcs"
         /\ WaitW # {} => Reading \cup Writing # {}
<1>1. head = None <=> WaitW = {}
  <2>1. \A e \in QLp : state[e] = "QueuingW" => \E p \in WaitW : mine[p] = e
    <3> SUFFICES ASSUME NEW e \in QLp, state[e] = "QueuingW" PROVE \E p \in WaitW : mine[p] = e
      OBVIOUS
    <3>1. PICK p \in Proc : mine[p] = e
      BY DEF IInv, Waits
    <3> QED
      BY <3>1, UserRWLockAssumption DEF WaitW, Queued
  <2>2. \A p \in WaitW : mine[p] \in QLp /\ state[mine[p]] = "QueuingW"
    BY WriterEntry DEF WaitW, Queued
  <2> QED
    BY <2>1, <2>2, HeadQueued DEF PlainInv
<1>2. (writer <=> Writing # {}) /\ \A p, q \in Writing : p = q
  BY DEF PlainInv, OneWriter, Writing
<1>3. readers = 0 <=> \A p \in Proc : pc[p] # "rcs"
  <2>1. IsFiniteSet(Reads)
    BY FS_Subset, Reads \subseteq Proc DEF Reads
  <2> QED
    BY <2>1, FS_EmptySet DEF PlainCount, Reads
<1>4. WaitW # {} => Reading \cup Writing # {}
  <2> SUFFICES ASSUME NEW p \in WaitW PROVE Reading \cup Writing # {}
    OBVIOUS
  <2>1. mine[p] \in QLp /\ state[mine[p]] = "QueuingW"
    BY WriterEntry DEF WaitW, Queued
  <2>2. writer \/ readers > 0 \/ \E q \in Proc : pc[q] = "walk"
    BY <2>1 DEF PlainInv, Behind
  <2>3. readers > 0 => readers # 0
    BY DEF IInv, Typed
  <2> QED
    BY <1>2, <1>3, <2>2, <2>3 DEF Reading, Writing
<1> QED
  BY <1>1, <1>2, <1>3, <1>4

(* The variables of RWMutex in a Plain program, before and after a step. *)
PlainMap == /\ Abstract!holders = Reading \cup Writing
            /\ Abstract!waiting = WaitW
            /\ (IF Plain THEN {p \in Proc : pc[p] \in {"rcs", "walk"}} ELSE {}) = Reading
            /\ (IF Plain THEN {p \in Proc : pc[p] \in {"wcs", "walkw"} \/ Taken(p)} ELSE {}) = Writing
            /\ (IF Plain THEN {p \in Proc : Queued(p)} ELSE {}) = WaitW

(* Given the mapping, a step that changes nobody's place in RWMutex. *)
LEMMA PlainStutter ==
  ASSUME PlainMap, PlainMap', Reading' = Reading, Writing' = Writing, WaitW' = WaitW
  PROVE  UNCHANGED Abstract!vars
BY DEF PlainMap, Abstract!vars

(* A process comes in. *)
LEMMA PlainEnterStep ==
  ASSUME IsFiniteSet(Proc), IInv, PlainInv, PlainCount, PlainMap, PlainMap',
         NEW p \in Proc, Entering(p, "out"), TakeR(p) \/ TakeW(p)
  PROVE  Abstract!Rlock(p) \/ Abstract!Wlock(p)
<1>1. pc \in [Proc -> PCs] /\ pc[p] = "out" /\ UNCHANGED <<state, mine>>
  BY DEF IInv, Typed, Entering, TakeR, TakeW, locals
<1>2. \A q \in Proc : pc[q] # "walk"
  <2>1. \A q \in Proc : pc[q] \notin Walking \cup {"full", "corrupt"}
    BY DEF Entering, Unlocked
  <2> QED
    BY <2>1 DEF Walking
<1>3. p \notin Reading /\ p \notin Writing /\ p \notin WaitW
  BY <1>1 DEF Reading, Writing, Writes, Taken, WaitW, Queued, IInv, Waits, Owning, Waiting
<1>4. CASE TakeR(p)
  <2>1. pc' = [pc EXCEPT ![p] = "rcs"] /\ ~writer /\ head = None
    BY <1>4 DEF TakeR, CanRead, Goto
  <2>2. Reading' = Reading \cup {p}
    BY <1>1, <2>1 DEF Reading
  <2>3. Writing' = Writing /\ WaitW' = WaitW
    BY <1>1, <2>1 DEF Writing, Writes, Taken, WaitW, Queued
  <2>4. Writing = {} /\ WaitW = {}
    BY <2>1, PlainOwners
  <2> QED
    BY <1>3, <2>2, <2>3, <2>4 DEF PlainMap, Abstract!Rlock, Abstract!Outside
<1>5. CASE TakeW(p)
  <2>1. pc' = [pc EXCEPT ![p] = "wcs"] /\ ~writer /\ readers = 0
    BY <1>5 DEF TakeW, CanWrite, Goto
  <2>2. Reading' = Reading /\ WaitW' = WaitW
    BY <1>1, <2>1 DEF Reading, WaitW, Queued
  <2>3. Writing' = Writing \cup {p}
    BY <1>1, <2>1 DEF Writing, Writes, Taken
  <2>4. Writing = {} /\ Reading = {}
    BY <1>2, <2>1, PlainOwners DEF Reading
  <2>5. WaitW = {}
    BY <2>4, PlainOwners
  <2> QED
    BY <1>3, <2>2, <2>3, <2>4, <2>5 DEF PlainMap, Abstract!Wlock, Abstract!Outside
<1> QED
  BY <1>4, <1>5

(* A writer queues, or finds the pool exhausted. *)
LEMMA PlainEnqueueStep ==
  ASSUME IsFiniteSet(Proc), IInv, PlainInv, PlainCount, PlainMap, PlainMap',
         NEW p \in Proc, Entering(p, "out"), ~CanWrite, Enqueue(p, "QueuingW", "waitw")
  PROVE  Abstract!Wlock(p) \/ UNCHANGED Abstract!vars
<1>1. /\ pc \in [Proc -> PCs] /\ pc[p] = "out" /\ state \in [QLp -> States]
      /\ mine \in [Proc -> Entry] /\ writer \in BOOLEAN
  BY DEF IInv, Typed, Entering
<1>2. CASE /\ Cardinality(FreeEntries) <= 1
           /\ Goto(p, "full")
           /\ UNCHANGED <<program, readers, writer, list, state, locals>>
  <2>1. pc' = [pc EXCEPT ![p] = "full"] /\ UNCHANGED <<state, mine>>
    BY <1>2 DEF Goto, locals
  <2>2. Reading' = Reading /\ Writing' = Writing /\ WaitW' = WaitW
    BY <1>1, <2>1 DEF Reading, Writing, Writes, Taken, WaitW, Queued
  <2> QED
    BY <2>2, PlainStutter
<1>3. ASSUME NEW e \in FreeEntries, SetState(e, "QueuingW"), mine' = [mine EXCEPT ![p] = e],
             Goto(p, "waitw")
      PROVE  Abstract!Wlock(p)
  <2>1. /\ e \in QLp /\ state[e] = "Free" /\ state' = [state EXCEPT ![e] = "QueuingW"]
        /\ pc' = [pc EXCEPT ![p] = "waitw"]
    BY <1>3 DEF FreeEntries, SetState, Goto
  <2>2. \A q \in Proc : mine[q] # None => mine[q] \in QLp /\ mine[q] # e
    BY <2>1, WriterEntry
  <2>3. \A q \in Proc : q # p => pc'[q] = pc[q] /\ mine'[q] = mine[q]
    BY <1>1, <1>3, <2>1
  <2>4. /\ pc'[p] = "waitw" /\ mine'[p] # None /\ state'[mine'[p]] = "QueuingW"
        /\ mine[p] = None
    BY <1>1, <1>3, <2>1, UserRWLockAssumption DEF IInv, Waits, Owning, Waiting
  <2>5. \A q \in Proc : q # p /\ mine[q] # None => state'[mine'[q]] = state[mine[q]]
    BY <1>1, <2>1, <2>2, <2>3
  <2>6. Reading' = Reading
    BY <1>1, <2>3, <2>4 DEF Reading
  <2>7. Writing' = Writing
    <3>1. \A q \in Proc : Writes(q)' <=> Writes(q)
      BY <1>1, <2>3, <2>4, <2>5 DEF Writes, Taken
    <3> QED
      BY <3>1 DEF Writing
  <2>8. WaitW' = WaitW \cup {p}
    <3>1. \A q \in Proc : Queued(q)' <=> Queued(q) \/ q = p
      BY <2>3, <2>4, <2>5 DEF Queued
    <3> QED
      BY <3>1 DEF WaitW
  <2>9. p \notin Reading /\ p \notin Writing /\ p \notin WaitW
    BY <1>1, <2>4 DEF Reading, Writing, Writes, Taken, WaitW, Queued
  <2>10. Reading \cup Writing # {}
    BY PlainOwners DEF CanWrite, Reading
  <2> QED
    BY <2>6, <2>7, <2>8, <2>9, <2>10 DEF PlainMap, Abstract!Wlock, Abstract!Outside
<1> QED
  BY <1>2, <1>3 DEF Enqueue

(* A reader leaves, or keeps the lock while it looks for a writer. *)
LEMMA PlainRunlockStep ==
  ASSUME IsFiniteSet(Proc), IInv, PlainInv, PlainCount, PlainMap, PlainMap', NEW p \in Proc, Runlock(p),
         torn' = torn
  PROVE  Abstract!Leave(p) \/ UNCHANGED Abstract!vars
<1>1. /\ pc \in [Proc -> PCs] /\ readers \in Nat /\ pc[p] = "rcs" /\ UNCHANGED <<state, mine>>
  BY DEF IInv, Typed, Entering, Runlock
<1>2. readers > 0 /\ readers' = readers - 1
  BY RunlockInv
<1>3. p \in Reading /\ p \notin Writing
  BY <1>1 DEF Reading, Writing, Writes, Taken, IInv, Waits, Owning, Waiting
<1>4. CASE (readers > 1 \/ head = None) /\ pc' = [pc EXCEPT ![p] = "out"]
  <2>1. Reading' = Reading \ {p}
    BY <1>1, <1>4 DEF Reading
  <2>2. Writing' = Writing /\ WaitW' = WaitW
    BY <1>1, <1>4 DEF Writing, Writes, Taken, WaitW, Queued
  <2>3. CASE head = None
    BY <1>3, <2>1, <2>2, <2>3, PlainOwners DEF PlainMap, Abstract!Leave
  <2>4. CASE readers > 1
    <3>1. Reads = {p} => readers = 1
      BY FS_Singleton DEF PlainCount
    <3>2. p \in Reads
      BY <1>1 DEF Reads
    <3>3. PICK q \in Reads : q # p
      BY <1>1, <2>4, <3>1, <3>2
    <3>4. q \in Reading
      BY <3>3 DEF Reads, Reading
    <3> QED
      BY <1>3, <2>1, <2>2, <3>3, <3>4 DEF PlainMap, Abstract!Leave
  <2> QED
    BY <1>4, <2>3, <2>4
<1>5. CASE pc' = [pc EXCEPT ![p] = "walk"]
  <2>1. Reading' = Reading /\ Writing' = Writing /\ WaitW' = WaitW
    BY <1>1, <1>5 DEF Reading, Writing, Writes, Taken, WaitW, Queued
  <2> QED
    BY <2>1, PlainStutter
<1> QED
  BY <1>1, <1>2, <1>4, <1>5 DEF Runlock, Goto

(* A writer leaves, or keeps the lock while it looks for the next. *)
LEMMA PlainWunlockStep ==
  ASSUME IsFiniteSet(Proc), IInv, PlainInv, PlainCount, PlainMap, PlainMap', NEW p \in Proc, Wunlock(p)
  PROVE  Abstract!Leave(p) \/ UNCHANGED Abstract!vars
<1>1. pc \in [Proc -> PCs] /\ pc[p] = "wcs" /\ UNCHANGED <<state, mine>>
  BY DEF IInv, Typed, Entering, Wunlock
<1>2. p \in Writing /\ p \notin Reading
  BY <1>1 DEF Reading, Writing, Writes
<1>2a. mine[p] = None
  BY <1>1 DEF IInv, Waits, Owning, Waiting
<1>3. writer
  BY <1>2, PlainOwners
<1>4. CASE head = None /\ pc' = [pc EXCEPT ![p] = "out"]
  <2>1. Writing' = Writing \ {p}
    BY <1>1, <1>2a, <1>4 DEF Writing, Writes, Taken
  <2>2. Reading' = Reading /\ WaitW' = WaitW
    BY <1>1, <1>4 DEF Reading, WaitW, Queued
  <2> QED
    BY <1>2, <1>4, <2>1, <2>2, PlainOwners DEF PlainMap, Abstract!Leave
<1>5. CASE pc' = [pc EXCEPT ![p] = "walkw"]
  <2>1. Reading' = Reading /\ Writing' = Writing /\ WaitW' = WaitW
    BY <1>1, <1>5 DEF Reading, Writing, Writes, Taken, WaitW, Queued
  <2> QED
    BY <2>1, PlainStutter
<1> QED
  BY <1>3, <1>4, <1>5 DEF Wunlock, Goto

(* Whoever walks is the only one to have the lock, and passes it on. *)
LEMMA PlainWalkStep ==
  ASSUME IsFiniteSet(Proc), IInv, PlainInv, PlainCount, PlainMap, PlainMap',
         NEW p \in Proc, RunlockWalk(p) \/ WunlockWriter(p)
  PROVE  Abstract!PassOn(p)
<1>1. /\ pc \in [Proc -> PCs] /\ mine \in [Proc -> Entry] /\ state \in [QLp -> States]
      /\ pc[p] \in {"walk", "walkw"}
  BY DEF IInv, Typed, RunlockWalk, WunlockWriter
<1>2. at[p] = head /\ head # None /\ head \in QLp /\ state[head] = "QueuingW"
  BY <1>1, HeadQueued DEF PlainInv, Places
<1>3. StartWriter(p, head)
  BY <1>2 DEF RunlockWalk, WunlockWriter, Skip
<1>4. state' = [state EXCEPT ![head] = "Done"] /\ pc' = [pc EXCEPT ![p] = "wake"] /\ mine' = mine
  BY <1>3 DEF StartWriter, SetState, Goto
<1>5. PICK w \in Proc : mine[w] = head
  BY <1>2 DEF IInv, Waits
<1>6. w # p /\ mine[w] # None /\ mine[p] = None
  BY <1>1, <1>2, <1>5 DEF IInv, Waits, Owning, Waiting
<1>7. Reading \cup Writing = {p}
  <2>1. readers = 0 /\ \A q \in Proc : q # p => ~Writes(q) /\ pc[q] # "walk"
    <3>1. pc[p] = "walkw" => Writes(p)
      BY DEF Writes
    <3>2. readers = 0 /\ \A q \in Proc : q # p => ~Writes(q)
      BY <1>1, <3>1 DEF PlainInv, OneWriter
    <3>3. \A q \in Proc : q # p => pc[q] # "walk"
      BY <1>1 DEF PlainInv, Places, Locking
    <3> QED
      BY <3>2, <3>3
  <2>2. \A q \in Proc : pc[q] # "rcs"
    BY <2>1, PlainOwners
  <2>3. p \in Reading \cup Writing
    BY <1>1 DEF Reading, Writing, Writes
  <2> HIDE DEF Writes
  <2> QED
    BY <2>1, <2>2, <2>3 DEF Reading, Writing
<1>8. pc'[p] = "wake" /\ \A q \in Proc : q # p => pc'[q] = pc[q]
  BY <1>1, <1>4
<1>9. \A q \in Proc : mine[q] # None /\ q # w => state'[mine'[q]] = state[mine[q]]
  <2>1. \A q \in Proc : mine[q] # None /\ q # w => mine[q] \in QLp /\ mine[q] # head
    BY <1>5, WriterEntry DEF IInv, Waits
  <2> QED
    BY <1>1, <1>4, <2>1
<1>10. state'[mine'[w]] = "Done"
  BY <1>1, <1>2, <1>4, <1>5
<1>11. Reading' = {}
  BY <1>7, <1>8 DEF Reading
<1>12. Writing' = {w}
  <2>1. Writes(w)'
    BY <1>4, <1>6, <1>10 DEF Writes, Taken
  <2>2. \A q \in Proc : q # w /\ q # p => ~Writes(q)
    BY <1>7 DEF Writing
  <2>3. \A q \in Proc : q # w => ~Writes(q)'
    BY <1>4, <1>6, <1>8, <1>9, <2>2 DEF Writes, Taken
  <2> QED
    BY <2>1, <2>3 DEF Writing
<1>13. w \in WaitW /\ WaitW' = WaitW \ {w}
  <2>1. w \in WaitW
    BY <1>2, <1>5, <1>6 DEF WaitW, Queued
  <2>2. \A q \in Proc : q # w => (q \in WaitW' <=> q \in WaitW)
    BY <1>4, <1>9 DEF WaitW, Queued
  <2>3. w \notin WaitW'
    BY <1>10 DEF WaitW, Queued
  <2> QED
    BY <2>1, <2>2, <2>3 DEF WaitW
<1> QED
  BY <1>7, <1>11, <1>12, <1>13 DEF PlainMap, Abstract!PassOn

(* A writer comes out of its rendezvous, and writes or aborts. *)
LEMMA PlainMeetStep ==
  ASSUME IInv, PlainInv, PlainMap, PlainMap', NEW p \in Proc,
         Granted(p) \/ \E w \in Proc : Rendezvous(p, w)
  PROVE  UNCHANGED Abstract!vars
<1>1. /\ pc \in [Proc -> PCs] /\ mine \in [Proc -> Entry] /\ state \in [QLp -> States]
  BY DEF IInv, Typed
<1>2. CASE Granted(p)
  <2>1. pc[p] = "gotw"
    BY <1>2 DEF Granted, PlainInv, Places, Locking
  <2>2. mine[p] \in QLp /\ mine[p] # None
    <3>1. mine[p] # None
      BY <2>1 DEF IInv, Waits, Owning
    <3> QED
      BY <3>1, WriterEntry
  <2>3. CASE state[mine[p]] = "Done"
    <3>1. /\ state' = [state EXCEPT ![mine[p]] = "Free"] /\ pc' = [pc EXCEPT ![p] = "wcs"]
          /\ mine' = [mine EXCEPT ![p] = None]
      BY <1>2, <2>1, <2>3 DEF Granted, SetState, Goto
    <3>2. /\ pc'[p] = "wcs" /\ mine'[p] = None
          /\ \A q \in Proc : q # p => pc'[q] = pc[q] /\ mine'[q] = mine[q]
      BY <1>1, <3>1
    <3>3. \A q \in Proc : mine[q] # None /\ q # p => mine[q] \in QLp /\ mine[q] # mine[p]
      BY <2>2, WriterEntry DEF IInv, Waits
    <3>4. \A q \in Proc : mine[q] # None /\ q # p => state'[mine[q]] = state[mine[q]]
      BY <1>1, <2>2, <3>1, <3>3
    <3>5. Reading' = Reading
      BY <2>1, <3>2 DEF Reading
    <3>6. \A q \in Proc : (Writes(q)' <=> Writes(q)) /\ (Queued(q)' <=> Queued(q))
      BY <2>1, <2>2, <2>3, <3>2, <3>4 DEF Writes, Taken, Queued
    <3>7. Writing' = Writing /\ WaitW' = WaitW
      BY <3>6 DEF Writing, WaitW
    <3> QED
      BY <3>5, <3>7, PlainStutter
  <2>4. CASE state[mine[p]] # "Done"
    <3>1. pc' = [pc EXCEPT ![p] = "failed"] /\ UNCHANGED <<state, mine>>
      BY <1>2, <2>4 DEF Granted, Goto
    <3>2. Reading' = Reading /\ Writing' = Writing /\ WaitW' = WaitW
      BY <1>1, <2>1, <3>1 DEF Reading, Writing, Writes, Taken, WaitW, Queued
    <3> QED
      BY <3>2, PlainStutter
  <2> QED
    BY <2>3, <2>4
<1>3. ASSUME NEW w \in Proc, Rendezvous(p, w) PROVE UNCHANGED Abstract!vars
  <2>1. /\ UNCHANGED <<state, mine>>
        /\ \A q \in Proc : \/ pc'[q] = pc[q]
                           \/ pc[q] = "wake" /\ pc'[q] = "out"
                           \/ pc[q] = "waitw" /\ pc'[q] = "gotw"
    BY <1>3, PlainRendezvous
  <2>2. Reading' = Reading /\ Writing' = Writing /\ WaitW' = WaitW
    BY <2>1 DEF Reading, Writing, Writes, Taken, WaitW, Queued
  <2> QED
    BY <2>2, PlainStutter
<1> QED
  BY <1>2, <1>3

(* Every step of a Plain program is one of RWMutex, or none. *)
LEMMA PlainAbstractStep ==
  ASSUME IsFiniteSet(Proc), IInv, PlainInv, PlainCount, PlainMap, PlainMap', Plain, Next
  PROVE  [Abstract!Next]_(Abstract!vars)
<1>1. ASSUME NEW p \in Proc, Call(p) PROVE [Abstract!Next]_(Abstract!vars)
  BY <1>1, PlainCalls, PlainEnterStep, PlainEnqueueStep DEF Abstract!Next
<1>2. ASSUME NEW p \in Proc
      PROVE  ~WunlockReader(p) /\ ~WunlockRelock(p) /\ ~RlocktTimeout(p) /\ ~WlocktTimeout(p)
  <2>1. pc[p] \in {"out", "rcs", "wcs", "waitw", "gotw", "wake", "failed", "walk", "walkw", "full"}
    BY DEF PlainInv, Places, Locking
  <2> QED
    BY <2>1 DEF WunlockReader, WunlockRelock, Entering, RlocktTimeout, WlocktTimeout
<1>3. ASSUME NEW p \in Proc, Proceed(p) PROVE [Abstract!Next]_(Abstract!vars)
  BY <1>2, <1>3, PlainRunlockStep, PlainWunlockStep, PlainWalkStep, PlainMeetStep
     DEF Proceed, Run, Abstract!Next
<1> QED
  BY <1>1, <1>2, <1>3 DEF Next

(* In a program in which only writers queue the lock of qlock.c:295-629    *)
(* implements RWMutex: nobody is let in past a writer that waits, and the  *)
(* last reader or the writer that leaves passes the lock on, although the  *)
(* last reader is not counted any more when it looks for its successor.    *)
THEOREM RWLockImplementsRWMutex ==
  ASSUME IsFiniteSet(Proc)
  PROVE  Spec => ImplementsRWMutex
<1>1. Init => Abstract!Init
  BY DEF Init, Abstract!Init, Taken, Queued
<1>2. /\ IInv /\ (Plain => PlainInv) /\ (Plain => PlainCount) /\ [Next]_vars
      => [Abstract!Next]_(Abstract!vars)
  <2> SUFFICES ASSUME IInv, Plain => PlainInv, Plain => PlainCount, [Next]_vars
               PROVE  [Abstract!Next]_(Abstract!vars)
    OBVIOUS
  <2>1. Plain' <=> Plain
    BY ProgramFixed DEF Plain
  <2>2. CASE ~Plain
    BY <2>1, <2>2 DEF Abstract!vars
  <2>3. CASE Plain /\ UNCHANGED vars
    BY <2>3 DEF vars, locals, Abstract!vars, Plain, Taken, Queued
  <2>4. CASE Plain /\ Next
    <3>2. PlainMap
      BY <2>4 DEF PlainMap, Reading, Writing, Writes, WaitW, Abstract!holders, Abstract!waiting
    <3>3. PlainMap'
      BY <2>1, <2>4 DEF PlainMap, Reading, Writing, Writes, WaitW, Abstract!holders, Abstract!waiting
    <3> QED
      BY <2>4, <3>2, <3>3, PlainAbstractStep
  <2> QED
    BY <2>2, <2>3, <2>4
<1> QED
  BY <1>1, <1>2, PlainInvariance, RWLockPlainCount, PTL DEF Spec, ImplementsRWMutex, Abstract!Spec
-----------------------------------------------------------------------------
(***************************************************************************)
(* The part of NoStarvation that is safety: until a rendezvous is torn     *)
(* whoever was let in is about to be met, and the users of a Plain program *)
(* are never all asleep.                                                   *)
(***************************************************************************)

(* A process that was let in and still waits in its rendezvous is awaited  *)
(* in another by the unlock that let it in.                                *)
LetInMet == ~torn => \A w \in Proc : pc[w] \in Waiting /\ state[mine[w]] = "Done" =>
              \E p \in Proc : pc[p] \in {"wake", "waker"} /\ peer[p] = mine[w]

(* A step that starts nobody and meets nobody. *)
LEMMA LetInMetStep ==
  ASSUME LetInMet, torn' = torn,
         \A w \in Proc : pc'[w] \in Waiting /\ state'[mine'[w]] = "Done" =>
           pc[w] \in Waiting /\ mine'[w] = mine[w] /\ state[mine[w]] = "Done",
         \A q \in Proc : pc[q] \in {"wake", "waker"} => pc'[q] = pc[q] /\ peer'[q] = peer[q]
  PROVE  LetInMet'
BY DEF LetInMet

(* A step of a process that neither waits nor wakes, to a place where it   *)
(* does neither, in which no entry becomes Done.                           *)
LEMMA LetInMetQuiet ==
  ASSUME IInv, LetInMet, NEW p \in Proc, NEW to, pc[p] \in Neutral \cup {"rcs", "gotr", "gotw"},
         Goto(p, to), to \notin Waiting, UNCHANGED <<peer, torn>>,
         \A w \in Proc : w # p => mine'[w] = mine[w],
         \A e \in Entry : state'[e] = "Done" => state[e] = "Done"
  PROVE  LetInMet'
<1>1. pc \in [Proc -> PCs] /\ mine \in [Proc -> Entry]
  BY DEF IInv, Typed
<1>2. pc'[p] = to /\ \A q \in Proc : q # p => pc'[q] = pc[q]
  BY <1>1 DEF Goto
<1>3. \A w \in Proc : pc'[w] \in Waiting => w # p
  BY <1>2
<1>4. pc[p] \notin {"wake", "waker"}
  BY DEF Neutral
<1> QED
  BY <1>1, <1>2, <1>3, <1>4, LetInMetStep

(* An unlock lets a process in: it waits to meet it. *)
LEMMA LetInMetStart ==
  ASSUME IInv, LetInMet, NEW p \in Proc, pc[p] \in Walking, NEW e \in QLp,
         NEW to \in {"wake", "waker"}, Goto(p, to), SetState(e, "Done"),
         peer' = [peer EXCEPT ![p] = e], UNCHANGED <<mine, torn>>
  PROVE  LetInMet'
<1>1. /\ pc \in [Proc -> PCs] /\ mine \in [Proc -> Entry] /\ peer \in [Proc -> Entry]
      /\ state \in [QLp -> States]
  BY DEF IInv, Typed
<1>2. /\ pc'[p] = to /\ \A q \in Proc : q # p => pc'[q] = pc[q]
      /\ peer'[p] = e /\ \A q \in Proc : q # p => peer'[q] = peer[q]
  BY <1>1 DEF Goto
<1>3. state' = [state EXCEPT ![e] = "Done"]
  BY DEF SetState
<1> SUFFICES ASSUME ~torn, NEW w \in Proc, pc'[w] \in Waiting, state'[mine[w]] = "Done"
             PROVE  \E q \in Proc : pc'[q] \in {"wake", "waker"} /\ peer'[q] = mine[w]
  BY DEF LetInMet
<1>4. w # p /\ pc[w] \in Waiting
  BY <1>2 DEF Waiting
<1>5. CASE mine[w] = e
  BY <1>2, <1>5
<1>6. CASE mine[w] # e
  <2>1. mine[w] \in QLp
    BY <1>1, <1>4 DEF IInv, Waits, Owning, Entry
  <2>2. state[mine[w]] = "Done"
    BY <1>1, <1>3, <1>6, <2>1
  <2>3. PICK q \in Proc : pc[q] \in {"wake", "waker"} /\ peer[q] = mine[w]
    BY <1>4, <2>2 DEF LetInMet
  <2>4. q # p
    BY <2>3 DEF Walking
  <2> QED
    BY <1>2, <2>3, <2>4
<1> QED
  BY <1>5, <1>6

(* Who is met waits no more; the others are met by others. *)
LEMMA LetInMetRendezvous ==
  ASSUME IInv, LetInMet, NEW p \in Proc, NEW w \in Proc, Rendezvous(p, w)
  PROVE  LetInMet'
<1>1. UNCHANGED <<state, mine>>
  BY DEF Rendezvous
<1> SUFFICES ASSUME ~torn', NEW v \in Proc, pc'[v] \in Waiting, state[mine[v]] = "Done"
             PROVE  \E q \in Proc : pc'[q] \in {"wake", "waker"} /\ peer'[q] = mine[v]
  BY <1>1 DEF LetInMet
<1>2. PICK a, b \in {p, w} :
        /\ ~torn /\ a # b /\ pc[a] \in {"wake", "waker"} /\ pc[b] \in Waiting /\ mine[b] = peer[a]
        /\ pc'[a] \in {"out", "more"} /\ pc'[b] \in {"gotr", "gotw"}
  BY RendezvousPair
<1>3. \A q \in Proc : q \notin {p, w} => pc'[q] = pc[q] /\ peer'[q] = peer[q]
  BY RendezvousMoves DEF IInv
<1>4. v \notin {p, w} /\ pc[v] \in Waiting
  BY <1>2, <1>3 DEF Waiting
<1>5. PICK q \in Proc : pc[q] \in {"wake", "waker"} /\ peer[q] = mine[v]
  BY <1>2, <1>4 DEF LetInMet
<1>6. mine[v] # None /\ mine[v] # mine[b]
  BY <1>2, <1>4 DEF IInv, Waits, Owning
<1>7. q # a /\ q # b
  BY <1>2, <1>5, <1>6 DEF Waiting
<1>8. q \notin {p, w}
  BY <1>2, <1>7
<1> QED
  BY <1>3, <1>5, <1>8

(* A process that queues is not let in yet. *)
LEMMA LetInMetEnqueue ==
  ASSUME IInv, LetInMet, NEW p \in Proc, pc[p] = "out", NEW s \in {"QueuingR", "QueuingW"},
         NEW to \in Waiting, Enqueue(p, s, to), torn' = torn
  PROVE  LetInMet'
<1>1. /\ pc \in [Proc -> PCs] /\ mine \in [Proc -> Entry] /\ state \in [QLp -> States]
  BY DEF IInv, Typed
<1>2. CASE Goto(p, "full") /\ UNCHANGED <<program, readers, writer, list, state, locals>>
  BY <1>2, LetInMetQuiet DEF Neutral, Waiting, locals
<1>3. ASSUME NEW e \in FreeEntries, SetState(e, s), mine' = [mine EXCEPT ![p] = e], Goto(p, to),
             UNCHANGED peer
      PROVE  LetInMet'
  <2>1. /\ e \in QLp /\ state' = [state EXCEPT ![e] = s] /\ pc' = [pc EXCEPT ![p] = to]
    BY <1>3 DEF FreeEntries, SetState, Goto
  <2>2. mine'[p] = e /\ state'[e] # "Done" /\ state'[mine'[p]] # "Done"
    BY <1>1, <1>3, <2>1
  <2>3. \A q \in Proc : q # p => pc'[q] = pc[q] /\ mine'[q] = mine[q]
    BY <1>1, <1>3, <2>1
  <2>4. \A x \in QLp : state'[x] = "Done" => state[x] = "Done"
    BY <1>1, <2>1
  <2>5. \A q \in Proc : pc[q] \in Waiting => mine[q] \in QLp
    BY <1>1 DEF IInv, Waits, Owning, Entry
  <2> QED
    BY <1>3, <2>2, <2>3, <2>4, <2>5, LetInMetStep
<1> QED
  BY <1>2, <1>3 DEF Enqueue

(* Every step keeps LetInMet. *)
LEMMA LetInMetNext ==
  ASSUME IInv, LetInMet, [Next]_vars
  PROVE  LetInMet'
<1>0. state \in [QLp -> States] /\ mine \in [Proc -> Entry] /\ at \in [Proc -> Entry]
  BY DEF IInv, Typed
<1>1. CASE UNCHANGED vars
  BY <1>1 DEF vars, locals, LetInMet
<1>2. ASSUME NEW p \in Proc, Call(p), torn' = torn
      PROVE  LetInMet'
  <2>1. pc[p] = "out"
    BY <1>2 DEF Call, Rlock, Wlock, Canrlock, Canwlock, Entering
  <2>2. CASE TakeR(p) \/ TakeW(p)
    <3>1. (Goto(p, "rcs") \/ Goto(p, "wcs")) /\ UNCHANGED <<state, mine, peer>>
      BY <2>2 DEF TakeR, TakeW, locals
    <3> QED
      BY <1>2, <2>1, <3>1, LetInMetQuiet DEF Neutral, Waiting
  <2>3. CASE \/ Enqueue(p, "QueuingR", "waitr") \/ Enqueue(p, "QueuingR", "waitrt")
             \/ Enqueue(p, "QueuingW", "waitw") \/ Enqueue(p, "QueuingW", "waitwt")
    BY <1>2, <2>1, <2>3, LetInMetEnqueue DEF Waiting
  <2> QED
    BY <1>2, <2>2, <2>3 DEF Call, Rlock, Wlock, Canrlock, Canwlock
<1>3. ASSUME NEW p \in Proc, Runlock(p) \/ Wunlock(p) \/ WunlockRelock(p), torn' = torn
      PROVE  LetInMet'
  <2>1. pc[p] \in {"rcs", "wcs", "more"} /\ UNCHANGED <<state, mine, peer>>
    BY <1>3 DEF Runlock, Wunlock, WunlockRelock, Switch, Entering, locals
  <2>2. PICK to \in {"out", "walk", "walkw", "walkr", "corrupt"} : Goto(p, to)
    BY <1>3 DEF Runlock, Wunlock, WunlockRelock, Switch
  <2> QED
    BY <1>3, <2>1, <2>2, LetInMetQuiet DEF Neutral, Waiting
<1>4. ASSUME NEW p \in Proc, RunlockWalk(p) \/ WunlockWriter(p) \/ WunlockReader(p), torn' = torn
      PROVE  LetInMet'
  <2>1. pc[p] \in Walking
    BY <1>4 DEF RunlockWalk, WunlockWriter, WunlockReader, Walking
  <2>2. CASE at[p] # None /\ StartWriter(p, at[p])
    BY <1>0, <1>4, <2>1, <2>2, LetInMetStart DEF StartWriter, Entry
  <2>3. CASE at[p] # None /\ StartReader(p, at[p])
    BY <1>0, <1>4, <2>1, <2>3, LetInMetStart DEF StartReader, Entry
  <2>4. CASE at[p] # None /\ Skip(p, at[p])
    <3>1. /\ state' = [state EXCEPT ![at[p]] = "Free"] /\ UNCHANGED <<pc, mine, peer>>
          /\ at[p] \in QLp
      BY <1>0, <2>4 DEF Skip, SetState, Entry
    <3>2. \A x \in QLp : state'[x] = "Done" => state[x] = "Done"
      BY <1>0, <3>1
    <3>3. \A q \in Proc : pc[q] \in Waiting => mine[q] \in QLp
      BY <1>0 DEF IInv, Waits, Owning, Entry
    <3> QED
      BY <1>4, <3>1, <3>2, <3>3, LetInMetStep
  <2>5. CASE \/ WunlockEnd(p, None) \/ WunlockEnd(p, at[p]) \/ Corrupt(p)
             \/ Switch(p, "walkr") \/ Switch(p, "walkw")
             \/ Goto(p, "out") /\ UNCHANGED <<program, readers, writer, list, state, locals>>
    <3>1. UNCHANGED <<state, mine, peer>>
      BY <2>5 DEF WunlockEnd, Corrupt, Switch, locals
    <3>2. PICK to \in {"out", "walkw", "walkr", "corrupt"} : Goto(p, to)
      BY <2>5 DEF WunlockEnd, Corrupt, Switch
    <3>3. pc[p] \in Neutral
      BY <2>1 DEF Walking, Neutral
    <3> QED
      BY <1>4, <3>1, <3>2, <3>3, LetInMetQuiet DEF Waiting
  <2> QED
    BY <1>4, <2>2, <2>3, <2>4, <2>5 DEF RunlockWalk, WunlockWriter, WunlockReader
<1>5. ASSUME NEW p \in Proc, Granted(p), torn' = torn PROVE LetInMet'
  <2>1. pc[p] \in {"gotr", "gotw"} /\ mine[p] \in QLp
    BY <1>0, <1>5 DEF Granted, IInv, Waits, Owning, Entry
  <2>2. /\ \/ state' = [state EXCEPT ![mine[p]] = "Free"] /\ mine' = [mine EXCEPT ![p] = None]
           \/ UNCHANGED <<state, mine>>
        /\ peer' = peer
    BY <1>5 DEF Granted, SetState
  <2>3. PICK to \in {"rcs", "wcs", "failed"} : Goto(p, to)
    BY <1>5 DEF Granted
  <2>4. /\ pc'[p] = to /\ \A q \in Proc : q # p => pc'[q] = pc[q] /\ mine'[q] = mine[q]
    BY <1>0, <2>2, <2>3 DEF Goto, IInv, Typed
  <2>5. \A x \in QLp : state'[x] = "Done" => state[x] = "Done"
    BY <1>0, <2>1, <2>2
  <2>6. \A q \in Proc : pc[q] \in Waiting => mine[q] \in QLp
    BY <1>0 DEF IInv, Waits, Owning, Entry
  <2>7. to \notin Waiting /\ pc[p] \notin {"wake", "waker"}
    BY <2>1 DEF Waiting
  <2> QED
    BY <1>5, <2>2, <2>4, <2>5, <2>6, <2>7, LetInMetStep
<1>6. ASSUME NEW p \in Proc, RlocktTimeout(p) \/ WlocktTimeout(p), torn' = torn
      PROVE  LetInMet'
  <2>1. pc[p] \in Waiting /\ mine[p] \in QLp
    BY <1>0, <1>6 DEF RlocktTimeout, WlocktTimeout, Waiting, IInv, Waits, Owning, Entry
  <2>2. /\ \/ state' = [state EXCEPT ![mine[p]] = "Timedout"] /\ mine' = [mine EXCEPT ![p] = None]
           \/ UNCHANGED <<state, mine>>
        /\ peer' = peer
    BY <1>6 DEF RlocktTimeout, WlocktTimeout, Timeout, SetState
  <2>3. PICK to \in {"out", "failed"} : Goto(p, to)
    BY <1>6 DEF RlocktTimeout, WlocktTimeout, Timeout
  <2>4. /\ pc'[p] = to /\ \A q \in Proc : q # p => pc'[q] = pc[q] /\ mine'[q] = mine[q]
    BY <1>0, <2>2, <2>3 DEF Goto, IInv, Typed
  <2>5. \A x \in QLp : state'[x] = "Done" => state[x] = "Done"
    BY <1>0, <2>1, <2>2
  <2>6. \A q \in Proc : pc[q] \in Waiting => mine[q] \in QLp
    BY <1>0 DEF IInv, Waits, Owning, Entry
  <2>7. to \notin Waiting /\ pc[p] \notin {"wake", "waker"}
    BY <2>1 DEF Waiting
  <2> QED
    BY <1>6, <2>2, <2>4, <2>5, <2>6, <2>7, LetInMetStep
<1> QED
  BY <1>1, <1>2, <1>3, <1>4, <1>5, <1>6, LetInMetRendezvous DEF Next, Proceed, Run

(* In every program in which no rendezvous was interrupted on one side     *)
(* (proc.c:968-969), whoever was let in and waits is about to be met by    *)
(* the runlock or wunlock that let it in: no rendezvous of qlock.c waits   *)
(* for a process that does not come.                                       *)
THEOREM RWLockLetInMet ==
  ASSUME IsFiniteSet(Proc)
  PROVE  Spec => []LetInMet
<1>1. Init => LetInMet
  BY DEF Init, LetInMet, Waiting
<1>2. IInv /\ LetInMet /\ [Next]_vars => LetInMet'
  BY LetInMetNext
<1> QED
  BY <1>1, <1>2, Invariance, PTL DEF Spec

(* While anybody waits in a Plain program and no rendezvous was torn,      *)
(* somebody has the lock or is leaving it, not asleep (held up only by a   *)
(* getqlp that aborted under q->lock), or a rendezvous that both parties   *)
(* are in can be completed.                                                *)
NeverAllAsleep ==
  Plain /\ ~torn /\ (\E p \in Proc : pc[p] \in Waiting) =>
    \E p \in Proc : \/ pc[p] \in {"rcs", "wcs", "walk", "walkw", "gotw"}
                    \/ /\ pc[p] = "wake"
                       /\ \E w \in Proc : pc[w] \in Waiting /\ mine[w] = peer[p]

(* The users of the lock are never all asleep in a Plain program, unless a *)
(* rendezvous was interrupted on one side.                                 *)
THEOREM RWLockNeverAllAsleep ==
  ASSUME IsFiniteSet(Proc)
  PROVE  Spec => []NeverAllAsleep
<1>1. IInv /\ (Plain => PlainInv) /\ (Plain => PlainCount) /\ LetInMet => NeverAllAsleep
  <2> SUFFICES ASSUME IInv, PlainInv, PlainCount, LetInMet, ~torn, NEW v \in Proc, pc[v] \in Waiting
               PROVE  \E p \in Proc : \/ pc[p] \in {"rcs", "wcs", "walk", "walkw", "gotw"}
                                      \/ /\ pc[p] = "wake"
                                         /\ \E w \in Proc : pc[w] \in Waiting /\ mine[w] = peer[p]
    BY DEF NeverAllAsleep
  <2>1. \A p \in Proc : pc[p] \in {"out", "rcs", "wcs", "waitw", "gotw", "wake", "failed"} \cup
                                   {"walk", "walkw", "full"}
    BY DEF PlainInv, Places, Locking
  <2>2. ASSUME NEW w \in Proc, pc[w] \in Waiting, state[mine[w]] = "Done"
        PROVE  \E p \in Proc : /\ pc[p] = "wake"
                               /\ \E u \in Proc : pc[u] \in Waiting /\ mine[u] = peer[p]
    <3>1. PICK p \in Proc : pc[p] \in {"wake", "waker"} /\ peer[p] = mine[w]
      BY <2>2 DEF LetInMet
    <3> QED
      BY <2>1, <2>2, <3>1
  <2>3. mine[v] # None /\ state[mine[v]] \in {"QueuingW", "Done"}
    BY WriterEntry DEF IInv, Waits, Owning
  <2>4. CASE state[mine[v]] = "QueuingW"
    <3>1. v \in WaitW
      BY <2>3, <2>4 DEF WaitW, Queued
    <3>2. PICK p \in Proc : p \in Reading \cup Writing
      BY <3>1, PlainOwners DEF Reading, Writing
    <3>3. CASE Taken(p)
      <4>1. pc[p] \in {"waitw", "gotw"} /\ state[mine[p]] = "Done"
        BY <3>3, WriterEntry DEF Taken, IInv, NoneFailed
      <4> QED
        BY <2>2, <4>1 DEF Waiting
    <3> QED
      BY <3>2, <3>3 DEF Reading, Writing, Writes
  <2> QED
    BY <2>2, <2>3, <2>4
<1> QED
  BY <1>1, PlainInvariance, RWLockPlainCount, RWLockLetInMet, PTL
-----------------------------------------------------------------------------
(***************************************************************************)
(* The Lock of lock.c (module UserLock), which q->lock is one of, for any  *)
(* number of processes and any bound: nobody waiting is ever forgotten,    *)
(* and in programs that do not call canlock at most one process is inside. *)
(***************************************************************************)
CONSTANTS Ops, MaxKey, MaxSem
VARIABLES key, sem, lockpc

L == INSTANCE UserLock WITH pc <- lockpc

(* The processes whose increment is certainly in key. *)
InKey == {p \in Proc : lockpc[p] \in {"sem", "tsem", "cs", "undo"}}

Token == sem > 0 \/ L!Owners \cup L!Passing # {}

(* The inductive invariant of every program.  NoneForgotten is not         *)
(* inductive: that unlock may leave without semrelease when it brings key  *)
(* to 0 needs that the count key covers everybody who waits.               *)
LockInv == /\ L!TypeOK
           /\ key > 0 => Token
           /\ key >= Cardinality(InKey)

(* What holds besides when nobody calls canlock: that lock may enter when  *)
(* it takes key from 0 to 1 needs that there is no other right to enter.   *)
OneRight == /\ \A p \in Proc : lockpc[p] \notin {"undo", "undorel"}
            /\ L!OneToken
            /\ Token => key > 0

(* InKey is finite, so its cardinality is a number key can be compared to. *)
LEMMA LockQueuedFinite ==
  ASSUME IsFiniteSet(Proc)
  PROVE  IsFiniteSet(InKey) /\ Cardinality(InKey) \in Nat
BY FS_Subset, FS_CardinalityType, InKey \subseteq Proc DEF InKey

(* The initial state of the lock satisfies both invariants. *)
LEMMA LockInitInv == L!Init => LockInv /\ OneRight
<1> SUFFICES ASSUME L!Init PROVE LockInv /\ OneRight
  OBVIOUS
<1>1. InKey = {} /\ L!Owners = {} /\ L!Passing = {}
  BY DEF L!Init, InKey, L!Owners, L!Passing
<1>2. Cardinality(InKey) = 0
  BY <1>1, FS_EmptySet
<1> QED
  BY <1>1, <1>2 DEF L!Init, LockInv, OneRight, L!TypeOK, L!PCs, L!OneToken, Token

(* Asking for the lock adds the process to InKey and one to key. *)
LEMMA LockAincInv ==
  ASSUME IsFiniteSet(Proc), LockInv, NEW p \in Proc,
         NEW lost \in {"sem", "tsem", "undo"}, L!Ainc(p, lost)
  PROVE  LockInv'
<1>1. L!TypeOK' /\ lockpc[p] = "idle"
  BY DEF L!Ainc, L!Goto, LockInv, L!TypeOK, L!PCs
<1>2. InKey' = InKey \cup {p} /\ p \notin InKey
  BY <1>1 DEF L!Ainc, L!Goto, LockInv, L!TypeOK, L!PCs, InKey
<1>3. Cardinality(InKey') = Cardinality(InKey) + 1
  BY <1>2, LockQueuedFinite, FS_AddElement
<1>4. key' >= Cardinality(InKey)'
  BY <1>3, LockQueuedFinite DEF LockInv, L!TypeOK, L!Ainc
<1>5. (key > 0 => Token)'
  BY <1>1 DEF L!Ainc, L!Goto, LockInv, L!TypeOK, Token, L!Owners, L!Passing
<1> QED
  BY <1>1, <1>4, <1>5 DEF LockInv

(* unlock and the undoing of canlock take one from both; unlock keeps the  *)
(* turn in the system exactly when somebody is still counted.              *)
LEMMA LockAdecInv ==
  ASSUME IsFiniteSet(Proc), LockInv, NEW p \in Proc, L!Unlock(p) \/ L!CanlockUndo(p)
  PROVE  LockInv'
<1>1. InKey' = InKey \ {p} /\ p \in InKey
  BY DEF L!Unlock, L!CanlockUndo, L!Adec, L!Goto, LockInv, L!TypeOK, L!PCs, InKey
<1>2. Cardinality(InKey') = Cardinality(InKey) - 1
  BY <1>1, LockQueuedFinite, FS_RemoveElement
<1>3. Cardinality(InKey) # 0
  BY <1>1, LockQueuedFinite, FS_EmptySet
<1>4. key > 0 /\ key' = key - 1
  BY <1>3, LockQueuedFinite DEF L!Unlock, L!CanlockUndo, L!Adec, LockInv, L!TypeOK
<1>5. L!TypeOK'
  BY <1>4 DEF L!Unlock, L!CanlockUndo, L!Adec, L!Goto, LockInv, L!TypeOK, L!PCs
<1>6. key' >= Cardinality(InKey)'
  BY <1>2, <1>4, LockQueuedFinite DEF LockInv, L!TypeOK
<1>7. (key > 0 => Token)'
  BY <1>4, <1>5 DEF L!Unlock, L!CanlockUndo, L!Adec, L!Goto, LockInv, L!TypeOK, Token,
                    L!Owners, L!Passing
<1> QED
  BY <1>5, <1>6, <1>7 DEF LockInv

(* The system calls move the turn between sem, the releaser and the owner; *)
(* a timed out lockt leaves InKey and its increment stays.                *)
LEMMA LockSemaphoreInv ==
  ASSUME IsFiniteSet(Proc), LockInv, NEW p \in Proc,
         L!Semrelease(p) \/ L!Semacquire(p) \/ L!TsemTimeout(p)
  PROVE  LockInv'
<1>1. L!TypeOK' /\ key' = key
  BY DEF L!Semrelease, L!Semacquire, L!TsemTimeout, L!Goto, LockInv, L!TypeOK, L!PCs
<1>2. (key > 0 => Token)'
  BY <1>1 DEF L!Semrelease, L!Semacquire, L!TsemTimeout, L!Goto, LockInv, L!TypeOK,
              Token, L!Owners, L!Passing
<1>3. CASE L!Semrelease(p) \/ L!Semacquire(p)
  <2>1. InKey' = InKey
    BY <1>3 DEF L!Semrelease, L!Semacquire, L!Goto, LockInv, L!TypeOK, L!PCs, InKey
  <2> QED
    BY <1>1, <1>2, <2>1 DEF LockInv
<1>4. CASE L!TsemTimeout(p)
  <2>1. InKey' = InKey \ {p} /\ p \in InKey
    BY <1>4 DEF L!TsemTimeout, L!Goto, LockInv, L!TypeOK, L!PCs, InKey
  <2>2. Cardinality(InKey') = Cardinality(InKey) - 1
    BY <2>1, LockQueuedFinite, FS_RemoveElement
  <2>3. key' >= Cardinality(InKey)'
    BY <1>1, <2>2, LockQueuedFinite DEF LockInv, L!TypeOK
  <2> QED
    BY <1>1, <1>2, <2>3 DEF LockInv
<1> QED
  BY <1>3, <1>4

(* Every step of every program keeps LockInv. *)
LEMMA LockNextInv ==
  ASSUME IsFiniteSet(Proc), LockInv, [L!Next]_(L!vars)
  PROVE  LockInv'
<1>1. CASE UNCHANGED L!vars
  BY <1>1 DEF L!vars, LockInv, L!TypeOK, Token, L!Owners, L!Passing, InKey
<1>2. ASSUME NEW p \in Proc, L!Call(p) PROVE LockInv'
  BY <1>2, LockAincInv DEF L!Call, L!Lock, L!Lockt, L!Canlock
<1>3. ASSUME NEW p \in Proc, L!Step(p) PROVE LockInv'
  BY <1>3, LockAdecInv, LockSemaphoreInv DEF L!Step
<1> QED
  BY <1>1, <1>2, <1>3 DEF L!Next

(* Every step of a program that does not call canlock keeps OneRight. *)
LEMMA LockNextOneRight ==
  ASSUME "canlock" \notin Ops, LockInv, OneRight, [L!Next]_(L!vars)
  PROVE  OneRight'
<1>1. CASE UNCHANGED L!vars
  BY <1>1 DEF L!vars, OneRight, L!OneToken, Token, L!Owners, L!Passing
<1>2. ASSUME NEW p \in Proc, NEW lost \in {"sem", "tsem"}, L!Ainc(p, lost)
      PROVE  OneRight'
  BY <1>2 DEF L!Ainc, L!Goto, LockInv, OneRight, L!TypeOK, L!PCs, L!OneToken, Token,
              L!Owners, L!Passing
<1>3. ASSUME NEW p \in Proc, L!Unlock(p) PROVE OneRight'
  BY <1>3 DEF L!Unlock, L!Adec, L!Goto, LockInv, OneRight, L!TypeOK, L!PCs, L!OneToken,
              Token, L!Owners, L!Passing
<1>4. ASSUME NEW p \in Proc, L!Semrelease(p) PROVE OneRight'
  BY <1>4 DEF L!Semrelease, L!Goto, LockInv, OneRight, L!TypeOK, L!PCs, L!OneToken,
              Token, L!Owners, L!Passing
<1>5. ASSUME NEW p \in Proc, L!Semacquire(p) PROVE OneRight'
  BY <1>5 DEF L!Semacquire, L!Goto, LockInv, OneRight, L!TypeOK, L!PCs, L!OneToken,
              Token, L!Owners, L!Passing
<1>6. ASSUME NEW p \in Proc, L!TsemTimeout(p) PROVE OneRight'
  BY <1>6 DEF L!TsemTimeout, L!Goto, LockInv, OneRight, L!TypeOK, L!PCs, L!OneToken,
              Token, L!Owners, L!Passing
<1>7. ASSUME NEW p \in Proc PROVE ~L!Canlock(p) /\ ~L!CanlockUndo(p)
  BY DEF L!Canlock, L!CanlockUndo, L!Adec, L!Goto, OneRight
<1> QED
  BY <1>1, <1>2, <1>3, <1>4, <1>5, <1>6, <1>7 DEF L!Next, L!Call, L!Step, L!Lock, L!Lockt

(* LockInv holds of every behaviour. *)
THEOREM LockInvariance ==
  ASSUME IsFiniteSet(Proc)
  PROVE  L!Spec => []LockInv
<1>1. L!Init => LockInv
  BY LockInitInv
<1>2. LockInv /\ [L!Next]_(L!vars) => LockInv'
  BY LockNextInv
<1> QED
  BY <1>1, <1>2, PTL DEF L!Spec

(* OneRight holds of every behaviour without canlock. *)
THEOREM LockInvarianceOneRight ==
  ASSUME IsFiniteSet(Proc), "canlock" \notin Ops
  PROVE  L!Spec => [](LockInv /\ OneRight)
<1>1. L!Init => LockInv /\ OneRight
  BY LockInitInv
<1>2. LockInv /\ OneRight /\ [L!Next]_(L!vars) => (LockInv /\ OneRight)'
  BY LockNextInv, LockNextOneRight
<1> QED
  BY <1>1, <1>2, PTL DEF L!Spec

(* Whatever lock, unlock, canlock and lockt do (lock.c:15-53), a process   *)
(* waiting in the kernel is never forgotten: a right to enter is in sem,   *)
(* with an owner, or with an unlock that is about to give it back.         *)
THEOREM LockNoneForgotten ==
  ASSUME IsFiniteSet(Proc)
  PROVE  L!Spec => []L!NoneForgotten
<1>1. LockInv => L!NoneForgotten
  <2> SUFFICES ASSUME LockInv, L!Waiting # {} PROVE Token
    BY DEF L!NoneForgotten, Token
  <2>1. InKey # {}
    BY DEF L!Waiting, InKey
  <2>2. Cardinality(InKey) # 0
    BY <2>1, LockQueuedFinite, FS_EmptySet
  <2> QED
    BY <2>2, LockQueuedFinite DEF LockInv, L!TypeOK
<1> QED
  BY <1>1, LockInvariance, PTL

(* lock and unlock (lock.c:15-32), with any number of lockt calls timing   *)
(* out, never let two processes in together: there is one right to enter.  *)
THEOREM LockMutualExclusion ==
  ASSUME IsFiniteSet(Proc), "canlock" \notin Ops
  PROVE  L!Spec => [](L!MutualExclusion /\ L!OneToken)
<1>1. OneRight => L!MutualExclusion /\ L!OneToken
  BY DEF OneRight, L!OneToken, L!MutualExclusion
<1> QED
  BY <1>1, LockInvarianceOneRight, PTL

(* key counts the processes between their increment and their decrement,   *)
(* timed out ones included, and neither it nor sem goes below zero in      *)
(* lock.c:15-53 or tsemacquire.c:22-36.                                    *)
THEOREM LockTypeOK ==
  ASSUME IsFiniteSet(Proc)
  PROVE  L!Spec => []L!TypeOK
<1>1. LockInv => L!TypeOK
  BY DEF LockInv
<1> QED
  BY <1>1, LockInvariance, PTL

(* The refinement: who is between lock and unlock is the holder of Mutex.  *)
LockHolder == IF L!Owners = {} THEN None ELSE CHOOSE p \in Proc : lockpc[p] = "cs"
LockAbstract == INSTANCE Mutex WITH holder <- LockHolder

(* With one right to enter, whoever is inside is the holder. *)
LEMMA LockHolderUnique ==
  ASSUME OneRight, NEW p \in Proc, lockpc[p] = "cs"
  PROVE  LockHolder = p
<1>1. p \in L!Owners /\ \A q \in Proc : lockpc[q] = "cs" => q = p
  BY DEF OneRight, L!OneToken, L!Owners
<1> QED
  BY <1>1 DEF LockHolder

(* The same of the state after a step. *)
LEMMA LockHolderUniqueNext ==
  ASSUME OneRight', NEW p \in Proc, lockpc'[p] = "cs"
  PROVE  LockHolder' = p
<1>1. p \in L!Owners' /\ \A q \in Proc : lockpc'[q] = "cs" => q = p
  BY DEF OneRight, L!OneToken, L!Owners
<1> QED
  BY <1>1 DEF LockHolder

(* A step that lets nobody in and nobody out. *)
LEMMA LockHolderStays ==
  ASSUME OneRight, OneRight', \A q \in Proc : lockpc'[q] = "cs" <=> lockpc[q] = "cs"
  PROVE  LockHolder' = LockHolder
<1>1. CASE \A q \in Proc : lockpc[q] # "cs"
  BY <1>1 DEF LockHolder, L!Owners
<1>2. ASSUME NEW p \in Proc, lockpc[p] = "cs" PROVE LockHolder' = LockHolder
  BY <1>2, LockHolderUnique, LockHolderUniqueNext
<1> QED
  BY <1>1, <1>2

(* Without canlock the Lock of lock.c implements Mutex: it is acquired     *)
(* only when free, by ainc or out of the semaphore, and given up only by   *)
(* its holder.  UserQLock and UserRWLock, which take what is done under    *)
(* q->lock for one step, rest on it.                                       *)
THEOREM LockImplementsMutex ==
  ASSUME IsFiniteSet(Proc), "canlock" \notin Ops
  PROVE  L!Spec => LockAbstract!Spec
<1>1. L!Init => LockAbstract!Init
  BY DEF L!Init, L!Owners, LockHolder, LockAbstract!Init
<1>2. /\ LockInv /\ OneRight /\ (LockInv /\ OneRight)' /\ [L!Next]_(L!vars)
      => [LockAbstract!Next]_LockHolder
  <2> SUFFICES ASSUME LockInv, OneRight, LockInv', OneRight', [L!Next]_(L!vars)
               PROVE  LockAbstract!Next \/ LockHolder' = LockHolder
    OBVIOUS
  <2>0. lockpc \in [Proc -> L!PCs]
    BY DEF LockInv, L!TypeOK
  <2>1. CASE UNCHANGED L!vars
    BY <2>1, LockHolderStays DEF L!vars
  <2>2. ASSUME NEW p \in Proc, lockpc[p] # "cs", lockpc' = [lockpc EXCEPT ![p] = "cs"],
               L!Owners = {}
        PROVE  LockAbstract!Next
    <3>1. LockHolder = None
      BY <2>2 DEF LockHolder
    <3>2. LockHolder' = p
      BY <2>0, <2>2, LockHolderUniqueNext
    <3> QED
      BY <3>1, <3>2 DEF LockAbstract!Next, LockAbstract!Acquire
  <2>3. ASSUME NEW p \in Proc, NEW to, to # "cs", lockpc[p] # "cs",
               lockpc' = [lockpc EXCEPT ![p] = to]
        PROVE  LockHolder' = LockHolder
    BY <2>0, <2>3, LockHolderStays
  <2>4. ASSUME NEW p \in Proc, NEW lost \in {"sem", "tsem"}, L!Ainc(p, lost)
        PROVE  LockAbstract!Next \/ LockHolder' = LockHolder
    <3>1. lockpc[p] = "idle" /\ lockpc' = [lockpc EXCEPT ![p] = IF key = 0 THEN "cs" ELSE lost]
      BY <2>4 DEF L!Ainc, L!Goto
    <3>2. CASE key = 0
      <4>1. L!Owners = {}
        BY <3>2 DEF OneRight, Token
      <4> QED
        BY <2>2, <3>1, <3>2, <4>1
    <3>3. CASE key # 0
      BY <2>3, <3>1, <3>3
    <3> QED
      BY <3>2, <3>3
  <2>5. ASSUME NEW p \in Proc, L!Unlock(p) PROVE LockAbstract!Next
    <3>1. PICK to \in {"idle", "rel"} : lockpc[p] = "cs" /\ lockpc' = [lockpc EXCEPT ![p] = to]
      BY <2>5 DEF L!Unlock, L!Adec, L!Goto
    <3>2. LockHolder = p /\ \A q \in Proc : lockpc[q] = "cs" => q = p
      BY <3>1, LockHolderUnique DEF OneRight, L!OneToken, L!Owners
    <3>3. \A q \in Proc : lockpc'[q] # "cs"
      BY <2>0, <3>1, <3>2
    <3>4. LockHolder' = None
      BY <3>3 DEF LockHolder, L!Owners
    <3> QED
      BY <3>2, <3>4 DEF LockAbstract!Next, LockAbstract!Release
  <2>6. ASSUME NEW p \in Proc, L!Semacquire(p) PROVE LockAbstract!Next
    <3>1. sem > 0 /\ lockpc[p] # "cs" /\ lockpc' = [lockpc EXCEPT ![p] = "cs"]
      BY <2>6 DEF L!Semacquire, L!Goto
    <3>2. L!Owners = {}
      BY <3>1 DEF OneRight, L!OneToken
    <3> QED
      BY <2>2, <3>1, <3>2
  <2>7. ASSUME NEW p \in Proc, L!Semrelease(p) \/ L!TsemTimeout(p)
        PROVE  LockHolder' = LockHolder
    <3>1. lockpc[p] # "cs" /\ lockpc' = [lockpc EXCEPT ![p] = "idle"]
      BY <2>7 DEF L!Semrelease, L!TsemTimeout, L!Goto
    <3> QED
      BY <2>3, <3>1
  <2>8. ASSUME NEW p \in Proc PROVE ~L!Canlock(p) /\ ~L!CanlockUndo(p)
    BY DEF L!Canlock, L!CanlockUndo, L!Adec, L!Goto, OneRight
  <2> QED
    BY <2>1, <2>4, <2>5, <2>6, <2>7, <2>8 DEF L!Next, L!Call, L!Step, L!Lock, L!Lockt
<1> QED
  BY <1>1, <1>2, LockInvarianceOneRight, PTL DEF L!Spec, LockAbstract!Spec
=============================================================================
