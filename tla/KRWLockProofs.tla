--------------------------- MODULE KRWLockProofs ---------------------------
(***************************************************************************)
(* The kernel's reader/writer lock excludes writers from everybody,        *)
(* reaches no panic, forgets nobody, implements RWMutex and never leaves   *)
(* all of its users asleep, for any number of processes.                   *)
(***************************************************************************)
EXTENDS KRWLock, FiniteSetTheorems, FunctionTheorems, SequenceTheorems, TLAPS

(* A process in the queue sleeps in rlock or wlock, and is there once. *)
Queue == /\ \A i, j \in DOMAIN queue : queue[i] = queue[j] => i = j
         /\ \A p \in InQueue : pc[p] = "queued" /\ state[p] \in {"QueueingR", "QueueingW"}

(* States go with the place in the code; readers leave the queue Ready. *)
Places == /\ \A p \in Proc : pc[p] = "queued" <=> state[p] # "Running"
          /\ \A p \in Proc : state[p] = "QueueingR" => p \in InQueue

(* One runlock or wunlock at most is about to make a writer ready, and it  *)
(* is the one that has been given the lock.                                *)
Handing == /\ \A p \in Proc : pc[p] = "ready" =>
                next[p] \in Writers /\ state[next[p]] = "QueueingW"
           /\ \A p, q \in Proc : pc[p] = "ready" /\ pc[q] = "ready" => p = q

IInv == /\ TypeOK /\ Exclusion /\ NoPanic /\ NoneForgotten
        /\ Queue /\ Places /\ Handing /\ IsFiniteSet(Readers)

(* Nobody has asked for the lock at the start. *)
LEMMA InitInv == Init => IInv
<1> SUFFICES ASSUME Init PROVE IInv
  OBVIOUS
<1>1. Readers = {} /\ Writers = {} /\ InQueue = {} /\ queue \in Seq(Proc)
  BY DEF Init, Readers, Writers, InQueue
<1>2. TypeOK
  BY <1>1 DEF Init, TypeOK, States, PCs
<1> QED
  BY <1>1, <1>2, FS_EmptySet
     DEF Init, IInv, Exclusion, NoPanic, NoneForgotten, Queue, Places, Handing

(* Entering the free lock as a reader. *)
LEMMA CanrlockInv ==
  ASSUME IInv, NEW p \in Proc, Canrlock(p)
  PROVE  IInv'
<1> USE DEF Canrlock, CanRead, Goto
<1>1. TypeOK' /\ InQueue' = InQueue
  BY DEF IInv, TypeOK, PCs, InQueue
<1>2. Readers' = Readers \cup {p} /\ p \notin Readers /\ Writers' = Writers
  BY <1>1 DEF IInv, TypeOK, Readers, Writers, Places
<1>3. Writers = {}
  BY DEF IInv, Exclusion
<1>4. IsFiniteSet(Readers') /\ Cardinality(Readers') = Cardinality(Readers) + 1
  BY <1>2, FS_AddElement DEF IInv
<1>5. Exclusion'
  BY <1>2, <1>3, <1>4 DEF IInv, Exclusion
<1>6. NoPanic' /\ NoneForgotten' /\ Queue' /\ Places' /\ Handing'
  BY <1>1, <1>2 DEF IInv, TypeOK, NoPanic, NoneForgotten, Queue, Places, Handing
<1> QED
  BY <1>1, <1>4, <1>5, <1>6 DEF IInv

(* Entering the free lock as a writer. *)
LEMMA WlockInv ==
  ASSUME IInv, NEW p \in Proc, Wlock(p), readers = 0, ~writer
  PROVE  IInv'
<1>1. /\ pc[p] = "out" /\ writer' = TRUE /\ pc' = [pc EXCEPT ![p] = "writing"]
      /\ UNCHANGED <<readers, queue, state, next>>
  BY DEF Wlock, Goto
<1>2. TypeOK' /\ InQueue' = InQueue
  BY <1>1 DEF IInv, TypeOK, PCs, InQueue
<1>3. Readers' = Readers /\ Writers' = Writers \cup {p}
  BY <1>1, <1>2 DEF IInv, TypeOK, Readers, Writers, Places
<1>4. Writers = {} /\ Readers = {}
  BY FS_EmptySet DEF IInv, Exclusion
<1>5. Exclusion'
  BY <1>1, <1>3, <1>4 DEF IInv, Exclusion
<1>6. NoPanic' /\ NoneForgotten' /\ Places'
  BY <1>1, <1>2 DEF IInv, TypeOK, NoPanic, NoneForgotten, Places
<1>7. Queue' /\ Handing'
  BY <1>1, <1>2, <1>3 DEF IInv, TypeOK, Queue, Handing
<1> QED
  BY <1>2, <1>3, <1>5, <1>6, <1>7 DEF IInv

(* Joining the queue of a lock that is taken, or has others queued. *)
LEMMA EnqueueInv ==
  ASSUME IInv, NEW p \in Proc, NEW s \in {"QueueingR", "QueueingW"}, pc[p] = "out",
         Enqueue(p, s), writer \/ queue # <<>> \/ (readers > 0 /\ s = "QueueingW")
  PROVE  IInv'
<1> USE DEF Enqueue, Goto
<1>1. /\ queue \in Seq(Proc) /\ queue' \in Seq(Proc) /\ Len(queue') = Len(queue) + 1
      /\ DOMAIN queue = 1..Len(queue) /\ DOMAIN queue' = 1..(Len(queue) + 1)
      /\ \A i \in 1..Len(queue) : queue'[i] = queue[i]
      /\ queue'[Len(queue) + 1] = p
  BY DEF IInv, TypeOK
<1>2. TypeOK'
  BY <1>1 DEF IInv, TypeOK, PCs, States
<1>3. InQueue' = InQueue \cup {p}
  BY <1>1 DEF InQueue
<1>4. p \notin InQueue /\ p \notin Readers /\ p \notin Writers
  BY DEF IInv, Queue, Readers, Writers
<1>5. Readers' = Readers /\ Writers' = Writers
  BY <1>3, <1>4 DEF IInv, TypeOK, Readers, Writers
<1>6. Queue'
  <2>1. \A i \in DOMAIN queue : queue[i] \in InQueue
    BY DEF InQueue
  <2>2. \A i, j \in DOMAIN queue' : queue'[i] = queue'[j] => i = j
    BY <1>1, <1>4, <2>1 DEF IInv, Queue
  <2>3. \A q \in InQueue' : pc'[q] = "queued" /\ state'[q] \in {"QueueingR", "QueueingW"}
    BY <1>3, <1>4 DEF IInv, TypeOK, Queue
  <2> QED
    BY <2>2, <2>3 DEF Queue
<1>7. NoneForgotten'
  <2>1. CASE queue = <<>>
    BY <1>1, <2>1 DEF IInv, TypeOK, NoneForgotten
  <2>2. CASE queue # <<>>
    <3>1. Head(queue') = Head(queue) /\ Head(queue) \in InQueue
      BY <1>1, <2>2 DEF InQueue
    <3> QED
      BY <1>4, <2>2, <3>1 DEF IInv, TypeOK, NoneForgotten
  <2> QED
    BY <2>1, <2>2
<1>8. Exclusion' /\ NoPanic' /\ Places' /\ Handing'
  BY <1>3, <1>4, <1>5 DEF IInv, TypeOK, Exclusion, NoPanic, Places, Handing
<1> QED
  BY <1>2, <1>5, <1>6, <1>7, <1>8 DEF IInv
(* What taking off the head does to the queue. *)
LEMMA TailQueue ==
  ASSUME IInv, queue # <<>>, queue' = Tail(queue)
  PROVE  /\ queue' \in Seq(Proc) /\ Head(queue) \in InQueue /\ InQueue' = InQueue \ {Head(queue)}
         /\ \A i, j \in DOMAIN queue' : queue'[i] = queue'[j] => i = j
<1>1. /\ queue \in Seq(Proc) /\ 1 \in DOMAIN queue /\ Head(queue) = queue[1]
      /\ DOMAIN queue = 1..Len(queue)
  BY DEF IInv, TypeOK
<1>2. /\ queue' \in Seq(Proc) /\ DOMAIN queue' = 1..(Len(queue) - 1)
      /\ \A i \in DOMAIN queue' : i + 1 \in DOMAIN queue /\ queue'[i] = queue[i + 1] /\ i + 1 # 1
  BY <1>1
<1>3. \A i \in DOMAIN queue : i # 1 => i - 1 \in DOMAIN queue' /\ queue'[i - 1] = queue[i]
  BY <1>1, <1>2
<1>4. \A i, j \in DOMAIN queue : queue[i] = queue[j] => i = j
  BY DEF IInv, Queue
<1>5. \A i, j \in DOMAIN queue' : queue'[i] = queue'[j] => i = j
  BY <1>2, <1>4
<1>6. InQueue' = InQueue \ {Head(queue)}
  <2>1. \A i \in DOMAIN queue' : queue'[i] \in InQueue /\ queue'[i] # Head(queue)
    BY <1>1, <1>2, <1>4 DEF InQueue
  <2>2. \A i \in DOMAIN queue : queue[i] = Head(queue) \/ queue[i] \in InQueue'
    BY <1>1, <1>3 DEF InQueue
  <2> QED
    BY <2>1, <2>2 DEF InQueue
<1> QED
  BY <1>1, <1>2, <1>5, <1>6 DEF InQueue

(* The lock goes from the reader or writer p to the writer at the head. *)
LEMMA HandOverInv ==
  ASSUME IInv, NEW p \in Proc, queue # <<>>, state[Head(queue)] = "QueueingW",
         queue' = Tail(queue), next' = [next EXCEPT ![p] = Head(queue)],
         pc' = [pc EXCEPT ![p] = "ready"], state' = state, writer' = TRUE,
         \/ pc[p] = "writing" /\ readers' = readers
         \/ pc[p] = "reading" /\ readers = 1 /\ readers' = 0
  PROVE  IInv'
<1> DEFINE h == Head(queue)
<1>1. /\ queue' \in Seq(Proc) /\ h \in InQueue /\ InQueue' = InQueue \ {h}
      /\ \A i, j \in DOMAIN queue' : queue'[i] = queue'[j] => i = j
  BY TailQueue
<1>2. h \in Proc /\ pc[h] = "queued" /\ h # p
  BY <1>1 DEF IInv, TypeOK, InQueue, Queue
<1>3. TypeOK'
  BY <1>1, <1>2 DEF IInv, TypeOK, PCs
<1>4. Readers \ {p} = {} /\ Writers \ {p} = {}
  <2>1. CASE pc[p] = "writing"
    BY <2>1 DEF IInv, Exclusion, Writers
  <2>2. CASE pc[p] = "reading" /\ readers = 1
    <3>1. p \in Readers /\ Writers = {}
      BY <2>2 DEF IInv, Exclusion, Readers
    <3>2. PICK x : Readers = {x}
      BY <2>2, FS_Singleton DEF IInv, Exclusion
    <3> QED
      BY <3>1, <3>2
  <2> QED
    BY <2>1, <2>2
<1>5. Readers' = {} /\ Writers' = {h}
  <2>1. \A q \in Proc : q # p => pc'[q] = pc[q]
    BY DEF IInv, TypeOK
  <2>2. pc'[p] = "ready"
    BY DEF IInv, TypeOK
  <2>3. Readers' = Readers \ {p}
    BY <2>1, <2>2 DEF Readers
  <2>4. Writers' = (Writers \ {p}) \cup {h}
    BY <1>1, <1>2, <2>1, <2>2 DEF Writers
  <2> QED
    BY <1>4, <2>3, <2>4
<1>6. Exclusion'
  <2>1. readers' = 0
    <3>1. CASE pc[p] = "writing"
      BY <1>4, <3>1, FS_EmptySet DEF IInv, Exclusion, Writers, Readers
    <3> QED
      BY <3>1
  <2> QED
    BY <1>5, <2>1, FS_EmptySet DEF Exclusion
<1>7. NoPanic' /\ NoneForgotten' /\ Places'
  BY <1>1, <1>2 DEF IInv, TypeOK, NoPanic, NoneForgotten, Places, Queue
<1>8. Queue'
  BY <1>1, <1>2 DEF IInv, TypeOK, Queue, InQueue
<1>9. Handing'
  <2>1. \A q \in Proc : pc[q] # "ready"
    <3> SUFFICES ASSUME NEW q \in Proc, pc[q] = "ready" PROVE FALSE
      OBVIOUS
    <3>1. next[q] \in Writers /\ state[next[q]] = "QueueingW"
      BY DEF IInv, Handing
    <3>2. next[q] = p /\ pc[p] \in {"writing", "reading"}
      BY <1>4, <3>1
    <3> QED
      BY <3>1, <3>2 DEF IInv, Places
  <2> QED
    BY <1>2, <1>5, <2>1 DEF IInv, TypeOK, Handing
<1> QED
  BY <1>3, <1>5, <1>6, <1>7, <1>8, <1>9, FS_EmptySet DEF IInv
(* A reader leaves: the last one hands the lock to a queued writer. *)
LEMMA RunlockInv ==
  ASSUME IInv, NEW p \in Proc, Runlock(p)
  PROVE  IInv'
<1>1. pc[p] = "reading" /\ readers' = readers - 1 /\ state' = state
  BY DEF Runlock
<1>2. /\ p \in Readers /\ Writers = {} /\ ~writer
      /\ Cardinality(Readers \ {p}) = readers - 1 /\ IsFiniteSet(Readers \ {p})
  BY <1>1, FS_RemoveElement DEF IInv, Readers, Exclusion
<1>3. readers >= 1
  BY <1>2, FS_CardinalityType DEF IInv, TypeOK
<1>4. CASE readers > 1 \/ queue = <<>>
  <2>1. pc' = [pc EXCEPT ![p] = "out"] /\ UNCHANGED <<writer, queue, next>>
    BY <1>3, <1>4 DEF Runlock, Goto, IInv, TypeOK
  <2>2. TypeOK' /\ InQueue' = InQueue
    BY <1>1, <1>3, <2>1 DEF IInv, TypeOK, PCs, InQueue
  <2>3. Readers' = Readers \ {p} /\ Writers' = Writers
    BY <1>1, <2>1, <2>2 DEF IInv, TypeOK, Readers, Writers, Places
  <2>4. Exclusion'
    BY <1>1, <1>2, <2>1, <2>3 DEF IInv, Exclusion
  <2>5. NoneForgotten'
    BY <1>1, <1>2, <1>4, <2>1 DEF IInv, TypeOK, NoneForgotten
  <2>6. NoPanic' /\ Queue' /\ Places' /\ Handing'
    BY <1>1, <2>1, <2>2, <2>3 DEF IInv, TypeOK, NoPanic, Queue, Places, Handing
  <2> QED
    BY <1>2, <2>2, <2>3, <2>4, <2>5, <2>6 DEF IInv
<1>5. CASE readers <= 1 /\ queue # <<>>
  <2>1. state[Head(queue)] = "QueueingW"
    BY <1>2, <1>5 DEF IInv, NoneForgotten
  <2>2. /\ queue' = Tail(queue) /\ next' = [next EXCEPT ![p] = Head(queue)]
        /\ pc' = [pc EXCEPT ![p] = "ready"] /\ writer' = TRUE
    BY <1>3, <1>5, <2>1 DEF Runlock, Goto, IInv, TypeOK
  <2>3. readers = 1 /\ readers' = 0
    BY <1>1, <1>3, <1>5 DEF IInv, TypeOK
  <2> QED
    BY <1>1, <1>5, <2>1, <2>2, <2>3, HandOverInv
<1> QED
  BY <1>4, <1>5 DEF IInv, TypeOK

(* The first k of the queue are k processes; the rest stay queued. *)
LEMMA StartedReaders ==
  ASSUME IInv, NEW k \in 1..Len(queue), queue' = SubSeq(queue, k + 1, Len(queue))
  PROVE  LET started == {queue[i] : i \in 1..k}
         IN  /\ IsFiniteSet(started) /\ Cardinality(started) = k /\ started \subseteq InQueue
             /\ queue' \in Seq(Proc) /\ InQueue' = InQueue \ started
             /\ \A i, j \in DOMAIN queue' : queue'[i] = queue'[j] => i = j
             /\ queue' # <<>> => k < Len(queue) /\ Head(queue') = queue[k + 1]
<1> DEFINE started == {queue[i] : i \in 1..k}
<1> DEFINE n == Len(queue)
<1>1. /\ n \in Nat /\ k \in 1..n /\ DOMAIN queue = 1..n
      /\ \A i \in 1..n : queue[i] \in Proc
      /\ \A i, j \in 1..n : queue[i] = queue[j] => i = j
  BY DEF IInv, TypeOK, Queue
<1>2. queue' \in Seq(Proc) /\ Len(queue') = n - k /\ DOMAIN queue' = 1..(n - k)
  <2>1. queue \in Seq(Proc) /\ k + 1 \in 1..(n + 1) /\ n \in k..n
    BY <1>1 DEF IInv, TypeOK
  <2>2. queue' \in Seq(Proc) /\ Len(queue') = IF k + 1 <= n THEN n - (k + 1) + 1 ELSE 0
    BY <1>1, <2>1, SubSeqProperties
  <2>3. DOMAIN queue' = 1..Len(queue')
    BY <2>2
  <2> HIDE DEF n
  <2>4. Len(queue') = n - k
    BY <1>1, <2>2
  <2> QED
    BY <2>2, <2>3, <2>4
<1>3. \A i \in 1..(n - k) : queue'[i] = queue[i + k]
  BY <1>1 DEF IInv, TypeOK
<1> HIDE DEF n
<1>4. \A i \in 1..(n - k) : i + k \in 1..n /\ i + k > k
  BY <1>1
<1>5. \A i \in 1..n : i > k => i - k \in 1..(n - k) /\ (i - k) + k = i
  BY <1>1
<1>6. \A i, j \in DOMAIN queue' : queue'[i] = queue'[j] => i = j
  <2> SUFFICES ASSUME NEW i \in 1..(n - k), NEW j \in 1..(n - k), queue'[i] = queue'[j] PROVE i = j
    BY <1>2
  <2>1. i + k = j + k
    BY <1>1, <1>3, <1>4
  <2> QED
    BY <1>1, <2>1
<1>7. IsFiniteSet(started) /\ Cardinality(started) = k
  <2> DEFINE f == [i \in 1..k |-> queue[i]]
  <2>1. \A i, j \in 1..k : f[i] = f[j] => i = j
    BY <1>1
  <2>2. f \in [1..k -> started] /\ \A x \in started : \E i \in 1..k : f[i] = x
    OBVIOUS
  <2>3. ExistsBijection(1..k, started)
    <3> HIDE DEF f, started
    <3> QED
      BY <2>1, <2>2, Fun_ExistsBij, Fun_IsBij
  <2>4. IsFiniteSet(1..k) /\ Cardinality(1..k) = k
    BY <1>1, FS_Interval
  <2> QED
    BY <2>3, <2>4, FS_Bijection
<1>8. started \subseteq InQueue
  BY <1>1 DEF InQueue
<1>9. InQueue' = InQueue \ started
  <2>1. \A i \in 1..(n - k) : queue'[i] \in InQueue /\ queue'[i] \notin started
    <3> SUFFICES ASSUME NEW i \in 1..(n - k) PROVE queue[i + k] \in InQueue /\ queue[i + k] \notin started
      BY <1>3
    <3>1. i + k \in 1..n /\ i + k > k
      BY <1>4
    <3>2. ASSUME NEW j \in 1..k, queue[i + k] = queue[j] PROVE FALSE
      BY <1>1, <3>1, <3>2
    <3> QED
      BY <1>1, <3>1, <3>2 DEF InQueue
  <2>2. \A i \in 1..n : queue[i] \in started \/ queue[i] \in InQueue'
    <3> SUFFICES ASSUME NEW i \in 1..n, i > k PROVE queue[i] \in InQueue'
      BY <1>1
    <3>1. i - k \in DOMAIN queue' /\ queue'[i - k] = queue[i]
      BY <1>2, <1>3, <1>5
    <3> QED
      BY <3>1 DEF InQueue
  <2>3. InQueue = {queue[i] : i \in 1..n} /\ InQueue' = {queue'[i] : i \in 1..(n - k)}
    BY <1>1, <1>2 DEF InQueue
  <2> HIDE DEF started
  <2> QED
    BY <2>1, <2>2, <2>3
<1>10. queue' # <<>> => k < n /\ Head(queue') = queue[k + 1]
  <2> SUFFICES ASSUME queue' # <<>> PROVE k < n /\ Head(queue') = queue[k + 1]
    OBVIOUS
  <2>1. Len(queue') > 0 /\ Head(queue') = queue'[1]
    BY <1>2
  <2>2. 1 \in 1..(n - k)
    BY <1>1, <1>2, <2>1
  <2>3. queue'[1] = queue[1 + k] /\ 1 + k = k + 1
    BY <1>1, <1>3, <2>2
  <2> QED
    BY <1>1, <2>1, <2>2, <2>3
<1> QED
  BY <1>2, <1>6, <1>7, <1>8, <1>9, <1>10 DEF n
(* A writer leaves: the lock is free, or goes to a writer or to readers. *)
LEMMA WunlockInv ==
  ASSUME IInv, NEW p \in Proc, Wunlock(p)
  PROVE  IInv'
<1>1. pc[p] = "writing"
  BY DEF Wunlock
<1>2. Writers = {p} /\ Readers = {} /\ writer /\ readers = 0
  BY <1>1, FS_EmptySet DEF IInv, Exclusion, Writers
<1>3. \A q \in Proc : pc[q] # "ready"
  <2> SUFFICES ASSUME NEW q \in Proc, pc[q] = "ready" PROVE FALSE
    OBVIOUS
  <2>1. next[q] = p /\ state[p] = "QueueingW"
    BY <1>2 DEF IInv, Handing
  <2> QED
    BY <1>1, <2>1 DEF IInv, Places
<1>4. CASE queue = <<>> /\ writer' = FALSE /\ Goto(p, "out") /\ UNCHANGED <<readers, queue, state, next>>
  <2>1. pc' = [pc EXCEPT ![p] = "out"]
    BY <1>4 DEF Goto
  <2>2. TypeOK' /\ InQueue' = InQueue
    BY <1>4, <2>1 DEF IInv, TypeOK, PCs, InQueue
  <2>3. Readers' = Readers /\ Writers' = Writers \ {p}
    BY <1>1, <1>4, <2>1, <2>2 DEF IInv, TypeOK, Readers, Writers, Places
  <2>4. Exclusion' /\ NoneForgotten'
    BY <1>2, <1>4, <2>3 DEF IInv, Exclusion, NoneForgotten
  <2>5. NoPanic' /\ Queue' /\ Places' /\ Handing'
    BY <1>1, <1>3, <1>4, <2>1, <2>2 DEF IInv, TypeOK, NoPanic, Queue, Places, Handing
  <2> QED
    BY <2>2, <2>3, <2>4, <2>5 DEF IInv
<1>5. CASE /\ queue # <<>> /\ state[Head(queue)] = "QueueingW"
           /\ queue' = Tail(queue)
           /\ next' = [next EXCEPT ![p] = Head(queue)]
           /\ Goto(p, "ready")
           /\ UNCHANGED <<readers, writer, state>>
  BY <1>1, <1>2, <1>5, HandOverInv DEF Goto
<1>6. ASSUME NEW k \in 1..Len(queue), NEW started, started = {queue[i] : i \in 1..k},
             \A r \in started : state[r] = "QueueingR",
             k < Len(queue) => state[queue[k + 1]] # "QueueingR",
             queue' = SubSeq(queue, k + 1, Len(queue)), readers' = readers + k,
             state' = [r \in Proc |-> IF r \in started THEN MadeReady(state[r]) ELSE state[r]],
             writer' = FALSE, Goto(p, "out"), UNCHANGED next
      PROVE  IInv'
  <2>1. /\ IsFiniteSet(started) /\ Cardinality(started) = k /\ started \subseteq InQueue
        /\ queue' \in Seq(Proc) /\ InQueue' = InQueue \ started
        /\ \A i, j \in DOMAIN queue' : queue'[i] = queue'[j] => i = j
        /\ queue' # <<>> => k < Len(queue) /\ Head(queue') = queue[k + 1]
    BY <1>6, StartedReaders
  <2>2. /\ pc' = [pc EXCEPT ![p] = "out"] /\ p \notin started
        /\ \A q \in Proc : state'[q] = IF q \in started THEN "ReadyR" ELSE state[q]
    BY <1>1, <1>6, <2>1 DEF IInv, Queue, MadeReady, Goto
  <2>3. /\ k \in Nat /\ k > 0 /\ readers' = k /\ InQueue \subseteq Proc
        /\ \A q \in InQueue : pc[q] = "queued" /\ q # p
    BY <1>1, <1>2, <1>6 DEF IInv, TypeOK, Queue, InQueue
  <2>4. TypeOK'
    BY <1>6, <2>1, <2>2, <2>3 DEF IInv, TypeOK, PCs, States
  <2>5. Readers' = started
    BY <1>1, <1>2, <2>1, <2>2, <2>3 DEF IInv, TypeOK, Readers, Places
  <2>6. Writers' = {}
    <3> SUFFICES ASSUME NEW q \in Proc, q \in Writers' PROVE FALSE
      BY DEF Writers
    <3>0. pc'[p] = "out"
      BY <2>2 DEF IInv, TypeOK
    <3>1. q \notin started
      <4>1. pc'[q] = "writing" \/ state'[q] \in {"QueueingW", "ReadyW"}
        BY DEF Writers
      <4>2. q \in started => pc[q] = "queued" /\ q # p
        BY <2>1, <2>3
      <4>3. q \in started => pc'[q] = "queued" /\ state'[q] = "ReadyR"
        BY <2>2, <4>2 DEF IInv, TypeOK
      <4> QED
        BY <4>1, <4>3
    <3>2. q # p /\ pc'[q] = pc[q]
      BY <1>1, <2>2, <3>0, <3>1 DEF IInv, TypeOK, Writers, Places
    <3>3. q \in Writers
      BY <2>1, <2>2, <3>1, <3>2 DEF Writers
    <3> QED
      BY <1>2, <3>2, <3>3
  <2>7. Exclusion'
    BY <1>6, <2>1, <2>3, <2>5, <2>6 DEF Exclusion
  <2>8. NoneForgotten'
    <3> SUFFICES ASSUME queue' # <<>> PROVE state'[Head(queue')] = "QueueingW"
      BY <2>3 DEF NoneForgotten
    <3>1. Head(queue') \in InQueue' /\ Head(queue') = queue[k + 1] /\ k < Len(queue)
      BY <2>1 DEF InQueue
    <3>2. state[Head(queue')] = "QueueingW" /\ Head(queue') \notin started /\ Head(queue') \in Proc
      BY <1>6, <2>1, <2>3, <3>1 DEF IInv, Queue
    <3> QED
      BY <2>2, <3>2
  <2>9. NoPanic' /\ Handing'
    BY <1>3, <2>2 DEF IInv, TypeOK, NoPanic, Handing
  <2>10. Queue'
    BY <2>1, <2>2, <2>3 DEF IInv, TypeOK, Queue
  <2>11. Places'
    BY <1>1, <2>1, <2>2, <2>3 DEF IInv, TypeOK, Places
  <2> QED
    BY <2>1, <2>4, <2>5, <2>7, <2>8, <2>9, <2>10, <2>11 DEF IInv
<1>7. queue = <<>> \/ state[Head(queue)] \in {"QueueingR", "QueueingW"}
  <2>1. queue # <<>> => Head(queue) \in InQueue
    BY DEF IInv, TypeOK, InQueue
  <2> QED
    BY <2>1 DEF IInv, Queue
<1> QED
  BY <1>1, <1>4, <1>5, <1>6, <1>7 DEF Wunlock

(* ready() of the writer that was given the lock. *)
LEMMA ReadyInv ==
  ASSUME IInv, NEW p \in Proc, Ready(p)
  PROVE  IInv'
<1> DEFINE h == next[p]
<1>1. /\ pc[p] = "ready" /\ pc' = [pc EXCEPT ![p] = "out"] /\ next' = [next EXCEPT ![p] = None]
      /\ state' = [state EXCEPT ![h] = MadeReady(@)]
      /\ UNCHANGED <<readers, writer, queue>>
  BY DEF Ready, Goto
<1>2. h \in Writers /\ h \in Proc /\ state[h] = "QueueingW" /\ pc[h] = "queued" /\ h \notin InQueue /\ h # p
  BY <1>1 DEF IInv, Handing, Writers, Places
<1>3. /\ state'[h] = "ReadyW" /\ \A q \in Proc : q # h => state'[q] = state[q]
      /\ pc'[p] = "out" /\ \A q \in Proc : q # p => pc'[q] = pc[q]
  BY <1>1, <1>2 DEF IInv, TypeOK, MadeReady
<1>4. TypeOK' /\ InQueue' = InQueue
  BY <1>1, <1>2, <1>3 DEF IInv, TypeOK, PCs, States, InQueue, MadeReady
<1>5. Readers' = Readers /\ Writers' = Writers
  BY <1>1, <1>2, <1>3, <1>4 DEF Readers, Writers
<1>6. Exclusion' /\ NoPanic'
  BY <1>1, <1>3, <1>5 DEF IInv, Exclusion, NoPanic
<1>7. NoneForgotten'
  <2>1. queue # <<>> => Head(queue) \in InQueue /\ Head(queue) \in Proc
    BY DEF IInv, TypeOK, InQueue
  <2> QED
    BY <1>1, <1>2, <1>3, <2>1 DEF IInv, NoneForgotten
<1>8. Queue'
  <2>1. InQueue \subseteq Proc
    BY DEF IInv, TypeOK, InQueue
  <2> QED
    BY <1>1, <1>2, <1>3, <1>4, <2>1 DEF IInv, Queue
<1>9. Places' /\ Handing'
  BY <1>1, <1>2, <1>3, <1>4, <1>5 DEF IInv, Places, Handing
<1> QED
  BY <1>4, <1>5, <1>6, <1>7, <1>8, <1>9 DEF IInv

(* Back from sched() with the lock. *)
LEMMA ResumeInv ==
  ASSUME IInv, NEW p \in Proc, Resume(p)
  PROVE  IInv'
<1>1. /\ pc[p] = "queued" /\ state[p] \in {"ReadyR", "ReadyW"}
      /\ state' = [state EXCEPT ![p] = "Running"]
      /\ pc' = [pc EXCEPT ![p] = IF state[p] = "ReadyR" THEN "reading" ELSE "writing"]
      /\ UNCHANGED <<readers, writer, queue, next>>
  BY DEF Resume, Goto
<1>2. p \notin InQueue /\ \A q \in Proc : pc[q] = "ready" => next[q] # p
  BY <1>1 DEF IInv, Queue, Handing
<1>3. TypeOK' /\ InQueue' = InQueue
  BY <1>1 DEF IInv, TypeOK, PCs, States, InQueue
<1>4. Readers' = Readers /\ Writers' = Writers
  BY <1>1, <1>2, <1>3 DEF IInv, TypeOK, Readers, Writers
<1>5. Exclusion' /\ NoPanic'
  BY <1>1, <1>4 DEF IInv, TypeOK, Exclusion, NoPanic
<1>6. NoneForgotten'
  <2>1. queue # <<>> => Head(queue) \in InQueue
    BY DEF IInv, TypeOK, InQueue
  <2> QED
    BY <1>1, <1>2, <2>1 DEF IInv, TypeOK, NoneForgotten
<1>7. Queue' /\ Places' /\ Handing'
  BY <1>1, <1>2, <1>3, <1>4 DEF IInv, TypeOK, Queue, Places, Handing
<1> QED
  BY <1>3, <1>4, <1>5, <1>6, <1>7 DEF IInv

(* Every step keeps the invariant. *)
LEMMA NextInv == IInv /\ [Next]_vars => IInv'
<1> SUFFICES ASSUME IInv, [Next]_vars PROVE IInv'
  OBVIOUS
<1>1. CASE UNCHANGED vars
  BY <1>1 DEF vars, IInv, TypeOK, Exclusion, NoPanic, NoneForgotten, Queue, Places, Handing,
              Readers, Writers, InQueue
<1>2. ASSUME NEW p \in Proc, Rlock(p) PROVE IInv'
  <2>1. CASE pc[p] = "out" /\ ~CanRead /\ Enqueue(p, "QueueingR")
    BY <2>1, EnqueueInv DEF CanRead
  <2> QED
    BY <1>2, <2>1, CanrlockInv DEF Rlock
<1>3. ASSUME NEW p \in Proc, Wlock(p) PROVE IInv'
  <2>1. CASE readers = 0 /\ ~writer
    BY <1>3, <2>1, WlockInv
  <2>2. CASE ~(readers = 0 /\ ~writer)
    <3>1. pc[p] = "out" /\ Enqueue(p, "QueueingW") /\ (writer \/ readers > 0)
      BY <1>3, <2>2 DEF Wlock, IInv, TypeOK
    <3> QED
      BY <3>1, EnqueueInv
  <2> QED
    BY <2>1, <2>2
<1> QED
  BY <1>1, <1>2, <1>3, CanrlockInv, RunlockInv, WunlockInv, ReadyInv, ResumeInv DEF Next, Call, Step

(* The invariant holds of every behaviour. *)
THEOREM Invariance == Spec => []IInv
  BY InitInv, NextInv, PTL DEF Spec

(* Readers and writers exclude each other, and the counts say who has the  *)
(* lock, those included who were chosen and have not run yet.              *)
THEOREM KRWLockExclusion == Spec => []Exclusion
<1>1. IInv => Exclusion
  BY DEF IInv
<1> QED
  BY <1>1, Invariance, PTL

(* runlock and wunlock never panic. *)
THEOREM KRWLockNoPanic == Spec => []NoPanic
<1>1. IInv => NoPanic
  BY DEF IInv
<1> QED
  BY <1>1, Invariance, PTL

(* Nobody is left in the queue of a free lock, and no reader at the head   *)
(* of the queue of a lock that only readers have.                          *)
THEOREM KRWLockNoneForgotten == Spec => []NoneForgotten
<1>1. IInv => NoneForgotten
  BY DEF IInv
<1> QED
  BY <1>1, Invariance, PTL

(* Every variable keeps its type. *)
THEOREM KRWLockTypeOK == Spec => []TypeOK
<1>1. IInv => TypeOK
  BY DEF IInv
<1> QED
  BY <1>1, Invariance, PTL
-----------------------------------------------------------------------------
(***************************************************************************)
(* The lock implements RWMutex.                                            *)
(***************************************************************************)
WaitR == {p \in InQueue : state[p] = "QueueingR"}
WaitW == {p \in InQueue : state[p] = "QueueingW"}

(* Whoever is queued waits to read or to write; who has the lock is not    *)
(* queued; who is outside neither has the lock nor waits.                  *)
LEMMA Waiting ==
  ASSUME IInv
  PROVE  /\ WaitR \cup WaitW = InQueue /\ InQueue \subseteq Proc
         /\ Readers \subseteq Proc /\ Writers \subseteq Proc
         /\ queue = <<>> <=> InQueue = {}
         /\ readers = 0 <=> Readers = {}
         /\ writer <=> Writers # {}
         /\ \A p \in Proc : pc[p] = "out" => p \notin Readers \cup Writers \cup InQueue
<1>1. WaitR \cup WaitW = InQueue /\ InQueue \subseteq Proc
  BY DEF IInv, TypeOK, Queue, WaitR, WaitW, InQueue
<1>2. Readers \subseteq Proc /\ Writers \subseteq Proc
  BY DEF Readers, Writers
<1>3. queue = <<>> <=> InQueue = {}
  <2>1. queue # <<>> => Head(queue) \in InQueue
    BY DEF IInv, TypeOK, InQueue
  <2> QED
    BY <2>1 DEF InQueue
<1>4. (readers = 0 <=> Readers = {}) /\ (writer <=> Writers # {})
  BY FS_EmptySet DEF IInv, Exclusion
<1>5. \A p \in Proc : pc[p] = "out" => p \notin Readers \cup Writers \cup InQueue
  BY DEF IInv, Queue, Readers, Writers
<1> QED
  BY <1>1, <1>2, <1>3, <1>4, <1>5

(* The mapping of the variables, with the two sets of waiters named. *)
LEMMA Mapped ==
  /\ Abstract!holders = Readers \cup Writers
  /\ Abstract!waiting = WaitR \cup WaitW
  /\ Abstract!vars = <<Readers, Writers, WaitR, WaitW>>
  BY DEF Abstract!holders, Abstract!waiting, Abstract!vars, WaitR, WaitW

(* A reader that finds the lock open enters. *)
LEMMA CanrlockStep ==
  ASSUME IInv, NEW p \in Proc, Canrlock(p)
  PROVE  Abstract!Rlock(p)
<1>1. /\ pc[p] = "out" /\ ~writer /\ queue = <<>>
      /\ pc' = [pc EXCEPT ![p] = "reading"] /\ UNCHANGED <<writer, queue, state>>
  BY DEF Canrlock, CanRead, Goto
<1>2. InQueue' = InQueue /\ WaitR' = WaitR /\ WaitW' = WaitW
  BY <1>1 DEF InQueue, WaitR, WaitW
<1>3. Readers' = Readers \cup {p} /\ Writers' = Writers
  BY <1>1, <1>2 DEF IInv, TypeOK, Readers, Writers, Places
<1>4. Writers = {} /\ WaitR \cup WaitW = {} /\ p \notin Readers \cup Writers
  BY <1>1, Waiting
<1> QED
  BY <1>2, <1>3, <1>4, Mapped DEF Abstract!Rlock, Abstract!Outside, WaitR, WaitW

(* What joining the queue does to those who have the lock and those who    *)
(* wait.                                                                   *)
LEMMA EnqueueStep ==
  ASSUME IInv, NEW p \in Proc, NEW s \in {"QueueingR", "QueueingW"}, pc[p] = "out",
         Enqueue(p, s)
  PROVE  /\ Readers' = Readers /\ Writers' = Writers
         /\ WaitR' = IF s = "QueueingR" THEN WaitR \cup {p} ELSE WaitR
         /\ WaitW' = IF s = "QueueingW" THEN WaitW \cup {p} ELSE WaitW
<1>1. /\ queue' = Append(queue, p) /\ state' = [state EXCEPT ![p] = s]
      /\ pc' = [pc EXCEPT ![p] = "queued"]
  BY DEF Enqueue, Goto
<1>2. InQueue' = InQueue \cup {p}
  <2>1. /\ queue \in Seq(Proc) /\ DOMAIN queue = 1..Len(queue)
        /\ DOMAIN queue' = 1..(Len(queue) + 1)
        /\ \A i \in 1..Len(queue) : queue'[i] = queue[i]
        /\ queue'[Len(queue) + 1] = p
    BY <1>1 DEF IInv, TypeOK
  <2> QED
    BY <2>1 DEF InQueue
<1>3. p \notin Readers \cup Writers \cup InQueue /\ InQueue \subseteq Proc
  BY Waiting
<1>4. /\ state'[p] = s /\ pc'[p] = "queued"
      /\ \A q \in Proc : q # p => state'[q] = state[q] /\ pc'[q] = pc[q]
  BY <1>1 DEF IInv, TypeOK
<1>5. Readers' = Readers /\ Writers' = Writers
  BY <1>2, <1>3, <1>4 DEF Readers, Writers
<1> QED
  BY <1>2, <1>3, <1>4, <1>5 DEF WaitR, WaitW

(* rlock enters or waits. *)
LEMMA RlockStep ==
  ASSUME IInv, NEW p \in Proc, Rlock(p)
  PROVE  Abstract!Rlock(p)
<1>1. CASE pc[p] = "out" /\ ~CanRead /\ Enqueue(p, "QueueingR")
  <2>1. /\ Readers' = Readers /\ Writers' = Writers
        /\ WaitR' = WaitR \cup {p} /\ WaitW' = WaitW
    BY <1>1, EnqueueStep
  <2>2. /\ p \notin Readers \cup Writers \cup (WaitR \cup WaitW)
        /\ Writers # {} \/ WaitR \cup WaitW # {}
    BY <1>1, Waiting DEF CanRead
  <2> QED
    BY <2>1, <2>2, Mapped DEF Abstract!Rlock, Abstract!Outside, WaitR, WaitW
<1> QED
  BY <1>1, CanrlockStep DEF Rlock

(* wlock enters or waits.  When it finds no reader and no writer, nobody   *)
(* is queued.                                                              *)
LEMMA WlockStep ==
  ASSUME IInv, NEW p \in Proc, Wlock(p)
  PROVE  Abstract!Wlock(p)
<1>0. pc[p] = "out" /\ p \notin Readers \cup Writers \cup (WaitR \cup WaitW)
  BY Waiting DEF Wlock
<1>1. CASE readers = 0 /\ ~writer
  <2>1. pc' = [pc EXCEPT ![p] = "writing"] /\ UNCHANGED <<readers, queue, state, next>>
    BY <1>1 DEF Wlock, Goto
  <2>2. InQueue' = InQueue /\ WaitR' = WaitR /\ WaitW' = WaitW
    BY <2>1 DEF InQueue, WaitR, WaitW
  <2>3. Readers' = Readers /\ Writers' = Writers \cup {p}
    BY <1>0, <2>1, <2>2 DEF IInv, TypeOK, Readers, Writers, Places
  <2>4. queue = <<>>
    BY <1>1 DEF IInv, TypeOK, NoneForgotten
  <2>5. Writers = {} /\ Readers = {} /\ WaitR \cup WaitW = {}
    BY <1>1, <2>4, Waiting
  <2> QED
    BY <1>0, <2>2, <2>3, <2>5, Mapped DEF Abstract!Wlock, Abstract!Outside, WaitR, WaitW
<1>2. CASE ~(readers = 0 /\ ~writer)
  <2>1. /\ Readers' = Readers /\ Writers' = Writers
        /\ WaitR' = WaitR /\ WaitW' = WaitW \cup {p}
    BY <1>0, <1>2, EnqueueStep DEF Wlock
  <2>2. Readers \cup Writers # {}
    BY <1>2, Waiting
  <2> QED
    BY <1>0, <2>1, <2>2, Mapped DEF Abstract!Wlock, Abstract!Outside, WaitR, WaitW
<1> QED
  BY <1>1, <1>2

(* The last one out passes the lock to the writer at the head. *)
LEMMA HandOverStep ==
  ASSUME IInv, NEW p \in Proc, queue # <<>>, state[Head(queue)] = "QueueingW",
         queue' = Tail(queue), pc' = [pc EXCEPT ![p] = "ready"], state' = state,
         pc[p] \in {"writing", "reading"}, Readers \cup Writers = {p}
  PROVE  Abstract!PassOn(p)
<1> DEFINE h == Head(queue)
<1>1. /\ h \in InQueue /\ InQueue' = InQueue \ {h}
  BY TailQueue
<1>2. h \in Proc /\ pc[h] = "queued" /\ h # p /\ InQueue \subseteq Proc
  BY <1>1 DEF IInv, TypeOK, InQueue, Queue
<1>3. /\ pc'[p] = "ready" /\ \A q \in Proc : q # p => pc'[q] = pc[q]
  BY DEF IInv, TypeOK
<1>4. Readers' = Readers \ {p} /\ Writers' = (Writers \ {p}) \cup {h}
  BY <1>1, <1>2, <1>3 DEF Readers, Writers
<1>5. Readers' = {} /\ Writers' = {h}
  BY <1>4
<1>6. h \in WaitW /\ WaitW' = WaitW \ {h} /\ WaitR' = WaitR
  BY <1>1 DEF WaitR, WaitW
<1> HIDE DEF h
<1> QED
  BY <1>5, <1>6, Mapped DEF Abstract!PassOn, WaitR, WaitW

(* A reader leaves; the last one passes the lock on. *)
LEMMA RunlockStep ==
  ASSUME IInv, NEW p \in Proc, Runlock(p)
  PROVE  Abstract!Leave(p) \/ Abstract!PassOn(p)
<1>1. pc[p] = "reading" /\ readers' = readers - 1 /\ state' = state
  BY DEF Runlock
<1>2. p \in Readers /\ Writers = {} /\ ~writer /\ readers \in Nat
  BY <1>1 DEF IInv, TypeOK, Readers, Exclusion
<1>3. readers # 0
  BY <1>2, Waiting
<1>4. readers = 1 <=> Readers = {p}
  <2>1. readers = 1 => \E x : Readers = {x}
    BY FS_Singleton DEF IInv, Exclusion
  <2>2. Cardinality({p}) = 1
    BY FS_Singleton
  <2> QED
    BY <1>2, <2>1, <2>2 DEF IInv, Exclusion
<1>5. CASE readers > 1 \/ queue = <<>>
  <2>1. pc' = [pc EXCEPT ![p] = "out"] /\ UNCHANGED <<writer, queue, next>>
    BY <1>2, <1>3, <1>5 DEF Runlock, Goto
  <2>2. InQueue' = InQueue /\ WaitR' = WaitR /\ WaitW' = WaitW
    BY <1>1, <2>1 DEF InQueue, WaitR, WaitW
  <2>3. Readers' = Readers \ {p} /\ Writers' = Writers \ {p}
    BY <1>1, <2>1, <2>2 DEF IInv, TypeOK, Readers, Writers, Places
  <2>4. Readers # {p} \/ WaitR \cup WaitW = {}
    BY <1>4, <1>5, Waiting
  <2> QED
    BY <1>2, <2>2, <2>3, <2>4, Mapped DEF Abstract!Leave, WaitR, WaitW
<1>6. CASE readers <= 1 /\ queue # <<>>
  <2>1. state[Head(queue)] = "QueueingW"
    BY <1>2, <1>6 DEF IInv, NoneForgotten
  <2>2. queue' = Tail(queue) /\ pc' = [pc EXCEPT ![p] = "ready"]
    BY <1>2, <1>6, <2>1 DEF Runlock, Goto
  <2>3. Readers = {p}
    BY <1>2, <1>3, <1>4, <1>6
  <2> QED
    BY <1>1, <1>2, <1>6, <2>1, <2>2, <2>3, HandOverStep
<1> QED
  BY <1>2, <1>5, <1>6

(* A writer leaves the lock free, or to a writer, or to the readers before *)
(* the first writer.                                                       *)
LEMMA WunlockStep ==
  ASSUME IInv, NEW p \in Proc, Wunlock(p)
  PROVE  Abstract!Leave(p) \/ Abstract!PassOn(p)
<1>1. pc[p] = "writing"
  BY DEF Wunlock
<1>2. Writers = {p} /\ Readers = {}
  BY <1>1 DEF IInv, Exclusion, Writers
<1>3. CASE queue = <<>> /\ Goto(p, "out") /\ UNCHANGED <<readers, queue, state, next>>
  <2>1. pc' = [pc EXCEPT ![p] = "out"]
    BY <1>3 DEF Goto
  <2>2. InQueue' = InQueue /\ WaitR' = WaitR /\ WaitW' = WaitW
    BY <1>3 DEF InQueue, WaitR, WaitW
  <2>3. Readers' = Readers \ {p} /\ Writers' = Writers \ {p}
    BY <1>1, <1>2, <1>3, <2>1, <2>2 DEF IInv, TypeOK, Readers, Writers, Places
  <2>4. WaitR \cup WaitW = {}
    BY <1>3, Waiting
  <2> QED
    BY <1>2, <2>2, <2>3, <2>4, Mapped DEF Abstract!Leave, WaitR, WaitW
<1>4. CASE /\ queue # <<>> /\ state[Head(queue)] = "QueueingW"
           /\ queue' = Tail(queue)
           /\ Goto(p, "ready")
           /\ UNCHANGED <<readers, writer, state>>
  BY <1>1, <1>2, <1>4, HandOverStep DEF Goto
<1>5. ASSUME NEW k \in 1..Len(queue), NEW started, started = {queue[i] : i \in 1..k},
             \A r \in started : state[r] = "QueueingR",
             queue' = SubSeq(queue, k + 1, Len(queue)),
             state' = [r \in Proc |-> IF r \in started THEN MadeReady(state[r]) ELSE state[r]],
             Goto(p, "out")
      PROVE  Abstract!PassOn(p)
  <2>1. /\ Cardinality(started) = k /\ started \subseteq InQueue
        /\ InQueue' = InQueue \ started
    BY <1>5, StartedReaders
  <2>2. queue[1] \in started
    BY <1>5 DEF IInv, TypeOK
  <2>3. /\ pc' = [pc EXCEPT ![p] = "out"] /\ p \notin started
        /\ \A q \in Proc : state'[q] = IF q \in started THEN "ReadyR" ELSE state[q]
    BY <1>1, <1>5, <2>1 DEF IInv, Queue, MadeReady, Goto
  <2>4. InQueue \subseteq Proc /\ \A q \in InQueue : pc[q] = "queued" /\ q # p
    BY <1>1, Waiting DEF IInv, Queue
  <2>5. Readers' = started
    BY <1>1, <1>2, <2>1, <2>3, <2>4 DEF IInv, TypeOK, Readers, Places
  <2>6. Writers' = {}
    <3> SUFFICES ASSUME NEW q \in Proc, q \in Writers' PROVE FALSE
      BY DEF Writers
    <3>1. pc'[p] = "out" /\ \A r \in Proc : r # p => pc'[r] = pc[r]
      BY <2>3 DEF IInv, TypeOK
    <3>2. q # p
      BY <1>1, <2>3, <3>1 DEF Writers
    <3>3. q \notin started
      BY <2>1, <2>3, <2>4, <3>1 DEF Writers
    <3>4. q \in Writers
      BY <2>1, <2>3, <3>1, <3>2, <3>3 DEF Writers
    <3> QED
      BY <1>2, <3>2, <3>4
  <2>7. started \subseteq WaitR /\ WaitR' = WaitR \ started /\ WaitW' = WaitW
    BY <1>5, <2>1, <2>3, <2>4 DEF WaitR, WaitW
  <2>8. started # {}
    BY <2>2
  <2> QED
    BY <1>2, <2>5, <2>6, <2>7, <2>8, Mapped DEF Abstract!PassOn, WaitR, WaitW
<1>6. queue = <<>> \/ state[Head(queue)] \in {"QueueingR", "QueueingW"}
  <2>1. queue # <<>> => Head(queue) \in InQueue
    BY DEF IInv, TypeOK, InQueue
  <2> QED
    BY <2>1 DEF IInv, Queue
<1> QED
  BY <1>1, <1>3, <1>4, <1>5, <1>6 DEF Wunlock

(* Making the chosen writer ready, and its return from sched, change       *)
(* neither who has the lock nor who waits.                                 *)
LEMMA WakeStep ==
  ASSUME IInv, NEW p \in Proc, Ready(p) \/ Resume(p)
  PROVE  UNCHANGED Abstract!vars
<1>1. CASE Ready(p)
  <2> DEFINE h == next[p]
  <2>1. /\ pc[p] = "ready" /\ pc' = [pc EXCEPT ![p] = "out"]
        /\ state' = [state EXCEPT ![h] = MadeReady(@)] /\ queue' = queue
    BY <1>1 DEF Ready, Goto
  <2>2. /\ h \in Writers /\ h \in Proc /\ state[h] = "QueueingW" /\ pc[h] = "queued"
        /\ h \notin InQueue /\ h # p
    BY <2>1 DEF IInv, Handing, Writers, Places
  <2>3. /\ state'[h] = "ReadyW" /\ \A q \in Proc : q # h => state'[q] = state[q]
        /\ pc'[p] = "out" /\ \A q \in Proc : q # p => pc'[q] = pc[q]
    BY <2>1, <2>2 DEF IInv, TypeOK, MadeReady
  <2>4. InQueue' = InQueue /\ InQueue \subseteq Proc
    BY <2>1, Waiting DEF InQueue
  <2>5. Readers' = Readers /\ Writers' = Writers
    BY <2>1, <2>2, <2>3, <2>4 DEF Readers, Writers
  <2>6. WaitR' = WaitR /\ WaitW' = WaitW
    BY <2>2, <2>3, <2>4 DEF WaitR, WaitW
  <2> QED
    BY <2>5, <2>6, Mapped DEF Abstract!vars, WaitR, WaitW
<1>2. CASE Resume(p)
  <2>1. /\ pc[p] = "queued" /\ state[p] \in {"ReadyR", "ReadyW"}
        /\ state' = [state EXCEPT ![p] = "Running"]
        /\ pc' = [pc EXCEPT ![p] = IF state[p] = "ReadyR" THEN "reading" ELSE "writing"]
        /\ queue' = queue
    BY <1>2 DEF Resume, Goto
  <2>2. p \notin InQueue
    BY <2>1 DEF IInv, Queue
  <2>3. InQueue' = InQueue /\ InQueue \subseteq Proc
    BY <2>1, Waiting DEF InQueue
  <2>4. Readers' = Readers /\ Writers' = Writers
    BY <2>1, <2>2, <2>3 DEF IInv, TypeOK, Readers, Writers
  <2>5. WaitR' = WaitR /\ WaitW' = WaitW
    BY <2>1, <2>2, <2>3 DEF IInv, TypeOK, WaitR, WaitW
  <2> QED
    BY <2>4, <2>5, Mapped DEF Abstract!vars, WaitR, WaitW
<1> QED
  BY <1>1, <1>2

(* The kernel's lock implements RWMutex: nobody is let in past those who   *)
(* wait, although wlock looks at readers and writer only, and the last one *)
(* out hands the lock on.                                                  *)
THEOREM KRWLockImplementsRWMutex == Spec => ImplementsRWMutex
<1>1. Init => Abstract!Init
  BY DEF Init, Abstract!Init, Readers, Writers, InQueue
<1>2. IInv /\ [Next]_vars => [Abstract!Next]_(Abstract!vars)
  <2> SUFFICES ASSUME IInv, [Next]_vars PROVE [Abstract!Next]_(Abstract!vars)
    OBVIOUS
  <2>1. CASE UNCHANGED vars
    BY <2>1 DEF vars, Abstract!vars, Readers, Writers, InQueue
  <2>2. ASSUME NEW p \in Proc, Call(p) PROVE Abstract!Next
    BY <2>2, RlockStep, CanrlockStep, WlockStep DEF Call, Abstract!Next
  <2>3. ASSUME NEW p \in Proc, Step(p) PROVE [Abstract!Next]_(Abstract!vars)
    BY <2>3, RunlockStep, WunlockStep, WakeStep DEF Step, Abstract!Next
  <2> QED
    BY <2>1, <2>2, <2>3 DEF Next
<1> QED
  BY <1>1, <1>2, Invariance, PTL DEF Spec, ImplementsRWMutex, Abstract!Spec

-----------------------------------------------------------------------------
(***************************************************************************)
(* The part of NoStarvation that is safety: the users of the lock are      *)
(* never all asleep.                                                       *)
(***************************************************************************)

(* A writer taken off the queue and still asleep is about to be made ready *)
(* by the one that took it off.                                            *)
Coming == \A w \in Proc : pc[w] = "queued" /\ state[w] = "QueueingW" /\ w \notin InQueue =>
                          \E p \in Proc : pc[p] = "ready" /\ next[p] = w

(* While somebody is queued, somebody owns the lock, comes back from sched *)
(* with it, or is about to make its next owner ready.                      *)
NeverAllAsleep ==
  (\E p \in Proc : pc[p] = "queued") =>
     \E p \in Proc : \/ pc[p] \in {"reading", "writing", "ready"}
                     \/ pc[p] = "queued" /\ state[p] \in {"ReadyR", "ReadyW"}

(* Only runlock and wunlock take a writer off the queue, and they remember *)
(* it until it is ready.                                                   *)
LEMMA NextComing == IInv /\ Coming /\ [Next]_vars => Coming'
<1> SUFFICES ASSUME IInv, Coming, [Next]_vars,
                    NEW w \in Proc, pc'[w] = "queued", state'[w] = "QueueingW", w \notin InQueue'
             PROVE  \E p \in Proc : pc'[p] = "ready" /\ next'[p] = w
  BY DEF Coming
<1> USE DEF Goto
<1>1. CASE UNCHANGED vars
  BY <1>1 DEF vars, Coming, InQueue
<1>2. ASSUME NEW p \in Proc, NEW s, Enqueue(p, s), pc[p] = "out"
      PROVE  \E q \in Proc : pc'[q] = "ready" /\ next'[q] = w
  <2>1. InQueue' = InQueue \cup {p}
    <3>1. /\ queue \in Seq(Proc) /\ DOMAIN queue = 1..Len(queue)
          /\ DOMAIN queue' = 1..(Len(queue) + 1)
          /\ \A i \in 1..Len(queue) : queue'[i] = queue[i]
          /\ queue'[Len(queue) + 1] = p
      BY <1>2 DEF Enqueue, IInv, TypeOK
    <3> QED
      BY <3>1 DEF InQueue
  <2>2. w # p /\ pc[w] = "queued" /\ state[w] = "QueueingW" /\ w \notin InQueue
    BY <1>2, <2>1 DEF Enqueue, IInv, TypeOK
  <2> QED
    BY <1>2, <2>2 DEF Enqueue, Coming, IInv, TypeOK
<1>3. ASSUME NEW p \in Proc, Canrlock(p) \/ (Wlock(p) /\ readers = 0 /\ ~writer)
      PROVE  \E q \in Proc : pc'[q] = "ready" /\ next'[q] = w
  <2>1. pc[p] = "out" /\ UNCHANGED <<queue, state, next>> /\ InQueue' = InQueue
    BY <1>3 DEF Canrlock, Wlock, InQueue
  <2>2. \A q \in Proc : q # p => pc'[q] = pc[q]
    BY <1>3 DEF Canrlock, Wlock, IInv, TypeOK
  <2>3. pc'[p] # "queued"
    BY <1>3 DEF Canrlock, Wlock, IInv, TypeOK
  <2> QED
    BY <2>1, <2>2, <2>3 DEF Coming
<1>4. ASSUME NEW p \in Proc, pc[p] \in {"reading", "writing"}, queue # <<>>,
             queue' = Tail(queue), next' = [next EXCEPT ![p] = Head(queue)],
             pc' = [pc EXCEPT ![p] = "ready"], state' = state
      PROVE  \E q \in Proc : pc'[q] = "ready" /\ next'[q] = w
  <2>1. InQueue' = InQueue \ {Head(queue)}
    BY <1>4, TailQueue
  <2>2. /\ pc'[p] = "ready" /\ next'[p] = Head(queue)
        /\ \A q \in Proc : q # p => pc'[q] = pc[q] /\ next'[q] = next[q]
    BY <1>4 DEF IInv, TypeOK
  <2> QED
    BY <1>4, <2>1, <2>2 DEF Coming
<1>5. ASSUME NEW p \in Proc, pc[p] \in {"reading", "writing"}, pc' = [pc EXCEPT ![p] = "out"],
             UNCHANGED next, \A q \in Proc : state'[q] \in {state[q], "ReadyR"},
             InQueue' \cup {q \in Proc : state'[q] = "ReadyR"} = InQueue \cup {q \in Proc : state'[q] = "ReadyR"}
      PROVE  \E q \in Proc : pc'[q] = "ready" /\ next'[q] = w
  <2>1. pc'[p] = "out" /\ \A q \in Proc : q # p => pc'[q] = pc[q]
    BY <1>5 DEF IInv, TypeOK
  <2>2. w # p /\ pc[w] = "queued" /\ state[w] = "QueueingW" /\ w \notin InQueue
    BY <1>5, <2>1
  <2> QED
    BY <1>5, <2>1, <2>2 DEF Coming
<1>6. ASSUME NEW p \in Proc, Runlock(p)
      PROVE  \E q \in Proc : pc'[q] = "ready" /\ next'[q] = w
  <2>1. NoPanic'
    BY <1>6, RunlockInv DEF IInv
  <2>2. pc[p] = "reading" /\ state' = state /\ pc'[p] # "panic"
    BY <1>6, <2>1 DEF Runlock, NoPanic
  <2>3. CASE pc' = [pc EXCEPT ![p] = "out"] /\ UNCHANGED <<writer, queue, next>>
    <3>1. InQueue' = InQueue
      BY <2>3 DEF InQueue
    <3> QED
      BY <1>5, <2>2, <2>3, <3>1
  <2>4. CASE /\ queue # <<>> /\ queue' = Tail(queue)
             /\ next' = [next EXCEPT ![p] = Head(queue)] /\ pc' = [pc EXCEPT ![p] = "ready"]
    BY <1>4, <2>2, <2>4
  <2>5. pc' # [pc EXCEPT ![p] = "panic"]
    BY <2>2 DEF IInv, TypeOK
  <2> QED
    BY <1>6, <2>3, <2>4, <2>5 DEF Runlock
<1>7. ASSUME NEW p \in Proc, Wunlock(p)
      PROVE  \E q \in Proc : pc'[q] = "ready" /\ next'[q] = w
  <2>1. NoPanic'
    BY <1>7, WunlockInv DEF IInv
  <2>2. pc[p] = "writing" /\ pc'[p] # "panic"
    BY <1>7, <2>1 DEF Wunlock, NoPanic
  <2>3. CASE pc' = [pc EXCEPT ![p] = "out"] /\ UNCHANGED <<readers, queue, state, next>>
    <3>1. InQueue' = InQueue
      BY <2>3 DEF InQueue
    <3> QED
      BY <1>5, <2>2, <2>3, <3>1
  <2>4. CASE /\ queue # <<>> /\ queue' = Tail(queue) /\ state' = state
             /\ next' = [next EXCEPT ![p] = Head(queue)] /\ pc' = [pc EXCEPT ![p] = "ready"]
    BY <1>4, <2>2, <2>4
  <2>5. ASSUME NEW k \in 1..Len(queue), NEW started, started = {queue[i] : i \in 1..k},
               \A r \in started : state[r] = "QueueingR",
               queue' = SubSeq(queue, k + 1, Len(queue)),
               state' = [r \in Proc |-> IF r \in started THEN MadeReady(state[r]) ELSE state[r]],
               pc' = [pc EXCEPT ![p] = "out"], UNCHANGED next
        PROVE  \E q \in Proc : pc'[q] = "ready" /\ next'[q] = w
    <3>1. started \subseteq InQueue /\ InQueue' = InQueue \ started
      BY <2>5, StartedReaders
    <3>2. \A q \in Proc : state'[q] = IF q \in started THEN "ReadyR" ELSE state[q]
      BY <2>5 DEF MadeReady
    <3>3. started \subseteq Proc
      BY <3>1, Waiting
    <3> QED
      BY <1>5, <2>2, <2>5, <3>1, <3>2, <3>3
  <2>6. pc' # [pc EXCEPT ![p] = "panic"]
    BY <2>2 DEF IInv, TypeOK
  <2> QED
    BY <1>7, <2>3, <2>4, <2>5, <2>6 DEF Wunlock
<1>8. ASSUME NEW p \in Proc, Ready(p)
      PROVE  \E q \in Proc : pc'[q] = "ready" /\ next'[q] = w
  <2>1. /\ pc[p] = "ready" /\ pc' = [pc EXCEPT ![p] = "out"] /\ next' = [next EXCEPT ![p] = None]
        /\ state' = [state EXCEPT ![next[p]] = MadeReady(@)] /\ queue' = queue
    BY <1>8 DEF Ready
  <2>2. next[p] \in Proc /\ state[next[p]] = "QueueingW"
    BY <2>1 DEF IInv, Handing, Writers
  <2>3. state'[next[p]] = "ReadyW" /\ \A q \in Proc : q # next[p] => state'[q] = state[q]
    BY <2>1, <2>2 DEF IInv, TypeOK, MadeReady
  <2>4. /\ pc'[p] = "out"
        /\ \A q \in Proc : q # p => pc'[q] = pc[q] /\ next'[q] = next[q]
    BY <2>1 DEF IInv, TypeOK
  <2>5. InQueue' = InQueue
    BY <2>1 DEF InQueue
  <2>6. w # next[p] /\ w # p /\ pc[w] = "queued" /\ state[w] = "QueueingW" /\ w \notin InQueue
    BY <2>3, <2>4, <2>5
  <2>7. PICK q \in Proc : pc[q] = "ready" /\ next[q] = w
    BY <2>6 DEF Coming
  <2> QED
    BY <2>4, <2>6, <2>7
<1>9. ASSUME NEW p \in Proc, Resume(p)
      PROVE  \E q \in Proc : pc'[q] = "ready" /\ next'[q] = w
  <2>1. /\ pc[p] = "queued" /\ UNCHANGED <<queue, next>> /\ InQueue' = InQueue
        /\ state'[p] = "Running" /\ \A q \in Proc : q # p => state'[q] = state[q] /\ pc'[q] = pc[q]
    BY <1>9 DEF Resume, IInv, TypeOK, InQueue
  <2>2. w # p /\ pc[w] = "queued" /\ state[w] = "QueueingW" /\ w \notin InQueue
    BY <2>1
  <2>3. PICK q \in Proc : pc[q] = "ready" /\ next[q] = w
    BY <2>2 DEF Coming
  <2> QED
    BY <2>1, <2>3
<1>10. ASSUME NEW p \in Proc, Rlock(p) \/ Wlock(p)
       PROVE  \E q \in Proc : pc'[q] = "ready" /\ next'[q] = w
  BY <1>2, <1>3, <1>10 DEF Rlock, Wlock
<1> QED
  BY <1>1, <1>3, <1>6, <1>7, <1>8, <1>9, <1>10 DEF Next, Call, Step

(* The users of the lock are never all asleep: as long as anybody is       *)
(* queued, whether or not rlock or wlock is called again, some process can *)
(* run that brings the lock to the next one.                               *)
THEOREM KRWLockNeverAllAsleep == Spec => []NeverAllAsleep
<1>1. Init => Coming
  BY DEF Init, Coming
<1>2. IInv /\ Coming => NeverAllAsleep
  <2> SUFFICES ASSUME IInv, Coming, NEW w \in Proc, pc[w] = "queued"
               PROVE  \E p \in Proc : \/ pc[p] \in {"reading", "writing", "ready"}
                                      \/ pc[p] = "queued" /\ state[p] \in {"ReadyR", "ReadyW"}
    BY DEF NeverAllAsleep
  <2>1. CASE w \in InQueue
    <3>1. writer \/ readers > 0
      BY <2>1, Waiting DEF IInv, NoneForgotten
    <3>2. PICK p \in Proc : p \in Readers \cup Writers
      BY <3>1, Waiting DEF IInv, TypeOK
    <3>3. CASE pc[p] = "queued" /\ state[p] = "QueueingW" /\ p \notin InQueue
      BY <3>3 DEF Coming
    <3> QED
      BY <3>2, <3>3 DEF Readers, Writers
  <2>2. CASE w \notin InQueue
    BY <2>2 DEF IInv, TypeOK, States, Places, Coming
  <2> QED
    BY <2>1, <2>2
<1> QED
  BY <1>1, <1>2, Invariance, NextComing, PTL DEF Spec
=============================================================================
