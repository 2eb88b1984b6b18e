---------------------------- MODULE KQLockProofs ----------------------------
(***************************************************************************)
(* The kernel's QLock is owned once, never lost, never makes a process     *)
(* ready twice, implements Mutex and never leaves all of its users asleep, *)
(* for any number of processes and of posters of notes.                    *)
(***************************************************************************)
EXTENDS KQLock, SequenceTheorems, TLAPS

Entries(s) == {s[i] : i \in DOMAIN s}
Distinct(s) == \A i, j \in DOMAIN s : s[i] = s[j] => i = j

(* A process in the queue sleeps in qlock or eqlock, and eql says which. *)
Queue == /\ Distinct(queue)
         /\ \A p \in InQueue : /\ state[p] = "Queueing"
                               /\ \/ pc[p] = "queued"
                                  \/ pc[p] = "equeued" /\ eql[p]

(* States go with the place in the code; a process pulled out is Ready. *)
Places == /\ \A p \in Proc : eql[p] => pc[p] = "equeued"
          /\ \A p \in Proc : pc[p] \notin {"queued", "equeued"} => state[p] = "Running"
          /\ \A p \in Proc : pc[p] \in {"queued", "equeued"} => state[p] # "Running"
          /\ \A p \in Proc : Pulled(p) => state[p] = "Ready"

(* qunlock is about to make ready the one process chosen to be the owner.  *)
Handing == /\ \A p \in Proc : pc[p] = "ready" =>
                next[p] \in Owners /\ pc[next[p]] # "cs" /\ state[next[p]] = "Queueing"
           /\ \A p, q \in Proc : pc[p] = "ready" /\ pc[q] = "ready" => p = q

(* Between its two steps eqlock holds q->use, and the lock is taken. *)
Between == \A p \in Proc : pc[p] = "enq" => use = p /\ locked

IInv == TypeOK /\ OneOwner /\ Queue /\ Places /\ Handing /\ Between

(* Nothing is queued at the start. *)
LEMMA InitInv == Init => IInv
<1> SUFFICES ASSUME Init PROVE IInv
  OBVIOUS
<1>1. queue \in Seq(Proc) /\ InQueue = {} /\ Distinct(queue)
  BY DEF Init, InQueue, Distinct
<1>2. TypeOK
  BY <1>1 DEF Init, TypeOK, PCs
<1>3. Owners = {}
  BY DEF Init, Owners
<1> QED
  BY <1>1, <1>2, <1>3 DEF Init, IInv, OneOwner, Queue, Places, Handing, Between, Pulled

(* Taking the free lock. *)
LEMMA TakeInv ==
  ASSUME IInv, NEW p \in Proc, Take(p)
  PROVE  IInv'
<1> USE DEF Take, Goto, poster
<1>1. TypeOK' /\ InQueue' = InQueue
  BY DEF IInv, TypeOK, PCs, InQueue
<1>2. Owners = {} /\ queue = <<>> /\ InQueue = {}
  BY DEF IInv, OneOwner, InQueue
<1>3. Owners' = {p}
  BY <1>1, <1>2 DEF IInv, TypeOK, Owners, Pulled
<1>4. OneOwner' /\ Queue' /\ Places' /\ Handing' /\ Between'
  BY <1>1, <1>2, <1>3 DEF IInv, TypeOK, OneOwner, Queue, Places, Handing, Between, Pulled
<1> QED
  BY <1>1, <1>4 DEF IInv

(* What appending does to the queue. *)
LEMMA AppendQueue ==
  ASSUME NEW s \in Seq(Proc), NEW p \in Proc,
         p \notin Entries(s), Distinct(s)
  PROVE  /\ Append(s, p) \in Seq(Proc) /\ Distinct(Append(s, p))
         /\ Entries(Append(s, p)) = Entries(s) \cup {p}
<1> DEFINE t == Append(s, p)
<1>1. /\ t \in Seq(Proc) /\ t[Len(s) + 1] = p
      /\ DOMAIN t = DOMAIN s \cup {Len(s) + 1} /\ Len(s) + 1 \notin DOMAIN s
      /\ \A i \in DOMAIN s : t[i] = s[i]
  OBVIOUS
<1> HIDE DEF t
<1>2. Entries(t) = Entries(s) \cup {p}
  BY <1>1 DEF Entries
<1>3. Distinct(t)
  BY <1>1 DEF Distinct, Entries
<1> QED
  BY <1>1, <1>2, <1>3 DEF t

(* Joining the queue of a taken lock. *)
LEMMA EnqueueInv ==
  ASSUME IInv, NEW p \in Proc, NEW to \in {"queued", "equeued"},
         pc[p] \in {"out", "enq"}, locked, pc[p] = "out" => use = None,
         Enqueue(p, to), use' = None
  PROVE  IInv'
<1> USE DEF Enqueue, Goto, poster
<1>1. p \notin InQueue /\ state[p] = "Running"
  BY DEF IInv, Queue, Places
<1>2. queue' \in Seq(Proc) /\ Distinct(queue') /\ InQueue' = InQueue \cup {p}
  <2>1. InQueue = Entries(queue) /\ InQueue' = Entries(queue')
    BY DEF InQueue, Entries
  <2>2. queue' = Append(queue, p) /\ queue \in Seq(Proc) /\ Distinct(queue)
    BY DEF IInv, TypeOK, Queue
  <2> QED
    BY <1>1, <2>1, <2>2, AppendQueue
<1>3. /\ TypeOK'
      /\ pc'[p] = to /\ (eql'[p] <=> to = "equeued") /\ state'[p] = "Queueing"
      /\ \A q \in Proc : q # p => pc'[q] = pc[q] /\ eql'[q] = eql[q] /\ state'[q] = state[q]
  BY <1>2 DEF IInv, TypeOK, PCs
<1>4. Owners' = Owners
  BY <1>1, <1>2, <1>3 DEF Owners, Pulled
<1>5. OneOwner'
  BY <1>4 DEF IInv, OneOwner
<1>6. Queue'
  BY <1>2, <1>3 DEF IInv, Queue
<1>7. Places'
  BY <1>3 DEF IInv, Places, Pulled
<1>8. Handing'
  BY <1>1, <1>3, <1>4 DEF IInv, TypeOK, Handing
<1>9. Between'
  BY <1>3, KQLockAssumption DEF IInv, Between
<1> QED
  BY <1>3, <1>5, <1>6, <1>7, <1>8, <1>9 DEF IInv

(* The owner hands the lock to the head of the queue, or frees it. *)
LEMMA QunlockInv ==
  ASSUME IInv, NEW p \in Proc, Qunlock(p)
  PROVE  IInv'
<1> USE DEF Goto, poster
<1>1. pc[p] = "cs" /\ use = None /\ UNCHANGED <<use, state, eql, note, target, looked>>
  BY DEF Qunlock
<1>2. Owners = {p} /\ locked /\ \A q \in Proc : pc[q] # "ready"
  <2>1. p \in Owners
    BY <1>1 DEF Owners
  <2>2. Owners = {p} /\ locked
    BY <2>1 DEF IInv, OneOwner
  <2> QED
    BY <1>1, <2>2 DEF IInv, Handing
<1>3. p \notin InQueue
  BY <1>1 DEF IInv, Queue
<1>4. CASE queue = <<>>
  <2>1. /\ locked' = FALSE /\ UNCHANGED <<queue, next>> /\ pc' = [pc EXCEPT ![p] = "out"]
    BY <1>4 DEF Qunlock
  <2>2. TypeOK' /\ InQueue' = InQueue
    BY <1>1, <2>1 DEF IInv, TypeOK, PCs, InQueue
  <2>3. Owners' = {}
    BY <1>1, <1>2, <2>1, <2>2 DEF IInv, TypeOK, Owners, Pulled
  <2>4. OneOwner' /\ Queue'
    BY <1>1, <1>3, <1>4, <2>1, <2>2, <2>3 DEF IInv, TypeOK, OneOwner, Queue
  <2>5. Places' /\ Handing' /\ Between'
    BY <1>1, <1>2, <2>1, KQLockAssumption DEF IInv, TypeOK, Places, Handing, Between, Pulled
  <2> QED
    BY <2>2, <2>4, <2>5 DEF IInv
<1>5. CASE queue # <<>>
  <2> DEFINE h == Head(queue)
  <2>1. /\ locked' = locked /\ queue' = Tail(queue)
        /\ next' = [next EXCEPT ![p] = h] /\ pc' = [pc EXCEPT ![p] = "ready"]
    BY <1>5 DEF Qunlock
  <2>2. /\ h \in Proc /\ queue' \in Seq(Proc) /\ Distinct(queue')
        /\ InQueue' = InQueue \ {h} /\ h \in InQueue
    <3>1. queue \in Seq(Proc) /\ Distinct(queue) /\ 1 \in DOMAIN queue /\ h = queue[1]
      BY <1>5 DEF IInv, TypeOK, Queue
    <3>2. /\ queue' \in Seq(Proc) /\ Len(queue') = Len(queue) - 1
          /\ \A i \in DOMAIN queue' : i + 1 \in DOMAIN queue /\ queue'[i] = queue[i + 1] /\ i + 1 # 1
      BY <1>5, <2>1, <3>1
    <3>3. \A i \in DOMAIN queue : i # 1 => i - 1 \in DOMAIN queue' /\ queue'[i - 1] = queue[i]
      BY <3>1, <3>2
    <3>4. Distinct(queue')
      BY <3>1, <3>2 DEF Distinct
    <3>5. \A q \in InQueue' : q \in InQueue /\ q # h
      BY <3>1, <3>2 DEF InQueue, Distinct
    <3>6. \A q \in InQueue : q # h => q \in InQueue'
      BY <3>1, <3>3 DEF InQueue
    <3>7. h \in InQueue /\ h \in Proc
      BY <3>1 DEF InQueue
    <3> QED
      BY <3>2, <3>4, <3>5, <3>6, <3>7
  <2>3. /\ state[h] = "Queueing" /\ h # p
        /\ pc[h] = "queued" \/ (pc[h] = "equeued" /\ eql[h])
    BY <1>3, <2>2 DEF IInv, Queue
  <2> HIDE DEF h
  <2>4. /\ TypeOK' /\ pc'[p] = "ready" /\ next'[p] = h
        /\ \A q \in Proc : q # p => pc'[q] = pc[q] /\ next'[q] = next[q]
    BY <1>1, <2>1, <2>2 DEF IInv, TypeOK, PCs
  <2>5. Owners' = {h}
    BY <1>1, <1>2, <2>2, <2>3, <2>4 DEF Owners, Pulled
  <2>6. OneOwner' /\ Queue'
    BY <1>1, <1>2, <1>3, <2>1, <2>2, <2>4, <2>5 DEF IInv, OneOwner, Queue
  <2>7. Places' /\ Between'
    BY <1>1, <2>1, <2>4 DEF IInv, Places, Between, Pulled
  <2>8. Handing'
    BY <1>1, <1>2, <2>2, <2>3, <2>4, <2>5 DEF Handing
  <2> QED
    BY <2>4, <2>6, <2>7, <2>8 DEF IInv
<1> QED
  BY <1>4, <1>5

(* ready() of the process chosen. *)
LEMMA ReadyInv ==
  ASSUME IInv, NEW p \in Proc, QunlockReady(p)
  PROVE  IInv'
<1> USE DEF Goto, poster
<1> DEFINE h == next[p]
<1>1. /\ pc[p] = "ready" /\ state' = [state EXCEPT ![h] = "Ready"]
      /\ next' = [next EXCEPT ![p] = None] /\ pc' = [pc EXCEPT ![p] = "out"]
      /\ UNCHANGED <<use, locked, queue, eql, note, target, looked>>
  BY DEF QunlockReady
<1>2. h \in Proc /\ h \in Owners /\ state[h] = "Queueing" /\ pc[h] \in {"queued", "equeued"}
      /\ h \notin InQueue /\ ~Pulled(h) /\ h # p
  BY <1>1 DEF IInv, Handing, Owners
<1> HIDE DEF h
<1>3. /\ TypeOK' /\ InQueue' = InQueue /\ pc'[p] = "out" /\ state'[h] = "Ready"
      /\ \A q \in Proc : q # p => pc'[q] = pc[q]
      /\ \A q \in Proc : q # h => state'[q] = state[q]
  BY <1>1, <1>2 DEF IInv, TypeOK, PCs, InQueue
<1>4. Owners' = Owners
  BY <1>1, <1>3 DEF Owners, Pulled
<1>5. OneOwner' /\ Queue' /\ Between'
  BY <1>1, <1>2, <1>3, <1>4 DEF IInv, OneOwner, Queue, Between
<1>6. Places'
  BY <1>1, <1>2, <1>3 DEF IInv, Places, Pulled
<1>7. Handing'
  BY <1>1, <1>3 DEF IInv, Handing
<1> QED
  BY <1>3, <1>5, <1>6, <1>7 DEF IInv

(* The process chosen, or pulled out, returns from sched(). *)
LEMMA ResumeInv ==
  ASSUME IInv, NEW p \in Proc, Resume(p)
  PROVE  IInv'
<1> USE DEF Goto, poster
<1>1. /\ state[p] = "Ready" /\ state' = [state EXCEPT ![p] = "Running"]
      /\ eql' = [eql EXCEPT ![p] = FALSE]
      /\ pc' = [pc EXCEPT ![p] = IF Pulled(p) THEN "out" ELSE "cs"]
      /\ UNCHANGED <<use, locked, queue, next, target, looked>>
  BY DEF Resume, Pulled
<1>2. pc[p] \in {"queued", "equeued"} /\ p \notin InQueue
  BY <1>1 DEF IInv, Places, Queue
<1>3. /\ InQueue' = InQueue /\ eql'[p] = FALSE /\ state'[p] = "Running"
      /\ pc'[p] = IF Pulled(p) THEN "out" ELSE "cs"
      /\ \A q \in Proc : q # p => pc'[q] = pc[q] /\ eql'[q] = eql[q] /\ state'[q] = state[q]
  BY <1>1 DEF IInv, TypeOK, InQueue
<1>4. TypeOK'
  <2>1. note' \in [Proc -> BOOLEAN]
    BY DEF Resume, IInv, TypeOK
  <2>2. pc' \in [Proc -> PCs]
    BY <1>1 DEF IInv, TypeOK, PCs
  <2> QED
    BY <1>1, <2>1, <2>2 DEF IInv, TypeOK
<1>5. Owners' = Owners
  BY <1>2, <1>3 DEF Owners, Pulled
<1>6. OneOwner' /\ Queue' /\ Between'
  BY <1>1, <1>2, <1>3, <1>5 DEF IInv, OneOwner, Queue, Between
<1>7. Places'
  BY <1>3 DEF IInv, Places, Pulled
<1>8. Handing'
  <2>1. \A q \in Proc : pc[q] = "ready" => next[q] # p
    BY <1>1 DEF IInv, Handing
  <2>2. \A q \in Proc : pc'[q] = "ready" => pc[q] = "ready" /\ next'[q] = next[q]
    BY <1>1, <1>3
  <2>3. Owners \subseteq Proc
    BY DEF Owners
  <2> QED
    BY <1>3, <1>5, <2>1, <2>2, <2>3 DEF IInv, Handing
<1> QED
  BY <1>4, <1>6, <1>7, <1>8 DEF IInv

(* What taking one element out does to the queue. *)
LEMMA RemoveAtQueue ==
  ASSUME NEW s \in Seq(Proc), Distinct(s), NEW k \in DOMAIN s
  PROVE  /\ RemoveAt(s, k) \in Seq(Proc) /\ Distinct(RemoveAt(s, k))
         /\ Entries(RemoveAt(s, k)) = Entries(s) \ {s[k]}
<1> DEFINE a == SubSeq(s, 1, k - 1)
           b == SubSeq(s, k + 1, Len(s))
           t == a \o b
           at(i) == IF i < k THEN i ELSE i + 1
<1>1. k \in 1..Len(s) /\ k \in Nat /\ Len(s) \in Nat /\ DOMAIN s = 1..Len(s)
  OBVIOUS
<1>2. /\ a \in Seq(Proc) /\ Len(a) = k - 1 /\ \A i \in 1..(k - 1) : a[i] = s[i]
      /\ b \in Seq(Proc) /\ Len(b) = Len(s) - k
      /\ \A i \in 1..(Len(s) - k) : b[i] = s[i + k]
  <2>1. /\ k - 1 \in Int /\ k + 1 \in Int /\ Len(s) \in Int /\ 1 \in Int
        /\ \A i \in 1..(k - 1) : s[i] \in Proc
        /\ \A i \in (k + 1)..Len(s) : s[i] \in Proc
    BY <1>1
  <2>2. /\ a \in Seq(Proc) /\ Len(a) = IF 1 <= k - 1 THEN (k - 1) - 1 + 1 ELSE 0
        /\ \A i \in 1..((k - 1) - 1 + 1) : a[i] = s[1 + i - 1]
    BY <2>1, SubSeqProperties
  <2>3. /\ b \in Seq(Proc) /\ Len(b) = IF k + 1 <= Len(s) THEN Len(s) - (k + 1) + 1 ELSE 0
        /\ \A i \in 1..(Len(s) - (k + 1) + 1) : b[i] = s[(k + 1) + i - 1]
    BY <2>1, SubSeqProperties
  <2> HIDE DEF a, b
  <2>4. Len(a) = k - 1 /\ Len(b) = Len(s) - k
    BY <1>1, <2>2, <2>3
  <2>5. ASSUME NEW i \in 1..(k - 1) PROVE a[i] = s[i]
    <3>1. i \in 1..((k - 1) - 1 + 1) /\ 1 + i - 1 = i
      BY <1>1
    <3> QED
      BY <2>2, <3>1
  <2>6. ASSUME NEW i \in 1..(Len(s) - k) PROVE b[i] = s[i + k]
    <3>1. i \in 1..(Len(s) - (k + 1) + 1) /\ (k + 1) + i - 1 = i + k
      BY <1>1
    <3> QED
      BY <2>3, <3>1
  <2> QED
    BY <2>2, <2>3, <2>4, <2>5, <2>6
<1> HIDE DEF a, b
<1>3. /\ t \in Seq(Proc) /\ Len(t) = Len(s) - 1
      /\ \A i \in 1..Len(t) : t[i] = IF i <= Len(a) THEN a[i] ELSE b[i - Len(a)]
  <2>0. a \in Seq(Proc) /\ b \in Seq(Proc)
    BY <1>2
  <2>1. t \in Seq(Proc) /\ Len(t) = Len(a) + Len(b)
    BY <2>0, ConcatProperties
  <2>2. \A i \in 1..(Len(a) + Len(b)) : t[i] = IF i <= Len(a) THEN a[i] ELSE b[i - Len(a)]
    BY <2>0, ConcatProperties
  <2> HIDE DEF t
  <2> QED
    BY <1>1, <1>2, <2>1, <2>2
<1> HIDE DEF t
<1>4. \A i \in 1..Len(t) : at(i) \in 1..Len(s) /\ at(i) # k /\ t[i] = s[at(i)]
  <2> SUFFICES ASSUME NEW i \in 1..Len(t)
               PROVE  at(i) \in 1..Len(s) /\ at(i) # k /\ t[i] = s[at(i)]
    OBVIOUS
  <2>1. CASE i < k
    BY <1>1, <1>2, <1>3, <2>1
  <2>2. CASE i >= k
    <3>1. i - (k - 1) \in 1..(Len(s) - k) /\ (i - (k - 1)) + k = i + 1
      BY <1>1, <1>3, <2>2
    <3>2. t[i] = b[i - (k - 1)]
      BY <1>1, <1>2, <1>3, <2>2
    <3>3. t[i] = s[i + 1]
      BY <1>2, <3>1, <3>2
    <3> QED
      BY <1>1, <1>3, <2>2, <3>3
  <2> QED
    BY <1>1, <2>1, <2>2
<1>5. \A j \in 1..Len(s) : j # k => \E i \in 1..Len(t) : at(i) = j
  <2> SUFFICES ASSUME NEW j \in 1..Len(s), j # k PROVE \E i \in 1..Len(t) : at(i) = j
    OBVIOUS
  <2>1. CASE j < k
    <3>1. j \in 1..Len(t) /\ at(j) = j
      BY <1>1, <1>3, <2>1
    <3> QED
      BY <3>1
  <2>2. CASE j > k
    <3>1. j - 1 \in 1..Len(t) /\ at(j - 1) = j
      BY <1>1, <1>3, <2>2
    <3> QED
      BY <3>1
  <2> QED
    BY <1>1, <2>1, <2>2
<1>6. DOMAIN t = 1..Len(t) /\ \A i, j \in 1..Len(t) : at(i) = at(j) => i = j
  BY <1>3
<1>7. \A i, j \in 1..Len(s) : s[i] = s[j] => i = j
  BY <1>1 DEF Distinct
<1> HIDE DEF at
<1>8. Distinct(t)
  BY <1>4, <1>6, <1>7 DEF Distinct
<1>9. Entries(t) = Entries(s) \ {s[k]}
  <2>1. \A x \in Entries(t) : x \in Entries(s) /\ x # s[k]
    BY <1>1, <1>4, <1>6, <1>7 DEF Entries
  <2>2. ASSUME NEW x \in Entries(s), x # s[k] PROVE x \in Entries(t)
    <3>1. PICK j \in 1..Len(s) : x = s[j] /\ j # k
      BY <1>1, <2>2 DEF Entries
    <3>2. PICK i \in 1..Len(t) : at(i) = j
      BY <1>5, <3>1
    <3> QED
      BY <1>4, <1>6, <3>1, <3>2 DEF Entries
  <2> QED
    BY <2>1, <2>2
<1> QED
  BY <1>3, <1>8, <1>9 DEF t, a, b, RemoveAt

(* A poster pulls a process out of eqlock only while it is in the queue. *)
LEMMA PullInv ==
  ASSUME IInv, NEW n \in Poster, Pull(n)
  PROVE  IInv'
<1> USE DEF poster
<1>1. /\ UNCHANGED <<use, locked, note, pc, next>>
      /\ target' \in [Poster -> Proc \cup {None}] /\ looked' \in [Poster -> BOOLEAN]
  BY DEF Pull, IInv, TypeOK
<1>2. CASE UNCHANGED <<queue, eql, state>>
  <2>1. TypeOK'
    BY <1>1, <1>2 DEF IInv, TypeOK
  <2>2. InQueue' = InQueue /\ Owners' = Owners
    BY <1>1, <1>2 DEF InQueue, Owners, Pulled
  <2> QED
    BY <1>1, <1>2, <2>1, <2>2
    DEF IInv, OneOwner, Queue, Places, Handing, Between, Pulled
<1>3. ASSUME NEW i \in DOMAIN queue, NEW p, p = queue[i], eql[p],
             queue' = RemoveAt(queue, i),
             eql' = [eql EXCEPT ![p] = FALSE], state' = [state EXCEPT ![p] = "Ready"]
      PROVE  IInv'
  <2>1. p \in Proc /\ p \in InQueue /\ pc[p] = "equeued" /\ state[p] = "Queueing"
    <3>1. p \in Proc /\ p \in InQueue
      BY <1>3 DEF IInv, TypeOK, InQueue
    <3> QED
      BY <1>3, <3>1 DEF IInv, Queue, Places
  <2>2. queue' \in Seq(Proc) /\ Distinct(queue') /\ InQueue' = InQueue \ {p}
    <3>1. InQueue = Entries(queue) /\ InQueue' = Entries(queue')
      BY DEF InQueue, Entries
    <3> QED
      BY <1>3, <3>1, RemoveAtQueue DEF IInv, TypeOK, Queue
  <2>3. /\ TypeOK' /\ eql'[p] = FALSE /\ state'[p] = "Ready"
        /\ \A q \in Proc : q # p => eql'[q] = eql[q] /\ state'[q] = state[q]
    BY <1>1, <1>3, <2>1, <2>2 DEF IInv, TypeOK
  <2>4. Owners' = Owners /\ p \notin Owners
    BY <1>1, <2>1, <2>2, <2>3 DEF Owners, Pulled
  <2>5. OneOwner'
    BY <1>1, <2>1, <2>4 DEF IInv, OneOwner, InQueue
  <2>6. Queue'
    <3>1. InQueue \subseteq Proc
      BY DEF IInv, TypeOK, InQueue
    <3> QED
      BY <1>1, <2>2, <2>3, <3>1 DEF IInv, Queue
  <2>7. Places' /\ Between'
    BY <1>1, <2>1, <2>3 DEF IInv, Places, Between, Pulled
  <2>8. Handing'
    <3>1. Owners \subseteq Proc
      BY DEF Owners
    <3> QED
      BY <1>1, <2>3, <2>4, <3>1 DEF IInv, Handing
  <2> QED
    BY <2>3, <2>5, <2>6, <2>7, <2>8 DEF IInv
<1> QED
  BY <1>2, <1>3 DEF Pull

(* The steps that leave queue, lock and states alone. *)
LEMMA OtherInv ==
  ASSUME IInv, UNCHANGED <<locked, queue, state, eql, next>>, TypeOK',
         \/ UNCHANGED <<use, pc>>
         \/ \E p \in Proc : /\ pc[p] = "out" /\ use = None /\ locked /\ use' = p
                             /\ pc' = [pc EXCEPT ![p] = "enq"]
  PROVE  IInv'
<1>1. InQueue' = InQueue
  BY DEF InQueue
<1>2. \A p \in Proc : \/ pc'[p] = pc[p]
                      \/ pc[p] = "out" /\ pc'[p] = "enq" /\ use' = p /\ locked /\ use = None
  BY DEF IInv, TypeOK
<1>3. Owners' = Owners
  BY <1>1, <1>2 DEF Owners, Pulled
<1>4. Between'
  <2>1. CASE UNCHANGED <<use, pc>>
    BY <2>1 DEF IInv, Between
  <2>2. CASE use = None
    BY <1>2, <2>2, KQLockAssumption DEF IInv, Between
  <2> QED
    BY <2>1, <2>2
<1>5. OneOwner' /\ Queue'
  <2>1. InQueue \subseteq Proc
    BY DEF IInv, TypeOK, InQueue
  <2> QED
    BY <1>1, <1>2, <1>3, <2>1 DEF IInv, OneOwner, Queue
<1>6. Places'
  BY <1>2 DEF IInv, Places, Pulled
<1>7. Handing'
  <2>1. Owners \subseteq Proc
    BY DEF Owners
  <2> QED
    BY <1>2, <1>3, <2>1 DEF IInv, Handing
<1> QED
  BY <1>4, <1>5, <1>6, <1>7 DEF IInv

(* Every step keeps the invariant. *)
LEMMA NextInv == IInv /\ [Next]_vars => IInv'
<1> SUFFICES ASSUME IInv, [Next]_vars PROVE IInv'
  OBVIOUS
<1>1. CASE UNCHANGED vars
  BY <1>1, OtherInv DEF vars, IInv, TypeOK
<1>2. ASSUME NEW p \in Proc, Call(p) PROVE IInv'
  <2>1. CASE Take(p)
    BY <2>1, TakeInv
  <2>2. CASE pc[p] = "out" /\ use = None /\ locked /\ Enqueue(p, "queued") /\ UNCHANGED use
    <3>1. use' = None
      BY <2>2
    <3> QED
      BY <2>2, <3>1, EnqueueInv
  <2>3. CASE EqlockTest(p)
    <3>1. TypeOK'
      BY <2>3 DEF EqlockTest, Goto, poster, IInv, TypeOK, PCs
    <3>2. \/ UNCHANGED <<use, pc>>
          \/ /\ pc[p] = "out" /\ use = None /\ locked /\ use' = p
             /\ pc' = [pc EXCEPT ![p] = "enq"]
      BY <2>3 DEF EqlockTest, Goto
    <3>3. UNCHANGED <<locked, queue, state, eql, next>>
      BY <2>3 DEF EqlockTest
    <3> QED
      BY <3>1, <3>2, <3>3, OtherInv
  <2> QED
    BY <1>2, <2>1, <2>2, <2>3 DEF Call, Qlock, Eqlock, Canqlock
<1>3. ASSUME NEW p \in Proc, Step(p) PROVE IInv'
  <2>1. CASE EqlockQueue(p)
    <3>1. pc[p] = "enq" /\ locked
      BY <2>1 DEF EqlockQueue, IInv, Between
    <3> QED
      BY <2>1, <3>1, EnqueueInv DEF EqlockQueue
  <2> QED
    BY <1>3, <2>1, ResumeInv, QunlockInv, ReadyInv DEF Step
<1>4. ASSUME NEW p \in Proc, Notify(p) PROVE IInv'
  <2>1. TypeOK'
    BY <1>4 DEF Notify, poster, IInv, TypeOK
  <2> QED
    BY <1>4, <2>1, OtherInv DEF Notify, poster
<1>5. ASSUME NEW n \in Poster, Look(n) \/ \E p \in Proc : Post(n, p) PROVE IInv'
  <2>1. TypeOK'
    BY <1>5 DEF Look, Post, IInv, TypeOK
  <2> QED
    BY <1>5, <2>1, OtherInv DEF Look, Post
<1> QED
  BY <1>1, <1>2, <1>3, <1>4, <1>5, PullInv DEF Next

(* The invariant holds of every behaviour. *)
THEOREM Invariance == Spec => []IInv
  BY InitInv, NextInv, PTL DEF Spec

(* qlock, eqlock, canqlock and qunlock never give the lock to two          *)
(* processes and never lose it, whatever notes are posted meanwhile.       *)
THEOREM KQLockOneOwner == Spec => []OneOwner
<1>1. IInv => OneOwner
  BY DEF IInv
<1> QED
  BY <1>1, Invariance, PTL

(* qunlock never calls ready() on a process that is ready or running.      *)
THEOREM KQLockReadyOnce == Spec => []ReadyOnce
<1>1. IInv => ReadyOnce
  BY DEF IInv, ReadyOnce, Handing, Owners
<1> QED
  BY <1>1, Invariance, PTL

(* The queue of the kernel's QLock holds processes, in states of qlock.c.  *)
THEOREM KQLockTypeOK == Spec => []TypeOK
<1>1. IInv => TypeOK
  BY DEF IInv
<1> QED
  BY <1>1, Invariance, PTL
-----------------------------------------------------------------------------
(* The refinement: who runs between qlock and qunlock is the holder of     *)
(* Mutex.                                                                  *)
Critical == {p \in Proc : pc[p] = "cs"}
Holder == IF \E p \in Proc : pc[p] = "cs" THEN CHOOSE p \in Proc : pc[p] = "cs" ELSE None

(* With at most one process in its critical section, it is the holder. *)
LEMMA HolderUnique ==
  ASSUME IInv
  PROVE  /\ Critical = {} => Holder = None
         /\ \A p \in Proc : pc[p] = "cs" => Critical = {p} /\ Holder = p
<1>1. Critical = {} => Holder = None
  BY DEF Critical, Holder
<1>2. ASSUME NEW p \in Proc, pc[p] = "cs" PROVE Critical = {p} /\ Holder = p
  <2>1. \A q \in Proc : pc[q] = "cs" => q = p
    BY <1>2 DEF IInv, OneOwner, Owners
  <2>2. (CHOOSE q \in Proc : pc[q] = "cs") = p
    BY <1>2, <2>1
  <2> QED
    BY <1>2, <2>1, <2>2 DEF Critical, Holder
<1> QED
  BY <1>1, <1>2

(* A step that lets nobody in or out leaves the holder. *)
LEMMA HolderStays ==
  ASSUME IInv, IInv', \A p \in Proc : pc'[p] = "cs" <=> pc[p] = "cs"
  PROVE  Holder' = Holder
<1>1. CASE Critical = {}
  BY <1>1, HolderUnique, Critical' = {} DEF Critical, Holder
<1>2. CASE Critical # {}
  <2>1. PICK p \in Proc : pc[p] = "cs" /\ pc'[p] = "cs"
    BY <1>2 DEF Critical
  <2>2. Holder = p
    BY <2>1, HolderUnique
  <2>3. Holder' = p
    <3>1. \A q \in Proc : pc'[q] = "cs" => q = p
      BY <2>1, HolderUnique DEF Critical
    <3>2. (CHOOSE q \in Proc : pc'[q] = "cs") = p
      BY <2>1, <3>1
    <3> QED
      BY <2>1, <3>2 DEF Holder
  <2> QED
    BY <2>2, <2>3
<1> QED
  BY <1>1, <1>2

(* Let in when nobody is inside: the holder was nobody, and is p now. *)
LEMMA HolderEnters ==
  ASSUME IInv, NEW p \in Proc, pc' = [pc EXCEPT ![p] = "cs"], Critical = {}
  PROVE  Holder = None /\ Holder' = p
<1>1. \A q \in Proc : pc'[q] = "cs" <=> q = p
  BY DEF IInv, TypeOK, Critical
<1>2. (CHOOSE q \in Proc : pc'[q] = "cs") = p
  BY <1>1
<1> QED
  BY <1>1, <1>2, HolderUnique DEF Holder

(* Leaving: the holder was p, and is nobody now. *)
LEMMA HolderLeaves ==
  ASSUME IInv, NEW p \in Proc, pc[p] = "cs",
         NEW to, to # "cs", pc' = [pc EXCEPT ![p] = to]
  PROVE  Holder = p /\ Holder' = None
<1>1. \A q \in Proc : pc'[q] # "cs"
  BY HolderUnique DEF IInv, TypeOK, Critical
<1> QED
  BY <1>1, HolderUnique DEF Holder

(* Only Take, Resume and Qunlock change who is inside: the first two when  *)
(* the process owns a lock nobody else is inside of.                       *)
LEMMA StepOfMutex ==
  ASSUME IInv, IInv', Next
  PROVE  \/ Holder' = Holder
         \/ \E p \in Proc : \/ Holder = None /\ Holder' = p
                            \/ Holder = p /\ Holder' = None
<1>1. ASSUME NEW p \in Proc, Take(p) PROVE Holder = None /\ Holder' = p
  <2>1. Critical = {} /\ pc' = [pc EXCEPT ![p] = "cs"]
    BY <1>1 DEF Take, Goto, IInv, OneOwner, Owners, Critical
  <2> QED
    BY <2>1, HolderEnters
<1>2. ASSUME NEW p \in Proc, Resume(p)
      PROVE  Holder' = Holder \/ (Holder = None /\ Holder' = p)
  <2>1. pc[p] \in {"queued", "equeued"} /\ p \notin InQueue
    BY <1>2 DEF Resume, IInv, TypeOK, PCs, Places, Queue
  <2>2. CASE pc' = [pc EXCEPT ![p] = "out"]
    BY <2>1, <2>2, HolderStays DEF IInv, TypeOK
  <2>3. CASE pc' = [pc EXCEPT ![p] = "cs"] /\ ~(pc[p] = "equeued" /\ ~eql[p])
    <3>1. p \in Owners
      BY <2>1, <2>3 DEF Owners, Pulled
    <3>2. Critical = {}
      BY <2>1, <3>1 DEF IInv, OneOwner, Owners, Critical
    <3> QED
      BY <2>3, <3>2, HolderEnters
  <2> QED
    BY <1>2, <2>2, <2>3 DEF Resume, Goto
<1>3. ASSUME NEW p \in Proc, Qunlock(p) PROVE Holder = p /\ Holder' = None
  <2>1. PICK to \in {"out", "ready"} : pc' = [pc EXCEPT ![p] = to]
    BY <1>3 DEF Qunlock, Goto
  <2> QED
    BY <1>3, <2>1, HolderLeaves DEF Qunlock
<1>4. ASSUME NEW p \in Proc, pc[p] # "cs",
             NEW to, to # "cs", pc' = [pc EXCEPT ![p] = to]
      PROVE  Holder' = Holder
  BY <1>4, HolderStays DEF IInv, TypeOK
<1>5. ASSUME NEW p \in Proc, Call(p), ~Take(p) PROVE Holder' = Holder
  <2>1. pc[p] = "out" /\ (pc' = pc \/ \E to \in {"queued", "enq"} : pc' = [pc EXCEPT ![p] = to])
    BY <1>5 DEF Call, Qlock, Eqlock, Canqlock, EqlockTest, Enqueue, Goto
  <2>2. CASE pc' = pc
    BY <2>2, HolderStays
  <2> QED
    BY <1>4, <2>1, <2>2
<1>6. ASSUME NEW p \in Proc, EqlockQueue(p) \/ QunlockReady(p) PROVE Holder' = Holder
  <2>1. pc[p] # "cs" /\ \E to \in {"equeued", "out"} : pc' = [pc EXCEPT ![p] = to]
    BY <1>6 DEF EqlockQueue, QunlockReady, Enqueue, Goto
  <2> QED
    BY <1>4, <2>1
<1>7. ASSUME pc' = pc PROVE Holder' = Holder
  BY <1>7, HolderStays
<1>8. ASSUME NEW p \in Proc, Notify(p) PROVE pc' = pc
  BY <1>8 DEF Notify
<1>9. ASSUME NEW n \in Poster, Look(n) \/ Pull(n) \/ \E p \in Proc : Post(n, p) PROVE pc' = pc
  BY <1>9 DEF Look, Pull, Post
<1> QED
  BY <1>1, <1>2, <1>3, <1>5, <1>6, <1>7, <1>8, <1>9 DEF Next, Step

(* The kernel's QLock implements Mutex: qlock, eqlock and canqlock let a   *)
(* process in only when nobody is inside, and only the process inside gets *)
(* out, by qunlock.                                                        *)
THEOREM KQLockImplementsMutex == Spec => ImplementsMutex
<1>1. Init => Abstract!Init
  BY DEF Init, Abstract!Init
<1>2. IInv /\ IInv' /\ [Next]_vars => [Abstract!Next]_Holder
  <2> SUFFICES ASSUME IInv, IInv', [Next]_vars
               PROVE  Abstract!Next \/ Holder' = Holder
    OBVIOUS
  <2>1. CASE UNCHANGED vars
    BY <2>1, HolderStays DEF vars
  <2>2. CASE Next
    BY <2>2, StepOfMutex DEF Abstract!Next, Abstract!Acquire, Abstract!Release, Holder
  <2> QED
    BY <2>1, <2>2
<1> QED
  BY <1>1, <1>2, Invariance, PTL DEF Spec, ImplementsMutex, Abstract!Spec, Holder
-----------------------------------------------------------------------------
(***************************************************************************)
(* The part of NoStarvation that is safety: the users of the lock are      *)
(* never all asleep.                                                       *)
(***************************************************************************)
Asleep(p) == pc[p] \in {"queued", "equeued"} /\ state[p] = "Queueing"

(* A process taken off the queue and still asleep is about to be made      *)
(* ready by the qunlock that took it off.                                  *)
Coming == \A w \in Proc : Asleep(w) /\ w \notin InQueue =>
                          \E p \in Proc : pc[p] = "ready" /\ next[p] = w

(* While somebody is asleep in the queue, somebody is between lock and     *)
(* unlock, is about to make the next owner ready, or is ready to run.      *)
NeverAllAsleep == (\E p \in Proc : Asleep(p)) =>
                    \E p \in Proc : pc[p] \in {"cs", "ready"} \/ state[p] = "Ready"

(* A step that takes nobody off the queue and makes nobody ready. *)
LEMMA ComingStays ==
  ASSUME Coming,
         \A w \in Proc : Asleep(w)' /\ w \notin InQueue' => Asleep(w) /\ w \notin InQueue,
         \A p \in Proc : pc[p] = "ready" => pc'[p] = "ready" /\ next'[p] = next[p]
  PROVE  Coming'
BY DEF Coming

(* qunlock remembers whom it took off the queue; a poster makes ready whom *)
(* it takes off.                                                           *)
LEMMA NextComing == IInv /\ Coming /\ [Next]_vars => Coming'
<1> SUFFICES ASSUME IInv, Coming, [Next]_vars PROVE Coming'
  OBVIOUS
<1>0. /\ pc \in [Proc -> PCs] /\ next \in [Proc -> Proc \cup {None}]
      /\ state \in [Proc -> {"Running", "Queueing", "Ready"}] /\ queue \in Seq(Proc)
  BY DEF IInv, TypeOK
<1>1. ASSUME UNCHANGED <<queue, state, next>>,
             \/ pc' = pc
             \/ \E p \in Proc : \E to \in {"cs", "enq"} : pc[p] = "out" /\ pc' = [pc EXCEPT ![p] = to]
      PROVE  Coming'
  <2>1. InQueue' = InQueue
    BY <1>1 DEF InQueue
  <2> QED
    BY <1>0, <1>1, <2>1, ComingStays DEF Asleep
<1>2. ASSUME NEW p \in Proc, NEW to, pc[p] # "ready", Enqueue(p, to) PROVE Coming'
  <2>1. /\ queue' = Append(queue, p) /\ state' = [state EXCEPT ![p] = "Queueing"]
        /\ pc' = [pc EXCEPT ![p] = to] /\ next' = next
    BY <1>2 DEF Enqueue, Goto
  <2>2. InQueue' = InQueue \cup {p}
    <3>1. /\ DOMAIN queue = 1..Len(queue) /\ DOMAIN queue' = 1..(Len(queue) + 1)
          /\ \A i \in 1..Len(queue) : queue'[i] = queue[i]
          /\ queue'[Len(queue) + 1] = p
      BY <1>0, <2>1
    <3> QED
      BY <3>1 DEF InQueue
  <2> QED
    BY <1>0, <1>2, <2>1, <2>2, ComingStays DEF Asleep
<1>3. ASSUME NEW p \in Proc, Resume(p) PROVE Coming'
  <2>1. /\ state[p] = "Ready" /\ state' = [state EXCEPT ![p] = "Running"]
        /\ UNCHANGED <<queue, next>>
    BY <1>3 DEF Resume
  <2>2. \A q \in Proc : q # p => pc'[q] = pc[q]
    BY <1>0, <1>3 DEF Resume, Goto
  <2>3. InQueue' = InQueue
    BY <2>1 DEF InQueue
  <2>4. pc[p] # "ready"
    BY <2>1 DEF IInv, Places
  <2> QED
    BY <1>0, <2>1, <2>2, <2>3, <2>4, ComingStays DEF Asleep
<1>4. ASSUME NEW p \in Proc, Qunlock(p) PROVE Coming'
  <2>0. pc[p] = "cs" /\ state' = state
    BY <1>4 DEF Qunlock
  <2>1. CASE queue = <<>>
    <3>1. pc' = [pc EXCEPT ![p] = "out"] /\ UNCHANGED <<queue, next>>
      BY <1>4, <2>1 DEF Qunlock, Goto
    <3>2. InQueue' = InQueue
      BY <3>1 DEF InQueue
    <3> QED
      BY <1>0, <2>0, <3>1, <3>2, ComingStays DEF Asleep
  <2>2. CASE queue # <<>>
    <3>1. /\ pc' = [pc EXCEPT ![p] = "ready"] /\ next' = [next EXCEPT ![p] = Head(queue)]
          /\ queue' = Tail(queue)
      BY <1>4, <2>2 DEF Qunlock, Goto
    <3>2. /\ pc'[p] = "ready" /\ next'[p] = Head(queue)
          /\ \A q \in Proc : q # p => pc'[q] = pc[q] /\ next'[q] = next[q]
      BY <1>0, <3>1
    <3>3. \A x \in InQueue : x = Head(queue) \/ x \in InQueue'
      <4>1. /\ DOMAIN queue = 1..Len(queue) /\ Len(queue) \in Nat /\ Head(queue) = queue[1]
            /\ DOMAIN queue' = 1..(Len(queue) - 1)
            /\ \A i \in 1..(Len(queue) - 1) : queue'[i] = queue[i + 1]
        BY <1>0, <2>2, <3>1
      <4>2. \A i \in 1..Len(queue) : i # 1 => i - 1 \in DOMAIN queue' /\ queue'[i - 1] = queue[i]
        BY <4>1
      <4> QED
        BY <4>1, <4>2 DEF InQueue
    <3> SUFFICES ASSUME NEW w \in Proc, Asleep(w)', w \notin InQueue'
                 PROVE  \E q \in Proc : pc'[q] = "ready" /\ next'[q] = w
      BY DEF Coming
    <3>4. CASE w = Head(queue)
      BY <3>2, <3>4
    <3>5. CASE w # Head(queue)
      <4>1. Asleep(w) /\ w \notin InQueue
        BY <2>0, <3>2, <3>3, <3>5 DEF Asleep
      <4>2. PICK q \in Proc : pc[q] = "ready" /\ next[q] = w
        BY <4>1 DEF Coming
      <4> QED
        BY <2>0, <3>2, <4>2
    <3> QED
      BY <3>4, <3>5
  <2> QED
    BY <2>1, <2>2
<1>5. ASSUME NEW p \in Proc, QunlockReady(p) PROVE Coming'
  <2>1. /\ pc[p] = "ready" /\ pc' = [pc EXCEPT ![p] = "out"] /\ next' = [next EXCEPT ![p] = None]
        /\ state' = [state EXCEPT ![next[p]] = "Ready"] /\ queue' = queue
    BY <1>5 DEF QunlockReady, Goto
  <2>2. next[p] \in Proc
    BY <2>1 DEF IInv, Handing, Owners
  <2>3. /\ state'[next[p]] = "Ready" /\ \A q \in Proc : q # next[p] => state'[q] = state[q]
        /\ pc'[p] = "out" /\ \A q \in Proc : q # p => pc'[q] = pc[q] /\ next'[q] = next[q]
    BY <1>0, <2>1, <2>2
  <2>4. InQueue' = InQueue
    BY <2>1 DEF InQueue
  <2> SUFFICES ASSUME NEW w \in Proc, Asleep(w)', w \notin InQueue'
               PROVE  \E q \in Proc : pc'[q] = "ready" /\ next'[q] = w
    BY DEF Coming
  <2>5. w # next[p] /\ Asleep(w) /\ w \notin InQueue
    BY <2>3, <2>4 DEF Asleep
  <2>6. PICK q \in Proc : pc[q] = "ready" /\ next[q] = w
    BY <2>5 DEF Coming
  <2> QED
    BY <2>3, <2>5, <2>6
<1>6. ASSUME NEW n \in Poster, Pull(n) PROVE Coming'
  <2>1. UNCHANGED <<pc, next>>
    BY <1>6 DEF Pull
  <2>2. CASE UNCHANGED <<queue, state>>
    BY <1>1, <2>1, <2>2
  <2>3. ASSUME NEW i \in DOMAIN queue, queue' = RemoveAt(queue, i),
               state' = [state EXCEPT ![queue[i]] = "Ready"]
        PROVE  Coming'
    <3>1. queue[i] \in Proc
      BY <1>0
    <3>2. InQueue' = InQueue \ {queue[i]}
      <4>1. InQueue = Entries(queue) /\ InQueue' = Entries(queue')
        BY DEF InQueue, Entries
      <4> QED
        BY <1>0, <2>3, <4>1, RemoveAtQueue DEF IInv, Queue
    <3> QED
      BY <1>0, <2>1, <2>3, <3>1, <3>2, ComingStays DEF Asleep
  <2> QED
    BY <1>6, <2>2, <2>3 DEF Pull
<1>7. CASE UNCHANGED vars
  BY <1>1, <1>7 DEF vars
<1>8. ASSUME NEW p \in Proc, Call(p) PROVE Coming'
  <2>1. CASE Take(p)
    BY <1>1, <2>1 DEF Take, Goto
  <2>2. CASE EqlockTest(p)
    BY <1>1, <2>2 DEF EqlockTest, Goto
  <2>3. CASE pc[p] = "out" /\ Enqueue(p, "queued")
    BY <1>2, <2>3
  <2> QED
    BY <1>8, <2>1, <2>2, <2>3 DEF Call, Qlock, Eqlock, Canqlock
<1>9. ASSUME NEW p \in Proc, Step(p) PROVE Coming'
  BY <1>2, <1>3, <1>4, <1>5, <1>9 DEF Step, EqlockQueue
<1>10. ASSUME NEW p \in Proc, Notify(p) \/ \E n \in Poster : Post(n, p) PROVE Coming'
  BY <1>1, <1>10 DEF Notify, Post
<1>11. ASSUME NEW n \in Poster, Look(n) PROVE Coming'
  BY <1>1, <1>11 DEF Look
<1> QED
  BY <1>6, <1>7, <1>8, <1>9, <1>10, <1>11 DEF Next

(* The users of the lock are never all asleep, whatever notes are posted:  *)
(* as long as anybody sleeps in the queue, some process can run that       *)
(* brings the lock to the next one.                                        *)
THEOREM KQLockNeverAllAsleep == Spec => []NeverAllAsleep
<1>1. Init => Coming
  BY DEF Init, Coming, Asleep
<1>2. IInv /\ Coming => NeverAllAsleep
  <2> SUFFICES ASSUME IInv, Coming, NEW w \in Proc, Asleep(w)
               PROVE  \E p \in Proc : pc[p] \in {"cs", "ready"} \/ state[p] = "Ready"
    BY DEF NeverAllAsleep
  <2>1. CASE w \in InQueue
    <3>1. PICK p \in Owners : TRUE
      BY <2>1 DEF IInv, OneOwner, InQueue
    <3>2. CASE Asleep(p)
      BY <3>1, <3>2 DEF Coming, Owners, Asleep
    <3> QED
      BY <3>1, <3>2 DEF IInv, TypeOK, Places, Owners, Asleep
  <2>2. CASE w \notin InQueue
    BY <2>2 DEF Coming
  <2> QED
    BY <2>1, <2>2
<1> QED
  BY <1>1, <1>2, Invariance, NextComing, PTL DEF Spec
=============================================================================
