-------------------------- MODULE SemaphoreProofs --------------------------
(***************************************************************************)
(* The kernel's semaphores lose no wakeup and touch no Sema of a process   *)
(* that has left semacquire, for any number of processes and of releases.  *)
(***************************************************************************)
EXTENDS Semaphore, FiniteSetTheorems, SequenceTheorems, TLAPS

Entries(s) == {s[i] : i \in DOMAIN s}
Distinct(s) == \A i, j \in DOMAIN s : s[i] = s[j] => i = j

(* The Semas of the processes between semqueue and semdequeue are listed. *)
Listed == Distinct(list) /\ Entries(list) = {p \in Proc : pc[p] \in OnList}

(* Whoever walks the list holds its lock, and has somebody left to wake. *)
Walking == /\ \A p \in Proc : pc[p] \in {"scan", "wake"} => lock = p
           /\ \A p \in Proc : pc[p] = "wake" => n[p] > 0 /\ rest[p] # <<>>

(* A process asleep whose waiting is cleared is about to be woken. *)
Waking == \A p \in Proc : pc[p] = "asleep" /\ ~waiting[p] =>
            \E q \in Proc : pc[q] = "wake" /\ p = Head(rest[q])

Structure == TypeOK /\ Listed /\ Walking /\ SemaAlive /\ Waking

(* A process that found the value 0 and waits for a wakeup. *)
Waits(s) == pc[s] \in {"sleep", "asleep"} /\ waiting[s]

(* How many wakeups q in semwakeup still has for s or those before it. *)
Due(q, s) == CASE pc[q] = "lock" -> n[q]
               [] pc[q] = "scan" /\ s \in Entries(rest[q]) -> n[q]
               [] pc[q] = "wake" /\ s \in Entries(Tail(rest[q])) -> n[q] - 1
               [] OTHER -> 0

(* What stands for a unit of the value: number 0 is a wakeup that q was    *)
(* given, number -1 its coming look at the value, the others are wakeups   *)
(* that q is about to give.                                                *)
Token(q, k, s) == \/ k = 0 /\ pc[q] \in OnList \cup {"pass"} /\ ~waiting[q]
                  \/ k = -1 /\ pc[q] = "again"
                  \/ k > 0 /\ k <= Due(q, s)

Numbers == -1..(MaxValue + 1)
Tokens(s) == {t \in Proc \X Numbers : Token(t[1], t[2], s)}

(* While somebody waits, every unit of the value has its token. *)
Covered == \A s \in Proc : Waits(s) => value <= Cardinality(Tokens(s))
Bounds == \A p \in Proc : n[p] <= MaxValue + 1
-----------------------------------------------------------------------------
(* What appending does to the list. *)
LEMMA AppendList ==
  ASSUME NEW s \in Seq(Proc), NEW p \in Proc,
         p \notin Entries(s), Distinct(s)
  PROVE  /\ Append(s, p) \in Seq(Proc) /\ Distinct(Append(s, p))
         /\ Entries(Append(s, p)) = Entries(s) \cup {p}
<1> DEFINE t == Append(s, p)
<1>1. /\ t \in Seq(Proc) /\ t[Len(s) + 1] = p
      /\ DOMAIN t = DOMAIN s \cup {Len(s) + 1} /\ Len(s) + 1 \notin DOMAIN s
      /\ \A i \in DOMAIN s : t[i] = s[i]
  OBVIOUS
<1> HIDE DEF t
<1>2. Entries(t) = Entries(s) \cup {p}
  BY <1>1 DEF Entries
<1>3. Distinct(t)
  BY <1>1 DEF Distinct, Entries
<1> QED
  BY <1>1, <1>2, <1>3 DEF t

(* What taking one element out does to the list. *)
LEMMA RemoveAtList ==
  ASSUME NEW s \in Seq(Proc), Distinct(s), NEW k \in DOMAIN s
  PROVE  /\ RemoveAt(s, k) \in Seq(Proc) /\ Distinct(RemoveAt(s, k))
         /\ Entries(RemoveAt(s, k)) = Entries(s) \ {s[k]}
<1> DEFINE a == SubSeq(s, 1, k - 1)
           b == SubSeq(s, k + 1, Len(s))
           t == a \o b
           at(i) == IF i < k THEN i ELSE i + 1
<1>1. k \in 1..Len(s) /\ k \in Nat /\ Len(s) \in Nat /\ DOMAIN s = 1..Len(s)
  OBVIOUS
<1>2. /\ a \in Seq(Proc) /\ Len(a) = k - 1 /\ \A i \in 1..(k - 1) : a[i] = s[i]
      /\ b \in Seq(Proc) /\ Len(b) = Len(s) - k
      /\ \A i \in 1..(Len(s) - k) : b[i] = s[i + k]
  <2>1. /\ k - 1 \in Int /\ k + 1 \in Int /\ Len(s) \in Int /\ 1 \in Int
        /\ \A i \in 1..(k - 1) : s[i] \in Proc
        /\ \A i \in (k + 1)..Len(s) : s[i] \in Proc
    BY <1>1
  <2>2. /\ a \in Seq(Proc) /\ Len(a) = IF 1 <= k - 1 THEN (k - 1) - 1 + 1 ELSE 0
        /\ \A i \in 1..((k - 1) - 1 + 1) : a[i] = s[1 + i - 1]
    BY <2>1, SubSeqProperties
  <2>3. /\ b \in Seq(Proc) /\ Len(b) = IF k + 1 <= Len(s) THEN Len(s) - (k + 1) + 1 ELSE 0
        /\ \A i \in 1..(Len(s) - (k + 1) + 1) : b[i] = s[(k + 1) + i - 1]
    BY <2>1, SubSeqProperties
  <2> HIDE DEF a, b
  <2>4. Len(a) = k - 1 /\ Len(b) = Len(s) - k
    BY <1>1, <2>2, <2>3
  <2>5. ASSUME NEW i \in 1..(k - 1) PROVE a[i] = s[i]
    <3>1. i \in 1..((k - 1) - 1 + 1) /\ 1 + i - 1 = i
      BY <1>1
    <3> QED
      BY <2>2, <3>1
  <2>6. ASSUME NEW i \in 1..(Len(s) - k) PROVE b[i] = s[i + k]
    <3>1. i \in 1..(Len(s) - (k + 1) + 1) /\ (k + 1) + i - 1 = i + k
      BY <1>1
    <3> QED
      BY <2>3, <3>1
  <2> QED
    BY <2>2, <2>3, <2>4, <2>5, <2>6
<1> HIDE DEF a, b
<1>3. /\ t \in Seq(Proc) /\ Len(t) = Len(s) - 1
      /\ \A i \in 1..Len(t) : t[i] = IF i <= Len(a) THEN a[i] ELSE b[i - Len(a)]
  <2>0. a \in Seq(Proc) /\ b \in Seq(Proc)
    BY <1>2
  <2>1. t \in Seq(Proc) /\ Len(t) = Len(a) + Len(b)
    BY <2>0, ConcatProperties
  <2>2. \A i \in 1..(Len(a) + Len(b)) : t[i] = IF i <= Len(a) THEN a[i] ELSE b[i - Len(a)]
    BY <2>0, ConcatProperties
  <2> HIDE DEF t
  <2> QED
    BY <1>1, <1>2, <2>1, <2>2
<1> HIDE DEF t
<1>4. \A i \in 1..Len(t) : at(i) \in 1..Len(s) /\ at(i) # k /\ t[i] = s[at(i)]
  <2> SUFFICES ASSUME NEW i \in 1..Len(t)
               PROVE  at(i) \in 1..Len(s) /\ at(i) # k /\ t[i] = s[at(i)]
    OBVIOUS
  <2>1. CASE i < k
    BY <1>1, <1>2, <1>3, <2>1
  <2>2. CASE i >= k
    <3>1. i - (k - 1) \in 1..(Len(s) - k) /\ (i - (k - 1)) + k = i + 1
      BY <1>1, <1>3, <2>2
    <3>2. t[i] = b[i - (k - 1)]
      BY <1>1, <1>2, <1>3, <2>2
    <3>3. t[i] = s[i + 1]
      BY <1>2, <3>1, <3>2
    <3> QED
      BY <1>1, <1>3, <2>2, <3>3
  <2> QED
    BY <1>1, <2>1, <2>2
<1>5. \A j \in 1..Len(s) : j # k => \E i \in 1..Len(t) : at(i) = j
  <2> SUFFICES ASSUME NEW j \in 1..Len(s), j # k PROVE \E i \in 1..Len(t) : at(i) = j
    OBVIOUS
  <2>1. CASE j < k
    <3>1. j \in 1..Len(t) /\ at(j) = j
      BY <1>1, <1>3, <2>1
    <3> QED
      BY <3>1
  <2>2. CASE j > k
    <3>1. j - 1 \in 1..Len(t) /\ at(j - 1) = j
      BY <1>1, <1>3, <2>2
    <3> QED
      BY <3>1
  <2> QED
    BY <1>1, <2>1, <2>2
<1>6. DOMAIN t = 1..Len(t) /\ \A i, j \in 1..Len(t) : at(i) = at(j) => i = j
  BY <1>3
<1>7. \A i, j \in 1..Len(s) : s[i] = s[j] => i = j
  BY <1>1 DEF Distinct
<1> HIDE DEF at
<1>8. Distinct(t)
  BY <1>4, <1>6, <1>7 DEF Distinct
<1>9. Entries(t) = Entries(s) \ {s[k]}
  <2>1. \A x \in Entries(t) : x \in Entries(s) /\ x # s[k]
    BY <1>1, <1>4, <1>6, <1>7 DEF Entries
  <2>2. ASSUME NEW x \in Entries(s), x # s[k] PROVE x \in Entries(t)
    <3>1. PICK j \in 1..Len(s) : x = s[j] /\ j # k
      BY <1>1, <2>2 DEF Entries
    <3>2. PICK i \in 1..Len(t) : at(i) = j
      BY <1>5, <3>1
    <3> QED
      BY <1>4, <1>6, <3>1, <3>2 DEF Entries
  <2> QED
    BY <2>1, <2>2
<1> QED
  BY <1>3, <1>8, <1>9 DEF t, a, b, RemoveAt

(* What going on to the next element leaves in view. *)
LEMMA TailKeeps ==
  ASSUME NEW s \in Seq(Proc), s # <<>>
  PROVE  /\ Head(s) \in Proc /\ Head(s) \in Entries(s) /\ Tail(s) \in Seq(Proc)
         /\ Entries(Tail(s)) \subseteq Entries(s)
         /\ \A x \in Entries(s) : x # Head(s) => x \in Entries(Tail(s))
<1>1. /\ Len(s) \in Nat /\ Len(s) > 0 /\ DOMAIN s = 1..Len(s) /\ Head(s) = s[1]
      /\ Tail(s) \in Seq(Proc) /\ Len(Tail(s)) = Len(s) - 1
      /\ DOMAIN Tail(s) = 1..(Len(s) - 1)
      /\ \A i \in 1..(Len(s) - 1) : Tail(s)[i] = s[i + 1]
  OBVIOUS
<1>2. Head(s) \in Proc /\ Head(s) \in Entries(s)
  BY <1>1 DEF Entries
<1>3. Entries(Tail(s)) \subseteq Entries(s)
  BY <1>1 DEF Entries
<1>4. ASSUME NEW x \in Entries(s), x # Head(s) PROVE x \in Entries(Tail(s))
  <2>1. PICK i \in 1..Len(s) : x = s[i]
    BY <1>1 DEF Entries
  <2>2. i - 1 \in 1..(Len(s) - 1) /\ Tail(s)[i - 1] = x
    BY <1>1, <1>4, <2>1
  <2> QED
    BY <1>1, <2>2 DEF Entries
<1> QED
  BY <1>1, <1>2, <1>3, <1>4

(* SemaAlive, in terms of what is in view. *)
LEMMA Alive ==
  SemaAlive <=> \A p \in Proc : pc[p] \in {"scan", "wake"} =>
                  \A x \in Entries(rest[p]) : pc[x] \in OnList
  BY DEF SemaAlive, Entries

(* The same after a step. *)
LEMMA AliveNext ==
  SemaAlive' <=> \A p \in Proc : pc'[p] \in {"scan", "wake"} =>
                   \A x \in Entries(rest'[p]) : pc'[x] \in OnList
  BY DEF SemaAlive, Entries

(* Nobody is in either call at the start. *)
LEMMA InitStructure == Init => Structure /\ Covered /\ Bounds
<1> SUFFICES ASSUME Init PROVE Structure /\ Covered /\ Bounds
  OBVIOUS
<1>1. TypeOK
  BY DEF Init, TypeOK, PCs
<1>2. Listed
  BY DEF Init, Listed, Distinct, Entries, OnList
<1>3. SemaAlive /\ Walking /\ Waking /\ Covered /\ Bounds
  BY SemaphoreAssumption DEF Init, SemaAlive, Walking, Waking, Covered, Waits, Bounds
<1> QED
  BY <1>1, <1>2, <1>3 DEF Structure

(* Where the tries of the value lead to, and what they leave of it. *)
LEMMA TryMoves ==
  ASSUME TypeOK, NEW p \in Proc
  PROVE  /\ Try(p) => \E to \in {"idle", "queue"} :
                pc[p] = "try" /\ pc' = [pc EXCEPT ![p] = to] /\ value' \in Nat /\ value' <= value
         /\ TryAgain(p) => \E to \in {"dequeue", "sleep"} :
                /\ pc[p] = "again" /\ pc' = [pc EXCEPT ![p] = to] /\ value' \in Nat
                /\ IF value > 0 THEN to = "dequeue" /\ value' = value - 1
                                ELSE to = "sleep" /\ value' = 0
<1>1. value \in Nat
  BY DEF TypeOK
<1>2. ASSUME Try(p) PROVE \E to \in {"idle", "queue"} :
        pc[p] = "try" /\ pc' = [pc EXCEPT ![p] = to] /\ value' \in Nat /\ value' <= value
  <2>1. /\ pc[p] = "try"
        /\ \/ value > 0 /\ value' = value - 1 /\ pc' = [pc EXCEPT ![p] = "idle"]
           \/ value = 0 /\ value' = value /\ pc' = [pc EXCEPT ![p] = "queue"]
           \/ value = 0 /\ value' = value /\ pc' = [pc EXCEPT ![p] = "idle"]
    BY <1>2, Zenon DEF Try, Canacquire, Goto, At
  <2> QED
    BY <1>1, <2>1
<1>3. ASSUME TryAgain(p) PROVE \E to \in {"dequeue", "sleep"} :
        /\ pc[p] = "again" /\ pc' = [pc EXCEPT ![p] = to] /\ value' \in Nat
        /\ IF value > 0 THEN to = "dequeue" /\ value' = value - 1
                        ELSE to = "sleep" /\ value' = 0
  <2>1. /\ pc[p] = "again"
        /\ \/ value > 0 /\ value' = value - 1 /\ pc' = [pc EXCEPT ![p] = "dequeue"]
           \/ value = 0 /\ value' = value /\ pc' = [pc EXCEPT ![p] = "sleep"]
    BY <1>3, Zenon DEF TryAgain, Canacquire, Goto, At
  <2> QED
    BY <1>1, <2>1
<1> QED
  BY <1>2, <1>3

(* Where the end of semacquire leads to. *)
LEMMA PassMoves ==
  ASSUME NEW p, Pass(p)
  PROVE  \E to \in {"idle", "lock"} :
           /\ pc[p] = "pass" /\ pc' = [pc EXCEPT ![p] = to]
           /\ IF waiting[p] THEN to = "idle" /\ n' = n
                            ELSE to = "lock" /\ n' = [n EXCEPT ![p] = 1]
<1>1. CASE waiting[p]
  BY <1>1 DEF Pass, Goto, At
<1>2. CASE ~waiting[p]
  BY <1>2 DEF Pass, Goto, At
<1> QED
  BY <1>1, <1>2

(* What a step of p leaves of the types. *)
LEMMA StepType ==
  ASSUME Structure, NEW p \in Proc,
         Semacquire(p) \/ Semrelease(p) \/ Interrupt(p) \/ Step(p)
  PROVE  TypeOK'
<1> USE SemaphoreAssumption DEF Structure, TypeOK, Goto, At, PCs, InSemwakeup, OnList
<1>1. CASE Semacquire(p)
  BY <1>1 DEF Semacquire
<1>2. CASE Semrelease(p)
  BY <1>2 DEF Semrelease
<1>3. CASE Interrupt(p)
  BY <1>3 DEF Interrupt
<1>4. CASE Try(p)
  BY <1>4, TryMoves DEF Try
<1>5. CASE Semqueue(p)
  <2>1. list' \in Seq(Proc)
    BY <1>5 DEF Semqueue
  <2> QED
    BY <1>5, <2>1 DEF Semqueue
<1>6. CASE SetWaiting(p)
  BY <1>6 DEF SetWaiting
<1>7. CASE TryAgain(p)
  <2>1. acquired' \in [Proc -> BOOLEAN]
    BY <1>7 DEF TryAgain
  <2> QED
    <3>1. pc' \in [Proc -> PCs] /\ value' \in Nat
      BY <1>7, TryMoves
    <3> QED
      BY <1>7, <2>1, <3>1 DEF TryAgain
<1>8. CASE Sleep(p)
  BY <1>8 DEF Sleep
<1>9. CASE Woken(p)
  BY <1>9 DEF Woken
<1>10. CASE Semdequeue(p)
  <2>1. list' \in Seq(Proc)
    BY <1>10, RemoveAtList DEF Semdequeue, Listed
  <2> QED
    BY <1>10, <2>1 DEF Semdequeue
<1>11. CASE Pass(p)
  <2>1. pc' \in [Proc -> PCs]
    BY <1>11, PassMoves
  <2>2. n' = n \/ n' = [n EXCEPT ![p] = 1]
    BY <1>11, PassMoves
  <2>3. n' \in [Proc -> Nat]
    <3>1. CASE n' = n
      BY <3>1
    <3>2. CASE n' = [n EXCEPT ![p] = 1]
      BY <3>2
    <3> QED
      BY <2>2, <3>1, <3>2
  <2> QED
    BY <1>11, <2>1, <2>3 DEF Pass
<1>12. CASE SemwakeupLock(p)
  BY <1>12 DEF SemwakeupLock
<1>13. CASE Scan(p)
  <2>1. Head(rest[p]) \in Proc /\ Tail(rest[p]) \in Seq(Proc)
    BY <1>13, TailKeeps DEF Scan
  <2> QED
    BY <1>13, <2>1 DEF Scan
<1>14. CASE Wakeup(p)
  <2>1. Head(rest[p]) \in Proc /\ Tail(rest[p]) \in Seq(Proc) /\ n[p] > 0
    BY <1>14, TailKeeps DEF Wakeup, Walking
  <2> QED
    <3>1. pc' \in [Proc -> PCs]
      BY <1>14, <2>1 DEF Wakeup
    <3>2. n' \in [Proc -> Nat] /\ rest' \in [Proc -> Seq(Proc)]
      BY <1>14, <2>1 DEF Wakeup
    <3> QED
      BY <1>14, <3>1, <3>2 DEF Wakeup
<1>15. CASE SemwakeupUnlock(p)
  <2>1. <<>> \in Seq(Proc)
    OBVIOUS
  <2> QED
    BY <1>15, <2>1 DEF SemwakeupUnlock
<1> QED
  BY <1>1, <1>2, <1>3, <1>4, <1>5, <1>6, <1>7, <1>8, <1>9, <1>10, <1>11, <1>12, <1>13,
     <1>14, <1>15 DEF Step

(* Members of the list come and go in semqueue and semdequeue only. *)
LEMMA StepListed ==
  ASSUME Structure, NEW p \in Proc,
         Semacquire(p) \/ Semrelease(p) \/ Interrupt(p) \/ Step(p)
  PROVE  Listed'
<1> DEFINE Members == {q \in Proc : pc[q] \in OnList}
<1>0. Distinct(list) /\ Entries(list) = Members /\ list \in Seq(Proc) /\ pc \in [Proc -> PCs]
  BY DEF Structure, Listed, TypeOK
<1>1. CASE Semqueue(p)
  <2>1. p \notin Entries(list) /\ list' = Append(list, p)
    BY <1>0, <1>1 DEF Semqueue, At, OnList
  <2>2. Distinct(list') /\ Entries(list') = Entries(list) \cup {p}
    BY <1>0, <2>1, AppendList
  <2>3. Members' = Members \cup {p}
    BY <1>0, <1>1 DEF Semqueue, Goto, At, OnList
  <2> QED
    BY <1>0, <2>2, <2>3 DEF Listed
<1>2. CASE Semdequeue(p)
  <2>1. PICK i \in DOMAIN list : list[i] = p /\ list' = RemoveAt(list, i)
    BY <1>2 DEF Semdequeue
  <2>2. Distinct(list') /\ Entries(list') = Entries(list) \ {p}
    BY <1>0, <2>1, RemoveAtList
  <2>3. Members' = Members \ {p}
    BY <1>0, <1>2 DEF Semdequeue, Goto, At, OnList
  <2> QED
    BY <1>0, <2>2, <2>3 DEF Listed
<1>3. CASE Wakeup(p)
  <2>1. Head(rest[p]) \in Proc
    BY <1>3, TailKeeps DEF Wakeup, At, Structure, Walking, TypeOK
  <2>2. Members' = Members /\ list' = list
    BY <1>0, <1>3, <2>1 DEF Wakeup, At, OnList
  <2> QED
    BY <1>0, <2>2 DEF Listed
<1>4. CASE Semacquire(p) \/ Semrelease(p) \/ Interrupt(p) \/ Try(p) \/ SetWaiting(p)
  <2>1. Members' = Members /\ list' = list
    BY <1>0, <1>4 DEF Semacquire, Semrelease, Interrupt, Try, Canacquire, SetWaiting, Goto, At, OnList
  <2> QED
    BY <1>0, <2>1 DEF Listed
<1>5. CASE TryAgain(p) \/ Sleep(p) \/ Woken(p) \/ Pass(p)
  <2>1. Members' = Members /\ list' = list
    BY <1>0, <1>5 DEF TryAgain, Canacquire, Sleep, Woken, Pass, Goto, At, OnList
  <2> QED
    BY <1>0, <2>1 DEF Listed
<1>6. CASE SemwakeupLock(p) \/ Scan(p) \/ SemwakeupUnlock(p)
  <2>1. Members' = Members /\ list' = list
    BY <1>0, <1>6 DEF SemwakeupLock, Scan, SemwakeupUnlock, Goto, At, OnList
  <2> QED
    BY <1>0, <2>1 DEF Listed
<1> QED
  BY <1>1, <1>2, <1>3, <1>4, <1>5, <1>6 DEF Step

(* A step of a process that does not walk the list: it leaves the list     *)
(* only when nobody does, and goes to sleep only with waiting set.         *)
LEMMA QuietWalking ==
  ASSUME Structure, NEW p \in Proc, NEW to \in PCs \ {"scan", "wake"},
         pc[p] \notin {"scan", "wake"}, pc' = [pc EXCEPT ![p] = to],
         rest' = rest, lock' = lock,
         \A q \in Proc : q # p => waiting'[q] = waiting[q] /\ n'[q] = n[q],
         pc[p] \in OnList => to \in OnList \/ lock = None,
         to = "asleep" => waiting'[p]
  PROVE  Walking' /\ SemaAlive' /\ Waking'
<1>0. /\ pc \in [Proc -> PCs] /\ rest \in [Proc -> Seq(Proc)] /\ None \notin Proc
      /\ Walking /\ Waking
      /\ \A q \in Proc : pc[q] \in {"scan", "wake"} =>
                  \A x \in Entries(rest[q]) : pc[x] \in OnList
      /\ \A q \in Proc : \A x \in Entries(rest[q]) : x \in Proc
  BY Alive, SemaphoreAssumption DEF Structure, TypeOK, Entries
<1>1. \A q \in Proc : pc'[q] = IF q = p THEN to ELSE pc[q]
  BY <1>0
<1>2. Walking'
  BY <1>0, <1>1 DEF Walking
<1>3. SemaAlive'
  BY <1>0, <1>1, AliveNext DEF Walking
<1>4. Waking'
  <2> SUFFICES ASSUME NEW q \in Proc, pc'[q] = "asleep", ~waiting'[q]
               PROVE  \E r \in Proc : pc'[r] = "wake" /\ q = Head(rest'[r])
    BY DEF Waking
  <2>1. q # p /\ pc[q] = "asleep" /\ ~waiting[q]
    BY <1>1
  <2>2. PICK r \in Proc : pc[r] = "wake" /\ q = Head(rest[r])
    BY <1>0, <2>1 DEF Waking
  <2> QED
    BY <1>1, <2>2
<1> QED
  BY <1>2, <1>3, <1>4

(* The walks: lock, list and what is in view agree. *)
LEMMA StepWalking ==
  ASSUME Structure, NEW p \in Proc,
         Semacquire(p) \/ Semrelease(p) \/ Interrupt(p) \/ Step(p)
  PROVE  Walking' /\ SemaAlive' /\ Waking'
<1>0. /\ pc \in [Proc -> PCs] /\ waiting \in [Proc -> BOOLEAN] /\ None \notin Proc
      /\ n \in [Proc -> Nat] /\ rest \in [Proc -> Seq(Proc)] /\ note \in [Proc -> BOOLEAN]
      /\ Walking /\ Waking
      /\ \A q \in Proc : pc[q] \in {"scan", "wake"} =>
                  \A x \in Entries(rest[q]) : pc[x] \in OnList
      /\ \A q \in Proc : \A x \in Entries(rest[q]) : x \in Proc
  BY Alive, SemaphoreAssumption DEF Structure, TypeOK, Entries
<1>11. CASE Semacquire(p)
  <2>1. "try" \in PCs \ {"scan", "wake"} /\ pc[p] = "idle" /\ pc' = [pc EXCEPT ![p] = "try"]
    BY <1>11 DEF Semacquire, Goto, At, OnList, PCs, InSemwakeup
  <2> QED
    BY <1>0, <1>11, <2>1, QuietWalking DEF Semacquire, OnList
<1>12. CASE Semrelease(p)
  <2>1. PICK to \in PCs \ {"scan", "wake"} :
          /\ pc' = [pc EXCEPT ![p] = to] /\ pc[p] \notin {"scan", "wake"}
          /\ pc[p] \in OnList => to \in OnList \/ lock = None
          /\ to = "asleep" => waiting'[p]
    BY <1>0, <1>12 DEF Semrelease, Goto, At, OnList, PCs, InSemwakeup
  <2> QED
    BY <1>0, <1>12, <2>1, QuietWalking DEF Semrelease
<1>13. CASE Interrupt(p)
  <2>1. PICK to \in PCs \ {"scan", "wake"} :
          /\ pc' = [pc EXCEPT ![p] = to] /\ pc[p] \notin {"scan", "wake"}
          /\ pc[p] \in OnList => to \in OnList \/ lock = None
          /\ to = "asleep" => waiting'[p]
    BY <1>0, <1>13 DEF Interrupt, Goto, At, OnList, PCs, InSemwakeup
  <2> QED
    BY <1>0, <1>13, <2>1, QuietWalking DEF Interrupt
<1>14. CASE Try(p)
  <2>1. PICK to \in PCs \ {"scan", "wake"} :
          /\ pc' = [pc EXCEPT ![p] = to] /\ pc[p] \notin {"scan", "wake"}
          /\ pc[p] \in OnList => to \in OnList \/ lock = None
          /\ to = "asleep" => waiting'[p]
    BY <1>0, <1>14 DEF Try, Canacquire, Goto, At, OnList, PCs, InSemwakeup
  <2> QED
    BY <1>0, <1>14, <2>1, QuietWalking DEF Try
<1>15. CASE Semqueue(p)
  <2>1. "set" \in PCs \ {"scan", "wake"} /\ pc[p] = "queue" /\ pc' = [pc EXCEPT ![p] = "set"]
    BY <1>15 DEF Semqueue, Goto, At, OnList, PCs, InSemwakeup
  <2> QED
    BY <1>0, <1>15, <2>1, QuietWalking DEF Semqueue, OnList
<1>16. CASE SetWaiting(p)
  <2>1. PICK to \in PCs \ {"scan", "wake"} :
          /\ pc' = [pc EXCEPT ![p] = to] /\ pc[p] \notin {"scan", "wake"}
          /\ pc[p] \in OnList => to \in OnList \/ lock = None
          /\ to = "asleep" => waiting'[p]
    BY <1>0, <1>16 DEF SetWaiting, Goto, At, OnList, PCs, InSemwakeup
  <2> QED
    BY <1>0, <1>16, <2>1, QuietWalking DEF SetWaiting
<1>17. CASE TryAgain(p)
  <2>1. PICK to \in PCs \ {"scan", "wake"} :
          /\ pc' = [pc EXCEPT ![p] = to] /\ pc[p] \notin {"scan", "wake"}
          /\ pc[p] \in OnList => to \in OnList \/ lock = None
          /\ to = "asleep" => waiting'[p]
    BY <1>0, <1>17 DEF TryAgain, Canacquire, Goto, At, OnList, PCs, InSemwakeup
  <2> QED
    BY <1>0, <1>17, <2>1, QuietWalking DEF TryAgain
<1>18. CASE Sleep(p)
  <2>1. CASE waiting[p] /\ ~note[p]
    <3>1. "asleep" \in PCs \ {"scan", "wake"} /\ pc[p] = "sleep" /\ pc' = [pc EXCEPT ![p] = "asleep"]
      BY <1>18, <2>1 DEF Sleep, Goto, At, OnList, PCs, InSemwakeup
    <3> QED
      BY <1>0, <1>18, <2>1, <3>1, QuietWalking DEF Sleep, OnList
  <2>2. CASE ~(waiting[p] /\ ~note[p])
    <3>1. "woken" \in PCs \ {"scan", "wake"} /\ pc[p] = "sleep" /\ pc' = [pc EXCEPT ![p] = "woken"]
      BY <1>18, <2>2 DEF Sleep, Goto, At, OnList, PCs, InSemwakeup
    <3> QED
      BY <1>0, <1>18, <2>2, <3>1, QuietWalking DEF Sleep, OnList
  <2> QED
    BY <2>1, <2>2
<1>19. CASE Woken(p)
  <2>1. CASE note[p]
    <3>1. "dequeue" \in PCs \ {"scan", "wake"} /\ pc[p] = "woken" /\ pc' = [pc EXCEPT ![p] = "dequeue"]
      BY <1>19, <2>1 DEF Woken, Goto, At, OnList, PCs, InSemwakeup
    <3> QED
      BY <1>0, <1>19, <2>1, <3>1, QuietWalking DEF Woken, OnList
  <2>2. CASE ~(note[p])
    <3>1. "set" \in PCs \ {"scan", "wake"} /\ pc[p] = "woken" /\ pc' = [pc EXCEPT ![p] = "set"]
      BY <1>19, <2>2 DEF Woken, Goto, At, OnList, PCs, InSemwakeup
    <3> QED
      BY <1>0, <1>19, <2>2, <3>1, QuietWalking DEF Woken, OnList
  <2> QED
    BY <2>1, <2>2
<1>20. CASE Semdequeue(p)
  <2>1. "pass" \in PCs \ {"scan", "wake"} /\ pc[p] = "dequeue" /\ pc' = [pc EXCEPT ![p] = "pass"]
    BY <1>20 DEF Semdequeue, Goto, At, OnList, PCs, InSemwakeup
  <2> QED
    BY <1>0, <1>20, <2>1, QuietWalking DEF Semdequeue, OnList
<1>21. CASE Pass(p)
  <2>1. PICK to \in PCs \ {"scan", "wake"} :
          /\ pc' = [pc EXCEPT ![p] = to] /\ pc[p] \notin {"scan", "wake"}
          /\ pc[p] \in OnList => to \in OnList \/ lock = None
          /\ to = "asleep" => waiting'[p]
    BY <1>0, <1>21 DEF Pass, Goto, At, OnList, PCs, InSemwakeup
  <2> QED
    BY <1>0, <1>21, <2>1, QuietWalking DEF Pass
<1>5. CASE SemwakeupLock(p)
  <2>1. \A x \in Entries(list) : pc[x] \in OnList /\ x \in Proc
    BY DEF Structure, Listed
  <2> QED
    BY <1>0, <1>5, <2>1, AliveNext DEF SemwakeupLock, Goto, At, OnList, Walking, Waking
<1>6. CASE Scan(p)
  <2> DEFINE h == Head(rest[p])
  <2>1. h \in Proc /\ h \in Entries(rest[p]) /\ Entries(Tail(rest[p])) \subseteq Entries(rest[p])
    BY <1>0, <1>6, TailKeeps DEF Scan
  <2>2. pc[p] = "scan" /\ n[p] > 0 /\ rest[p] # <<>> /\ n' = n /\ lock' = lock
    BY <1>6 DEF Scan, At
  <2>3. CASE waiting[h]
    <3>1. /\ waiting' = [waiting EXCEPT ![h] = FALSE] /\ rest' = rest
          /\ pc' = [pc EXCEPT ![p] = "wake"]
      BY <1>6, <2>3 DEF Scan, Goto
    <3>2. h = Head(rest'[p]) /\ pc'[p] = "wake"
      BY <1>0, <3>1
    <3> HIDE DEF h
    <3> QED
      BY <1>0, <2>1, <2>2, <3>1, <3>2, AliveNext DEF OnList, Walking, Waking
  <2>4. CASE ~waiting[h]
    <3>1. waiting' = waiting /\ rest' = [rest EXCEPT ![p] = Tail(rest[p])] /\ pc' = pc
      BY <1>6, <2>4 DEF Scan
    <3>2. Walking'
      BY <1>0, <2>1, <2>2, <3>1 DEF Walking
    <3>3. SemaAlive'
      BY <1>0, <2>1, <2>2, <3>1, AliveNext
    <3>4. Waking'
      BY <1>0, <2>2, <3>1 DEF Waking
    <3> QED
      BY <3>2, <3>3, <3>4
  <2> QED
    BY <2>3, <2>4
<1>7. CASE Wakeup(p)
  <2> DEFINE h == Head(rest[p])
  <2>1. h \in Proc /\ h \in Entries(rest[p]) /\ Entries(Tail(rest[p])) \subseteq Entries(rest[p])
    BY <1>0, <1>7, TailKeeps DEF Wakeup, At, Walking
  <2>2. /\ pc[p] = "wake" /\ lock' = lock /\ waiting' = waiting
        /\ n' = [n EXCEPT ![p] = n[p] - 1] /\ rest' = [rest EXCEPT ![p] = Tail(rest[p])]
        /\ pc' = [pc EXCEPT ![p] = "scan", ![h] = IF pc[h] = "asleep" THEN "woken" ELSE @]
    BY <1>7 DEF Wakeup, At
  <2>3. h # p /\ pc'[p] = "scan" /\ pc'[h] = (IF pc[h] = "asleep" THEN "woken" ELSE pc[h])
        /\ \A q \in Proc : q # p /\ q # h => pc'[q] = pc[q]
    BY <1>0, <2>1, <2>2 DEF OnList
  <2>4. lock = p /\ \A q \in Proc : q # p => pc[q] \notin {"scan", "wake"}
    BY <1>0, <2>2 DEF Walking
  <2>5. Walking'
    BY <1>0, <2>1, <2>2, <2>3, <2>4 DEF Walking, OnList
  <2>6. SemaAlive'
    BY <1>0, <2>1, <2>2, <2>3, <2>4, AliveNext DEF OnList
  <2>7. Waking'
    <3>1. ASSUME NEW q \in Proc, pc'[q] = "asleep", ~waiting'[q] PROVE FALSE
      <4>1. pc[q] = "asleep" /\ ~waiting[q] /\ q # h
        BY <2>2, <2>3, <3>1
      <4>2. PICK r \in Proc : pc[r] = "wake" /\ q = Head(rest[r])
        BY <1>0, <4>1 DEF Waking
      <4> QED
        BY <2>4, <4>1, <4>2
    <3> QED
      BY <3>1 DEF Waking
  <2> QED
    BY <2>5, <2>6, <2>7
<1>8. CASE SemwakeupUnlock(p)
  BY <1>0, <1>8, AliveNext DEF SemwakeupUnlock, Goto, At, OnList, Walking, Waking
<1> QED
  BY <1>5, <1>6, <1>7, <1>8, <1>11, <1>12, <1>13, <1>14, <1>15, <1>16, <1>17, <1>18, <1>19, <1>20, <1>21 DEF Step
-----------------------------------------------------------------------------
(* Counting tokens: all are kept ... *)
LEMMA Keep ==
  ASSUME NEW S, NEW T, IsFiniteSet(S), IsFiniteSet(T), S \subseteq T
  PROVE  Cardinality(S) \in Nat /\ Cardinality(T) \in Nat /\ Cardinality(S) <= Cardinality(T)
  BY FS_Subset, FS_CardinalityType

(* ... all but one are kept ... *)
LEMMA Lose ==
  ASSUME NEW S, NEW T, NEW x, IsFiniteSet(S), IsFiniteSet(T), S \ {x} \subseteq T
  PROVE  /\ Cardinality(S) \in Nat /\ Cardinality(T) \in Nat
         /\ Cardinality(S) <= Cardinality(T) + 1
<1>1. /\ IsFiniteSet(S \ {x})
      /\ Cardinality(S \ {x}) = IF x \in S THEN Cardinality(S) - 1 ELSE Cardinality(S)
  BY FS_RemoveElement
<1>2. Cardinality(S \ {x}) <= Cardinality(T) /\ Cardinality(T) \in Nat
  BY <1>1, Keep
<1>3. Cardinality(S) \in Nat
  BY FS_CardinalityType
<1> QED
  BY <1>1, <1>2, <1>3

(* ... one is exchanged for a new one ... *)
LEMMA Swap ==
  ASSUME NEW S, NEW T, NEW x, NEW y, IsFiniteSet(S), IsFiniteSet(T),
         S \ {x} \subseteq T, y \in T, y \notin S
  PROVE  /\ Cardinality(S) \in Nat /\ Cardinality(T) \in Nat
         /\ Cardinality(S) <= Cardinality(T)
<1>1. /\ IsFiniteSet(S \cup {y})
      /\ Cardinality(S \cup {y}) = Cardinality(S) + 1
  BY FS_AddElement
<1>2. (S \cup {y}) \ {x} \subseteq T
  OBVIOUS
<1>3. Cardinality(S \cup {y}) <= Cardinality(T) + 1 /\ Cardinality(T) \in Nat
  BY <1>1, <1>2, Lose
<1>4. Cardinality(S) \in Nat
  BY FS_CardinalityType
<1> QED
  BY <1>1, <1>3, <1>4

(* ... d new ones of p are added. *)
LEMMA Gain ==
  ASSUME NEW S, NEW T, NEW p, NEW d \in Nat, IsFiniteSet(S), IsFiniteSet(T),
         S \subseteq T, {p} \X (1..d) \subseteq T, S \cap ({p} \X (1..d)) = {}
  PROVE  /\ Cardinality(S) \in Nat /\ Cardinality(T) \in Nat
         /\ Cardinality(S) + d <= Cardinality(T)
<1> DEFINE D == {p} \X (1..d)
<1>1. IsFiniteSet({p}) /\ Cardinality({p}) = 1
  BY FS_Singleton
<1>2. IsFiniteSet(1..d) /\ Cardinality(1..d) = d
  <2>1. /\ IsFiniteSet(1..d)
        /\ Cardinality(1..d) = IF 1 > d THEN 0 ELSE d - 1 + 1
    BY FS_Interval
  <2> QED
    BY <2>1
<1>3. IsFiniteSet(D) /\ Cardinality(D) = d
  <2>1. IsFiniteSet(D) /\ Cardinality(D) = Cardinality({p}) * Cardinality(1..d)
    BY <1>1, <1>2, FS_Product
  <2> QED
    BY <1>1, <1>2, <2>1
<1>4. Cardinality(S \cap D) = 0
  BY FS_EmptySet
<1> HIDE DEF D
<1>5. /\ IsFiniteSet(S \cup D)
      /\ Cardinality(S \cup D) = Cardinality(S) + Cardinality(D) - Cardinality(S \cap D)
  BY <1>3, FS_Union
<1>6. S \cup D \subseteq T
  BY DEF D
<1>7. Cardinality(S \cup D) <= Cardinality(T) /\ Cardinality(T) \in Nat
  BY <1>5, <1>6, Keep
<1>8. Cardinality(S) \in Nat
  BY FS_CardinalityType
<1> QED
  BY <1>3, <1>4, <1>5, <1>7, <1>8

(* There are finitely many tokens, before and after a step. *)
LEMMA TokensFinite ==
  ASSUME IsFiniteSet(Proc), NEW s
  PROVE  IsFiniteSet(Tokens(s)) /\ IsFiniteSet(Tokens(s)')
<1>1. -1 \in Int /\ MaxValue + 1 \in Int
  BY SemaphoreAssumption
<1>2. IsFiniteSet(Numbers)
  BY <1>1, FS_Interval DEF Numbers
<1>3. IsFiniteSet(Proc \X Numbers)
  BY <1>2, FS_Product
<1>4. Tokens(s) \subseteq Proc \X Numbers /\ Tokens(s)' \subseteq Proc \X Numbers
  BY DEF Tokens
<1> QED
  BY <1>3, <1>4, FS_Subset

(* What it is to be a token, before and after a step. *)
LEMMA IsToken ==
  ASSUME NEW s, NEW q \in Proc, NEW k \in Numbers
  PROVE  /\ <<q, k>> \in Tokens(s) <=> Token(q, k, s)
         /\ <<q, k>> \in Tokens(s)' <=> Token(q, k, s)'
  BY DEF Tokens

(* Tokens that stay, told by their parts. *)
LEMMA TokensStay ==
  ASSUME NEW s, NEW x,
         \A q \in Proc : \A k \in Numbers :
            Token(q, k, s) /\ <<q, k>> # x => Token(q, k, s)'
  PROVE  Tokens(s) \ {x} \subseteq Tokens(s)'
<1> SUFFICES ASSUME NEW t \in Tokens(s), t # x PROVE t \in Tokens(s)'
  OBVIOUS
<1>1. PICK q \in Proc, k \in Numbers : t = <<q, k>>
  BY DEF Tokens
<1>2. Token(q, k, s)
  BY <1>1, IsToken
<1> QED
  BY <1>1, <1>2, IsToken

(* A step that keeps all tokens and does not add to the value. *)
LEMMA KeepCovered ==
  ASSUME IsFiniteSet(Proc), Covered, NEW s \in Proc, Waits(s),
         value \in Nat, value' \in Nat, value' <= value,
         \A q \in Proc : \A k \in Numbers : Token(q, k, s) => Token(q, k, s)'
  PROVE  value' <= Cardinality(Tokens(s)')
<1>1. IsFiniteSet(Tokens(s)) /\ IsFiniteSet(Tokens(s)')
  BY TokensFinite
<1>2. Tokens(s) \subseteq Tokens(s)'
  <2> SUFFICES ASSUME NEW t \in Tokens(s) PROVE t \in Tokens(s)'
    OBVIOUS
  <2>1. PICK q \in Proc, k \in Numbers : t = <<q, k>>
    BY DEF Tokens
  <2> QED
    BY <2>1, IsToken
<1>3. Cardinality(Tokens(s)) <= Cardinality(Tokens(s)')
      /\ Cardinality(Tokens(s)) \in Nat /\ Cardinality(Tokens(s)') \in Nat
  BY <1>1, <1>2, Keep
<1>4. value <= Cardinality(Tokens(s))
  BY DEF Covered
<1> HIDE DEF Tokens
<1> QED
  BY <1>3, <1>4

(* A step that exchanges one token of q for another, or gives it up with   *)
(* a unit of the value.                                                    *)
LEMMA SwapCovered ==
  ASSUME IsFiniteSet(Proc), Covered, NEW s \in Proc, Waits(s),
         value \in Nat, value' = value,
         NEW q \in Proc, NEW k \in Numbers, NEW r \in Proc, NEW m \in Numbers,
         \A o \in Proc : \A i \in Numbers :
            Token(o, i, s) /\ <<o, i>> # <<q, k>> => Token(o, i, s)',
         ~Token(r, m, s), Token(r, m, s)'
  PROVE  value' <= Cardinality(Tokens(s)')
<1>1. IsFiniteSet(Tokens(s)) /\ IsFiniteSet(Tokens(s)')
  BY TokensFinite
<1>2. Tokens(s) \ {<<q, k>>} \subseteq Tokens(s)'
  BY TokensStay
<1>3. <<r, m>> \in Tokens(s)' /\ <<r, m>> \notin Tokens(s)
  BY IsToken
<1>4. Cardinality(Tokens(s)) <= Cardinality(Tokens(s)')
      /\ Cardinality(Tokens(s)) \in Nat /\ Cardinality(Tokens(s)') \in Nat
  BY <1>1, <1>2, <1>3, Swap
<1>5. value <= Cardinality(Tokens(s))
  BY DEF Covered
<1> QED
  BY <1>4, <1>5

(* The tokens of a process that the step leaves alone. *)
Same(q) == pc'[q] = pc[q] /\ waiting'[q] = waiting[q] /\ n'[q] = n[q] /\ rest'[q] = rest[q]

LEMMA SameTokens ==
  ASSUME NEW q, Same(q), NEW s, NEW k
  PROVE  Token(q, k, s) <=> Token(q, k, s)'
  BY DEF Same, Token, Due

(* The two rules above for a step of p that leaves all others alone. *)
LEMMA KeepOwn ==
  ASSUME IsFiniteSet(Proc), Covered, NEW s \in Proc, Waits(s)',
         value \in Nat, value' \in Nat, value' <= value, NEW p \in Proc,
         \A q \in Proc : q # p => Same(q), Waits(p)' => Waits(p),
         \A k \in Numbers : Token(p, k, s) => Token(p, k, s)'
  PROVE  value' <= Cardinality(Tokens(s)')
<1>1. Waits(s)
  BY DEF Waits, Same
<1>2. \A q \in Proc : \A k \in Numbers : Token(q, k, s) => Token(q, k, s)'
  BY SameTokens
<1> QED
  BY <1>1, <1>2, KeepCovered

(* ... and of an exchange. *)
LEMMA SwapOwn ==
  ASSUME IsFiniteSet(Proc), Covered, NEW s \in Proc, Waits(s)',
         value \in Nat, value' = value, NEW p \in Proc,
         \A q \in Proc : q # p => Same(q), ~Waits(p)',
         NEW k \in Numbers, NEW m \in Numbers,
         \A i \in Numbers : Token(p, i, s) /\ i # k => Token(p, i, s)',
         ~Token(p, m, s), Token(p, m, s)'
  PROVE  value' <= Cardinality(Tokens(s)')
<1>1. Waits(s)
  BY DEF Waits, Same
<1>2. \A q \in Proc : \A i \in Numbers :
         Token(q, i, s) /\ <<q, i>> # <<p, k>> => Token(q, i, s)'
  BY SameTokens
<1> QED
  BY <1>1, <1>2, SwapCovered

(* Each step keeps a token for every unit of the value. *)
LEMMA StepCovered ==
  ASSUME IsFiniteSet(Proc), Structure, Covered, Bounds, NEW p \in Proc,
         Semacquire(p) \/ Semrelease(p) \/ Interrupt(p) \/ Step(p)
  PROVE  Covered'
<1> SUFFICES ASSUME NEW s \in Proc, Waits(s)'
             PROVE  value' <= Cardinality(Tokens(s)')
  BY DEF Covered
<1>0. /\ pc \in [Proc -> PCs] /\ waiting \in [Proc -> BOOLEAN] /\ value \in Nat /\ value' \in Nat
      /\ n \in [Proc -> Nat] /\ rest \in [Proc -> Seq(Proc)] /\ list \in Seq(Proc)
      /\ MaxValue \in Nat /\ TypeOK /\ Deltas \subseteq Nat
      /\ 0 \in Numbers /\ -1 \in Numbers /\ 1 \in Numbers /\ Numbers \subseteq Int
      /\ (value' = value => value' <= value)
  <2>1. MaxValue \in Nat /\ Deltas \subseteq Nat /\ TypeOK /\ TypeOK'
    BY StepType, SemaphoreAssumption DEF Structure
  <2>2. 0 \in Numbers /\ -1 \in Numbers /\ 1 \in Numbers /\ Numbers \subseteq Int
    BY <2>1 DEF Numbers
  <2>3. value \in Nat /\ value' \in Nat
    BY <2>1 DEF TypeOK
  <2>4. value' = value => value' <= value
    BY <2>3
  <2> QED
    BY <2>1, <2>2, <2>3, <2>4 DEF TypeOK
<1>1. CASE Semacquire(p)
  <2>1. /\ pc[p] = "idle" /\ pc'[p] = "try" /\ value' = value
        /\ \A q \in Proc : q # p => Same(q)
    BY <1>0, <1>1 DEF Semacquire, At, Goto, Same
  <2>2. Waits(p)' => Waits(p)
    BY <2>1 DEF Waits
  <2>3. \A k \in Numbers : Token(p, k, s) => Token(p, k, s)'
    BY <1>0, <2>1 DEF Token, Due, OnList
  <2> QED
    BY <1>0, <2>1, <2>2, <2>3, KeepOwn
<1>2. CASE Interrupt(p)
  <2>1. /\ pc'[p] = (IF pc[p] = "asleep" THEN "woken" ELSE pc[p]) /\ value' = value
        /\ pc[p] \in OnList /\ waiting'[p] = waiting[p]
        /\ \A q \in Proc : q # p => Same(q)
    BY <1>0, <1>2 DEF Interrupt, Same
  <2>2. Waits(p)' => Waits(p)
    BY <2>1 DEF Waits
  <2>3. \A k \in Numbers : Token(p, k, s) => Token(p, k, s)'
    BY <1>0, <2>1 DEF Token, Due, OnList
  <2> QED
    BY <1>0, <2>1, <2>2, <2>3, KeepOwn
<1>3. CASE Try(p)
  <2>1. /\ pc[p] = "try" /\ pc'[p] \in {"idle", "queue"} /\ value' <= value
        /\ \A q \in Proc : q # p => Same(q)
    BY <1>0, <1>3, TryMoves DEF Try, Same
  <2>2. Waits(p)' => Waits(p)
    BY <2>1 DEF Waits
  <2>3. \A k \in Numbers : Token(p, k, s) => Token(p, k, s)'
    BY <1>0, <2>1 DEF Token, Due, OnList
  <2> QED
    BY <1>0, <2>1, <2>2, <2>3, KeepOwn
<1>4. CASE Semqueue(p)
  <2>1. /\ pc[p] = "queue" /\ pc'[p] = "set" /\ value' = value /\ ~waiting'[p]
        /\ \A q \in Proc : q # p => Same(q)
    BY <1>0, <1>4 DEF Semqueue, At, Goto, Same
  <2>2. Waits(p)' => Waits(p)
    BY <2>1 DEF Waits
  <2>3. \A k \in Numbers : Token(p, k, s) => Token(p, k, s)'
    BY <1>0, <2>1 DEF Token, Due, OnList
  <2> QED
    BY <1>0, <2>1, <2>2, <2>3, KeepOwn
<1>5. CASE SetWaiting(p)
  <2>1. /\ pc[p] = "set" /\ pc'[p] = "again" /\ value' = value
        /\ \A q \in Proc : q # p => Same(q)
    BY <1>0, <1>5 DEF SetWaiting, At, Goto, Same
  <2>2. ~Waits(p)'
    BY <2>1 DEF Waits
  <2>3. /\ \A i \in Numbers : Token(p, i, s) /\ i # 0 => Token(p, i, s)'
        /\ ~Token(p, -1, s) /\ Token(p, -1, s)'
    BY <1>0, <2>1 DEF Token, Due, OnList
  <2> QED
    BY <1>0, <2>1, <2>2, <2>3, SwapOwn
<1>6. CASE TryAgain(p)
  <2>1. PICK to \in {"dequeue", "sleep"} :
                /\ pc[p] = "again" /\ pc' = [pc EXCEPT ![p] = to]
                /\ IF value > 0 THEN to = "dequeue" /\ value' = value - 1
                                ELSE to = "sleep" /\ value' = 0
    BY <1>0, <1>6, TryMoves
  <2>2. CASE value > 0
    <3>1. pc[p] = "again" /\ pc'[p] = "dequeue" /\ value' = value - 1 /\ waiting'[p] = waiting[p]
          /\ \A q \in Proc : q # p => Same(q)
      BY <1>0, <1>6, <2>1, <2>2 DEF TryAgain, Same
    <3>2. Waits(s) /\ s # p
      BY <3>1 DEF Waits, Same
    <3>3. \A i \in Numbers : Token(p, i, s) /\ i # -1 => Token(p, i, s)'
      BY <1>0, <3>1 DEF Token, Due, OnList
    <3>4. \A q \in Proc : \A i \in Numbers :
             Token(q, i, s) /\ <<q, i>> # <<p, -1>> => Token(q, i, s)'
      BY <3>1, <3>3, SameTokens
    <3>5. Tokens(s) \ {<<p, -1>>} \subseteq Tokens(s)'
      BY <3>4, TokensStay
    <3>6. IsFiniteSet(Tokens(s)) /\ IsFiniteSet(Tokens(s)')
      BY TokensFinite
    <3>7. /\ Cardinality(Tokens(s)) \in Nat /\ Cardinality(Tokens(s)') \in Nat
          /\ Cardinality(Tokens(s)) <= Cardinality(Tokens(s)') + 1
      BY <3>5, <3>6, Lose
    <3>8. value <= Cardinality(Tokens(s))
      BY <3>2 DEF Covered
    <3> QED
      BY <1>0, <3>1, <3>7, <3>8
  <2>3. CASE ~(value > 0)
    <3>1. Cardinality(Tokens(s)') \in Nat
      BY TokensFinite, FS_CardinalityType
    <3> QED
      BY <2>1, <2>3, <3>1
  <2> QED
    BY <2>2, <2>3
<1>7. CASE Sleep(p)
  <2>1. /\ pc[p] = "sleep" /\ pc'[p] \in {"asleep", "woken"} /\ value' = value /\ waiting'[p] = waiting[p]
        /\ \A q \in Proc : q # p => Same(q)
    BY <1>0, <1>7 DEF Sleep, At, Goto, Same
  <2>2. Waits(p)' => Waits(p)
    BY <2>1 DEF Waits
  <2>3. \A k \in Numbers : Token(p, k, s) => Token(p, k, s)'
    BY <1>0, <2>1 DEF Token, Due, OnList
  <2> QED
    BY <1>0, <2>1, <2>2, <2>3, KeepOwn
<1>8. CASE Woken(p)
  <2>1. /\ pc[p] = "woken" /\ pc'[p] \in {"dequeue", "set"} /\ value' = value /\ waiting'[p] = waiting[p]
        /\ \A q \in Proc : q # p => Same(q)
    BY <1>0, <1>8 DEF Woken, At, Goto, Same
  <2>2. Waits(p)' => Waits(p)
    BY <2>1 DEF Waits
  <2>3. \A k \in Numbers : Token(p, k, s) => Token(p, k, s)'
    BY <1>0, <2>1 DEF Token, Due, OnList
  <2> QED
    BY <1>0, <2>1, <2>2, <2>3, KeepOwn
<1>9. CASE Semdequeue(p)
  <2>1. /\ pc[p] = "dequeue" /\ pc'[p] = "pass" /\ value' = value /\ waiting'[p] = waiting[p]
        /\ \A q \in Proc : q # p => Same(q)
    BY <1>0, <1>9 DEF Semdequeue, At, Goto, Same
  <2>2. Waits(p)' => Waits(p)
    BY <2>1 DEF Waits
  <2>3. \A k \in Numbers : Token(p, k, s) => Token(p, k, s)'
    BY <1>0, <2>1 DEF Token, Due, OnList
  <2> QED
    BY <1>0, <2>1, <2>2, <2>3, KeepOwn
<1>10. CASE Pass(p)
  <2>1. PICK to \in {"idle", "lock"} :
           /\ pc[p] = "pass" /\ pc' = [pc EXCEPT ![p] = to]
           /\ IF waiting[p] THEN to = "idle" /\ n' = n
                            ELSE to = "lock" /\ n' = [n EXCEPT ![p] = 1]
    BY <1>10, PassMoves
  <2>2. /\ pc'[p] = to /\ n'[p] = (IF waiting[p] THEN n[p] ELSE 1) /\ value' = value
        /\ waiting'[p] = waiting[p]
        /\ \A q \in Proc : q # p => Same(q)
    BY <1>0, <1>10, <2>1 DEF Pass, Same
  <2>3. ~Waits(p)'
    BY <2>1, <2>2 DEF Waits
  <2>4. CASE waiting[p]
    <3>1. \A k \in Numbers : Token(p, k, s) => Token(p, k, s)'
      BY <1>0, <2>1, <2>2, <2>4 DEF Token, Due, OnList
    <3> QED
      BY <1>0, <2>2, <2>3, <3>1, KeepOwn
  <2>5. CASE ~waiting[p]
    <3>1. /\ \A i \in Numbers : Token(p, i, s) /\ i # 0 => Token(p, i, s)'
          /\ ~Token(p, 1, s) /\ Token(p, 1, s)'
      BY <1>0, <2>1, <2>2, <2>5 DEF Token, Due, OnList
    <3> QED
      BY <1>0, <2>2, <2>3, <3>1, SwapOwn
  <2> QED
    BY <2>4, <2>5
<1>11. CASE Semrelease(p)
  <2>1. PICK d \in Deltas : /\ pc[p] = "idle" /\ value + d <= MaxValue /\ value' = value + d
                            /\ n' = [n EXCEPT ![p] = d] /\ pc' = [pc EXCEPT ![p] = "lock"]
    BY <1>11 DEF Semrelease, At, Goto
  <2>2. /\ d \in Nat /\ pc'[p] = "lock" /\ n'[p] = d
        /\ \A q \in Proc : q # p => Same(q)
    BY <1>0, <1>11, <2>1 DEF Semrelease, Same
  <2>3. Waits(s)
    BY <2>2 DEF Waits, Same
  <2>4. /\ \A i \in Numbers : ~Token(p, i, s)
        /\ \A i \in 1..d : i \in Numbers /\ Token(p, i, s)'
    BY <1>0, <2>1, <2>2 DEF Token, Due, OnList, Numbers
  <2>5. Tokens(s) \subseteq Tokens(s)'
    <3> SUFFICES ASSUME NEW t \in Tokens(s) PROVE t \in Tokens(s)'
      OBVIOUS
    <3>1. PICK q \in Proc, k \in Numbers : t = <<q, k>>
      BY DEF Tokens
    <3>2. Token(q, k, s) /\ q # p
      BY <2>4, <3>1, IsToken
    <3> QED
      BY <2>2, <3>1, <3>2, SameTokens, IsToken
  <2>6. {p} \X (1..d) \subseteq Tokens(s)' /\ Tokens(s) \cap ({p} \X (1..d)) = {}
    <3> SUFFICES ASSUME NEW t \in {p} \X (1..d) PROVE t \in Tokens(s)' /\ t \notin Tokens(s)
      OBVIOUS
    <3>1. PICK i \in 1..d : t = <<p, i>>
      OBVIOUS
    <3> QED
      BY <2>4, <3>1, IsToken
  <2>7. IsFiniteSet(Tokens(s)) /\ IsFiniteSet(Tokens(s)')
    BY TokensFinite
  <2>8. /\ Cardinality(Tokens(s)) \in Nat /\ Cardinality(Tokens(s)') \in Nat
        /\ Cardinality(Tokens(s)) + d <= Cardinality(Tokens(s)')
    BY <2>2, <2>5, <2>6, <2>7, Gain
  <2>9. value <= Cardinality(Tokens(s))
    BY <2>3 DEF Covered
  <2> QED
    BY <1>0, <2>1, <2>2, <2>8, <2>9
<1>12. CASE SemwakeupLock(p)
  <2>1. /\ pc[p] = "lock" /\ pc'[p] = "scan" /\ value' = value /\ n'[p] = n[p] /\ rest'[p] = list
        /\ \A q \in Proc : q # p => Same(q)
    BY <1>0, <1>12 DEF SemwakeupLock, At, Goto, Same
  <2>2. ~Waits(p)' /\ Waits(s)
    BY <2>1 DEF Waits, Same
  <2>3. s \in Entries(list)
    BY <2>2 DEF Structure, Listed, Waits, OnList
  <2>4. \A k \in Numbers : Token(p, k, s) => Token(p, k, s)'
    BY <1>0, <2>1, <2>3 DEF Token, Due, OnList
  <2> QED
    BY <1>0, <2>1, <2>2, <2>4, KeepOwn
<1>13. CASE Scan(p)
  <2>1. PICK h \in Proc : /\ h = Head(rest[p]) /\ h \in Entries(rest[p])
        /\ \A x \in Entries(rest[p]) : x # h => x \in Entries(Tail(rest[p]))
    BY <1>0, <1>13, TailKeeps DEF Scan
  <2>2. pc[p] = "scan" /\ n[p] > 0 /\ n' = n /\ value' = value
    BY <1>13 DEF Scan, At
  <2>3. pc[h] \in OnList
    BY <2>1, <2>2, Alive DEF Structure
  <2>4. CASE waiting[h]
    <3>1. /\ waiting' = [waiting EXCEPT ![h] = FALSE] /\ rest' = rest
          /\ pc' = [pc EXCEPT ![p] = "wake"]
      BY <1>13, <2>1, <2>4 DEF Scan, Goto
    <3>2. /\ h # p /\ pc'[p] = "wake" /\ pc'[h] = pc[h] /\ ~waiting'[h] /\ waiting'[p] = waiting[p]
          /\ \A q \in Proc : q # p /\ q # h => Same(q)
          /\ n'[h] = n[h] /\ n'[p] = n[p] /\ rest'[p] = rest[p]
      BY <1>0, <2>1, <2>2, <2>3, <3>1 DEF Same, OnList
    <3>3. Waits(s) /\ s # h /\ s # p
      BY <3>2 DEF Waits, Same
    <3>4. s \in Entries(rest[p]) => s \in Entries(Tail(rest[p]))
      BY <2>1, <3>3
    <3>5. \A k \in Numbers : Token(p, k, s) /\ k # n[p] => Token(p, k, s)'
      BY <1>0, <2>2, <3>2, <3>4 DEF Token, Due, OnList
    <3>6. \A k \in Numbers : Token(h, k, s) => Token(h, k, s)'
      BY <1>0, <2>3, <2>4, <3>2 DEF Token, Due, OnList
    <3>7. ~Token(h, 0, s) /\ Token(h, 0, s)'
      BY <2>3, <2>4, <3>2 DEF Token
    <3>8. n[p] \in Numbers
      BY <1>0 DEF Bounds, Numbers
    <3>9. \A q \in Proc : \A k \in Numbers :
             Token(q, k, s) /\ <<q, k>> # <<p, n[p]>> => Token(q, k, s)'
      BY <3>2, <3>5, <3>6, SameTokens
    <3> QED
      BY <1>0, <2>1, <2>2, <3>3, <3>7, <3>8, <3>9, SwapCovered
  <2>5. CASE ~waiting[h]
    <3>1. waiting' = waiting /\ rest' = [rest EXCEPT ![p] = Tail(rest[p])] /\ pc' = pc
      BY <1>13, <2>1, <2>5 DEF Scan
    <3>2. rest'[p] = Tail(rest[p]) /\ \A q \in Proc : q # p => Same(q)
      BY <1>0, <2>2, <3>1 DEF Same
    <3>3. Waits(s) /\ s # h /\ ~Waits(p)'
      BY <2>2, <2>5, <3>1 DEF Waits
    <3>4. s \in Entries(rest[p]) => s \in Entries(rest'[p])
      BY <2>1, <3>2, <3>3
    <3>5. \A k \in Numbers : Token(p, k, s) => Token(p, k, s)'
      BY <1>0, <2>2, <3>1, <3>4 DEF Token, Due, OnList
    <3> QED
      BY <1>0, <2>2, <3>2, <3>3, <3>5, KeepOwn
  <2> QED
    BY <2>4, <2>5
<1>14. CASE Wakeup(p)
  <2>1. PICK h \in Proc : h = Head(rest[p]) /\ h \in Entries(rest[p])
    BY <1>0, <1>14, TailKeeps DEF Wakeup, At, Structure, Walking
  <2>2. /\ pc[p] = "wake" /\ waiting' = waiting /\ value' = value
        /\ n' = [n EXCEPT ![p] = n[p] - 1] /\ rest' = [rest EXCEPT ![p] = Tail(rest[p])]
        /\ pc' = [pc EXCEPT ![p] = "scan", ![h] = IF pc[h] = "asleep" THEN "woken" ELSE @]
    BY <1>14, <2>1 DEF Wakeup, At
  <2>3. pc[h] \in OnList
    BY <2>1, <2>2, Alive DEF Structure
  <2>4. /\ h # p /\ pc'[p] = "scan" /\ pc'[h] = (IF pc[h] = "asleep" THEN "woken" ELSE pc[h])
        /\ n'[p] = n[p] - 1 /\ rest'[p] = Tail(rest[p])
        /\ \A q \in Proc : q # p /\ q # h => Same(q)
    BY <1>0, <2>1, <2>2, <2>3 DEF OnList, Same
  <2>5. Waits(s)
    BY <2>2, <2>4 DEF Waits, Same
  <2>6. \A k \in Numbers : Token(p, k, s) => Token(p, k, s)'
    BY <1>0, <2>2, <2>4 DEF Token, Due, OnList
  <2>7. \A k \in Numbers : Token(h, k, s) => Token(h, k, s)'
    BY <1>0, <2>2, <2>3, <2>4 DEF Token, Due, OnList
  <2>8. \A q \in Proc : \A k \in Numbers : Token(q, k, s) => Token(q, k, s)'
    BY <2>4, <2>6, <2>7, SameTokens
  <2> QED
    BY <1>0, <2>2, <2>5, <2>8, KeepCovered
<1>15. CASE SemwakeupUnlock(p)
  <2>1. /\ pc[p] = "scan" /\ pc'[p] = "idle" /\ value' = value
        /\ n[p] = 0 \/ rest[p] = <<>>
        /\ \A q \in Proc : q # p => Same(q)
    BY <1>0, <1>15 DEF SemwakeupUnlock, At, Goto, Same
  <2>2. ~Waits(p)'
    BY <2>1 DEF Waits
  <2>3. rest[p] = <<>> => s \notin Entries(rest[p])
    BY DEF Entries
  <2>4. \A k \in Numbers : Token(p, k, s) => Token(p, k, s)'
    BY <1>0, <2>1, <2>3 DEF Token, Due, OnList
  <2> QED
    BY <1>0, <2>1, <2>2, <2>4, KeepOwn
<1> QED
  BY <1>1, <1>2, <1>3, <1>4, <1>5, <1>6, <1>7, <1>8, <1>9, <1>10, <1>11, <1>12, <1>13,
     <1>14, <1>15 DEF Step

(* No call has more wakeups to give than a release may add. *)
LEMMA StepBounds ==
  ASSUME Structure, Bounds, NEW p \in Proc,
         Semacquire(p) \/ Semrelease(p) \/ Interrupt(p) \/ Step(p)
  PROVE  Bounds'
<1>0. n \in [Proc -> Nat] /\ value \in Nat /\ MaxValue \in Nat /\ Deltas \subseteq Nat
  BY SemaphoreAssumption DEF Structure, TypeOK
<1>1. CASE Pass(p)
  <2>1. n' = n \/ n' = [n EXCEPT ![p] = 1]
    BY <1>1, PassMoves
  <2> QED
    BY <1>0, <2>1 DEF Bounds
<1>2. CASE Semrelease(p)
  <2>1. PICK d \in Deltas : value + d <= MaxValue /\ n' = [n EXCEPT ![p] = d]
    BY <1>2 DEF Semrelease
  <2> QED
    BY <1>0, <2>1 DEF Bounds
<1>3. CASE Wakeup(p)
  BY <1>0, <1>3 DEF Wakeup, Bounds
<1>4. CASE SemwakeupUnlock(p)
  BY <1>0, <1>4 DEF SemwakeupUnlock, Bounds
<1>5. CASE ~Pass(p) /\ ~Semrelease(p) /\ ~Wakeup(p) /\ ~SemwakeupUnlock(p)
  <2>1. n' = n
    BY <1>5 DEF Step, Semacquire, Interrupt, Try, Semqueue, SetWaiting, TryAgain, Sleep, Woken,
       Semdequeue, SemwakeupLock, Scan
  <2> QED
    BY <2>1 DEF Bounds
<1> QED
  BY <1>1, <1>2, <1>3, <1>4, <1>5
-----------------------------------------------------------------------------
(* Structure is inductive. *)
LEMMA NextStructure == Structure /\ [Next]_vars => Structure'
<1>1. ASSUME Structure, Next PROVE Structure'
  <2>1. PICK p \in Proc : Semacquire(p) \/ Semrelease(p) \/ Interrupt(p) \/ Step(p)
    BY <1>1 DEF Next
  <2> QED
    BY <1>1, <2>1, StepType, StepListed, StepWalking DEF Structure
<1>2. ASSUME Structure, UNCHANGED vars PROVE Structure'
  BY <1>2 DEF Structure, TypeOK, Listed, Walking, SemaAlive, Waking, Distinct, Entries, vars
<1> QED
  BY <1>1, <1>2

(* The list, its lock and the places in the two calls agree in every state *)
(* the kernel's semaphores reach.                                          *)
THEOREM SemaphoreStructure == Spec => []Structure
  BY InitStructure, NextStructure, PTL DEF Spec

(* The variables of semacquire and semrelease keep their types; n never    *)
(* drops below 0 in semwakeup (sysproc.c:885).                             *)
THEOREM SemaphoreTypeOK == Spec => []TypeOK
<1>1. Structure => TypeOK
  BY DEF Structure
<1> QED
  BY <1>1, SemaphoreStructure, PTL

(* semwakeup follows pointers into the stacks of processes in semacquire   *)
(* only while these are there: the lock of the list keeps them from        *)
(* leaving, for any number of processes.                                   *)
THEOREM SemaphoreAlive == Spec => []SemaAlive
<1>1. Structure => SemaAlive
  BY DEF Structure
<1> QED
  BY <1>1, SemaphoreStructure, PTL

(* A positive value and a sleeper leave a token, and its owner helps. *)
LEMMA CoveredHelps ==
  ASSUME Structure, Covered
  PROVE  NoLostWakeup
<1> SUFFICES ASSUME value > 0, NEW s \in Proc, pc[s] = "asleep"
             PROVE  \E q \in Proc : \/ pc[q] \in InSemwakeup \cup {"woken", "set", "again"}
                                    \/ pc[q] \in {"sleep", "dequeue", "pass"} /\ ~waiting[q]
  BY DEF NoLostWakeup
<1>0. pc \in [Proc -> PCs] /\ waiting \in [Proc -> BOOLEAN] /\ n \in [Proc -> Nat] /\ value \in Nat
  BY DEF Structure, TypeOK
<1>1. CASE \E q \in Proc : pc[q] = "asleep" /\ ~waiting[q]
  BY <1>1 DEF Structure, Waking, InSemwakeup
<1>2. CASE ~\E q \in Proc : pc[q] = "asleep" /\ ~waiting[q]
  <2>1. value <= Cardinality(Tokens(s))
    BY <1>2 DEF Covered, Waits
  <2>2. Tokens(s) # {}
    <3> SUFFICES ASSUME Tokens(s) = {} PROVE FALSE
      OBVIOUS
    <3>1. Cardinality(Tokens(s)) = 0
      BY FS_EmptySet
    <3> QED
      BY <1>0, <2>1, <3>1
  <2>3. PICK q \in Proc, k \in Numbers : Token(q, k, s)
    BY <2>2 DEF Tokens
  <2>4. CASE k = 0 /\ pc[q] \in OnList \cup {"pass"} /\ ~waiting[q]
    BY <1>2, <2>4 DEF OnList
  <2>5. CASE pc[q] = "again"
    BY <2>5
  <2>6. CASE k > 0 /\ k <= Due(q, s)
    <3>1. k \in Int
      BY SemaphoreAssumption DEF Numbers
    <3>2. pc[q] \in InSemwakeup
      BY <1>0, <2>6, <3>1 DEF Due, InSemwakeup
    <3> QED
      BY <3>2
  <2> QED
    BY <2>3, <2>4, <2>5, <2>6 DEF Token
<1> QED
  BY <1>1, <1>2

(* The protocol of semacquire and semrelease, with its three races closed  *)
(* by `waiting' and by the passing on of unused wakeups (sysproc.c:960),   *)
(* loses no wakeup: for any finite number of processes, any releases and   *)
(* any notes.                                                              *)
THEOREM SemaphoreNoLostWakeup ==
  ASSUME IsFiniteSet(Proc)
  PROVE  Spec => []NoLostWakeup
<1>1. Init => Covered /\ Bounds
  BY InitStructure
<1>2. Structure /\ (Covered /\ Bounds) /\ [Next]_vars => (Covered /\ Bounds)'
  <2>1. ASSUME Structure, Covered, Bounds, Next PROVE Covered' /\ Bounds'
    <3>1. PICK p \in Proc : Semacquire(p) \/ Semrelease(p) \/ Interrupt(p) \/ Step(p)
      BY <2>1 DEF Next
    <3> QED
      BY <2>1, <3>1, StepCovered, StepBounds
  <2>2. ASSUME Covered, Bounds, UNCHANGED vars PROVE Covered' /\ Bounds'
    <3>1. value' = value /\ pc' = pc /\ waiting' = waiting /\ n' = n /\ rest' = rest
      BY <2>2 DEF vars
    <3>2. \A s : Tokens(s)' = Tokens(s)
      BY <3>1 DEF Tokens, Token, Due, Entries
    <3> QED
      BY <2>2, <3>1, <3>2 DEF Covered, Bounds, Waits
  <2> QED
    BY <2>1, <2>2
<1>3. Structure /\ Covered => NoLostWakeup
  BY CoveredHelps
<1> QED
  BY <1>1, <1>2, <1>3, SemaphoreStructure, PTL DEF Spec
=============================================================================
