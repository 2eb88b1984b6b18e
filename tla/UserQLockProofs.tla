-------------------------- MODULE UserQLockProofs --------------------------
(***************************************************************************)
(* One owner, no lost lock and never all asleep, for the C library's QLock *)
(* and Rendez, which implement Mutex: for any number of processes, any     *)
(* pool and any choice of functions but canqlock.                          *)
(***************************************************************************)
EXTENDS UserQLock, TLAPS

Entries(s) == {s[i] : i \in DOMAIN s}
Distinct(s) == \A i, j \in DOMAIN s : s[i] = s[j] => i = j

(* An entry is in one list at most, and there in the state of the list or  *)
(* timed out; every Queuing entry is in the queue.                         *)
Lists == /\ Distinct(queue) /\ Distinct(rend)
         /\ Entries(queue) \cap Entries(rend) = {}
         /\ \A e \in Entries(queue) : state[e] \in {"Queuing", "Timedout"}
         /\ \A e \in Entries(rend) : state[e] \in {"Sleeping", "Timedout"}
         /\ \A e \in QLp : state[e] = "Queuing" => e \in Entries(queue)

(* A process keeps its own entry until it is granted or times out. *)
HasEntry == Waiting \cup {"got", "wakes", "wakest"}
Waits == /\ \A p \in Proc : pc[p] \in HasEntry =>
              mine[p] \in QLp /\ state[mine[p]] \in {"Sleeping", "Queuing", "Done"}
         /\ \A p \in Proc : /\ pc[p] \in {"wait", "waitt"} => state[mine[p]] # "Sleeping"
                            /\ pc[p] = "got" /\ ~torn => state[mine[p]] = "Done"
         /\ \A p, q \in Proc :
              pc[p] \in HasEntry /\ pc[q] \in HasEntry /\ mine[p] = mine[q] => p = q

(* Whoever is in the rendezvous of a hand-over is alone in it, its peer's  *)
(* entry is Done and the peer has not left: until a rendezvous is torn.    *)
Wakes == ~torn =>
         /\ \A p \in Proc : pc[p] \in Waking =>
              peer[p] \in QLp /\ state[peer[p]] = "Done"
         /\ \A p, q \in Proc : pc[p] \in Waking /\ pc[q] \in Waking => p = q
         /\ \A p, q \in Proc : pc[p] \in Waking => pc[q] # "got"

(* Only rsleept, or a process back from a rendezvous after one was torn,   *)
(* reaches a failed assertion; nobody finds a corrupt list.                *)
Asserts == /\ \A p \in Proc : pc[p] # "corrupt"
           /\ "rsleept" \notin Ops =>
                \A p \in Proc : /\ pc[p] \notin {"sleept", "wakest", "relock"}
                                /\ pc[p] = "failed" => torn

IInv == TypeOK /\ OneOwner /\ Lists /\ Waits /\ Wakes /\ Asserts

(* What the walk of the queue comes to, without the list. *)
Passed(p, st, busy, idle) ==
  /\ queue' \in Seq(QLp) /\ Distinct(queue')
  /\ Entries(queue') \subseteq Entries(queue)
  /\ state' \in [QLp -> States]
  /\ \A e \in Entries(queue') : state'[e] = st[e]
  /\ \/ /\ queue' = <<>> /\ locked' = FALSE
        /\ pc' = [pc EXCEPT ![p] = idle] /\ peer' = peer
        /\ \A e \in QLp : \/ state'[e] = st[e] /\ st[e] # "Queuing"
                          \/ state'[e] = "Free" /\ st[e] = "Timedout" /\ e \in Entries(queue)
     \/ /\ locked' = locked /\ pc' = [pc EXCEPT ![p] = busy]
        /\ \E x \in QLp :
             /\ st[x] = "Queuing" /\ state'[x] = "Done"
             /\ x \notin Entries(queue')
             /\ peer' = [peer EXCEPT ![p] = x]
             /\ \A e \in QLp \ {x} :
                  /\ \/ state'[e] = st[e]
                     \/ state'[e] = "Free" /\ st[e] = "Timedout" /\ e \in Entries(queue)
                  /\ st[e] = "Queuing" => e \in Entries(queue')

(* A list of distinct entries: what comes before, at and after position n + 1. *)
LEMMA SuffixEntries ==
  ASSUME NEW s \in Seq(QLp), Distinct(s), NEW n \in Nat, n < Len(s)
  PROVE  LET t == SubSeq(s, n + 2, Len(s))
         IN  /\ t \in Seq(QLp) /\ Distinct(t)
             /\ s[n + 1] \in Entries(s) /\ s[n + 1] \notin Entries(t)
             /\ Entries(s) = {s[i] : i \in 1..n} \cup {s[n + 1]} \cup Entries(t)
             /\ Entries(t) \cap {s[i] : i \in 1..n} = {}
<1> DEFINE t == SubSeq(s, n + 2, Len(s))
<1>1. /\ t \in Seq(QLp) /\ Len(t) = Len(s) - (n + 1) /\ n + 1 \in DOMAIN s
      /\ \A i \in DOMAIN t : i + n + 1 \in DOMAIN s /\ t[i] = s[i + n + 1]
  OBVIOUS
<1>2. Distinct(t)
  BY <1>1 DEF Distinct
<1>3. \A i \in DOMAIN t, j \in 1..(n + 1) : t[i] # s[j]
  <2> SUFFICES ASSUME NEW i \in DOMAIN t, NEW j \in 1..(n + 1) PROVE t[i] # s[j]
    OBVIOUS
  <2>1. i + n + 1 \in DOMAIN s /\ t[i] = s[i + n + 1] /\ j \in DOMAIN s /\ j # i + n + 1
    BY <1>1
  <2> QED
    BY <2>1 DEF Distinct
<1>4. \A i \in DOMAIN s : s[i] \in {s[j] : j \in 1..n} \cup {s[n + 1]} \cup Entries(t)
  <2> SUFFICES ASSUME NEW i \in DOMAIN s, i > n + 1 PROVE s[i] \in Entries(t)
    BY <1>1
  <2> DEFINE k == i - (n + 1)
  <2>0. i \in Nat /\ i <= Len(s) /\ Len(s) \in Nat
    OBVIOUS
  <2> HIDE DEF t
  <2>1. k \in 1..Len(t) /\ k + n + 1 = i
    BY <1>1, <2>0
  <2>2. k \in DOMAIN t
    BY <1>1, <2>1
  <2> HIDE DEF k
  <2>3. t[k] = s[i]
    BY <1>1, <2>1, <2>2
  <2> QED
    BY <2>2, <2>3 DEF Entries
<1> HIDE DEF t
<1>5. \A e \in Entries(t) : e \in Entries(s) /\ e # s[n + 1] /\ e \notin {s[j] : j \in 1..n}
  BY <1>1, <1>3 DEF Entries
<1>6. {s[i] : i \in 1..n} \subseteq Entries(s) /\ s[n + 1] \in Entries(s)
  <2>1. 1..n \subseteq DOMAIN s
    OBVIOUS
  <2> QED
    BY <1>1, <2>1 DEF Entries
<1> QED
  BY <1>1, <1>2, <1>4, <1>5, <1>6 DEF Entries, t

(* The walk frees timed out entries only and finds the first live one. *)
LEMMA HandOffPasses ==
  ASSUME TypeOK, Lists, NEW p \in Proc, NEW busy, NEW idle,
         NEW st \in [QLp -> States],
         \A e \in Entries(queue) : st[e] = state[e],
         \A e \in QLp : st[e] = "Queuing" => state[e] = "Queuing",
         HandOff(p, st, busy, idle)
  PROVE  Passed(p, st, busy, idle)
<1>1. queue \in Seq(QLp) /\ Distinct(queue)
  BY DEF TypeOK, Lists
<1>2. \A i \in DOMAIN queue : queue[i] \in QLp /\ st[queue[i]] \in {"Queuing", "Timedout"}
  BY <1>1 DEF Lists, Entries
<1>3. \A e \in QLp : st[e] = "Queuing" => \E i \in DOMAIN queue : queue[i] = e
  BY DEF Lists, Entries
<1>4. PICK n \in 0..Len(queue) : HandOff(p, st, busy, idle)!(n)
  BY DEF HandOff
<1> DEFINE skipped == {queue[i] : i \in 1..n}
           freed == [e \in QLp |-> IF e \in skipped THEN "Free" ELSE st[e]]
<1>5. skipped \subseteq Entries(queue) /\ \A e \in skipped : st[e] = "Timedout"
  BY <1>1, <1>4 DEF Entries
<1>6. freed \in [QLp -> States] /\ \A e \in QLp :
         \/ freed[e] = st[e] /\ e \notin skipped
         \/ freed[e] = "Free" /\ st[e] = "Timedout" /\ e \in Entries(queue)
  BY <1>5 DEF States
<1>7. CASE n = Len(queue)
  <2>1. state' = freed /\ queue' = <<>> /\ locked' = FALSE
        /\ pc' = [pc EXCEPT ![p] = idle] /\ peer' = peer
    BY <1>4, <1>7 DEF Goto
  <2>2. \A e \in QLp : st[e] = "Queuing" => e \in skipped
    BY <1>1, <1>3, <1>7
  <2>3. \A e \in QLp : st[e] # "Queuing"
    BY <2>2, <1>5
  <2>4. queue' \in Seq(QLp) /\ Distinct(queue') /\ Entries(queue') = {}
    BY <2>1 DEF Distinct, Entries
  <2> HIDE DEF freed
  <2> QED
    BY <1>6, <2>1, <2>3, <2>4 DEF Passed
<1>8. CASE n < Len(queue)
  <2> DEFINE x == queue[n + 1]
  <2>1. n + 1 \in DOMAIN queue /\ x \in QLp
    BY <1>1, <1>2, <1>8
  <2>2. st[x] = "Queuing"
    <3>1. x \notin skipped
      BY <1>1, <2>1 DEF Distinct
    <3>2. st[x] \in {"Queuing", "Timedout"}
      BY <1>2, <2>1
    <3>3. st[x] \notin {"Queuing", "Timedout"} \/ st[x] = "Queuing"
      BY <1>4, <1>8
    <3> QED
      BY <3>2, <3>3
  <2>3. /\ state' = [freed EXCEPT ![x] = "Done"]
        /\ queue' = SubSeq(queue, n + 2, Len(queue))
        /\ peer' = [peer EXCEPT ![p] = x]
        /\ pc' = [pc EXCEPT ![p] = busy] /\ locked' = locked
    BY <1>4, <1>8, <2>2 DEF Goto
  <2>4. /\ queue' \in Seq(QLp) /\ Distinct(queue') /\ x \notin Entries(queue')
        /\ Entries(queue) = skipped \cup {x} \cup Entries(queue')
        /\ Entries(queue') \cap skipped = {}
    BY <1>1, <1>8, <2>3, SuffixEntries
  <2>5. \A e \in QLp \ {x} : st[e] = "Queuing" => e \in Entries(queue')
    BY <1>5, <2>4 DEF Lists
  <2>6. \A e \in Entries(queue') : e \in QLp /\ e # x /\ e \notin skipped
    <3>1. \A e \in Entries(queue) : e \in QLp
      BY <1>2 DEF Entries
    <3> HIDE DEF x, skipped
    <3> QED
      BY <2>4, <3>1
  <2>7. /\ state' \in [QLp -> States] /\ state'[x] = "Done"
        /\ \A e \in QLp \ {x} : state'[e] = freed[e]
    BY <1>6, <2>1, <2>3 DEF States
  <2>8. \A e \in Entries(queue') : state'[e] = st[e]
    <3> SUFFICES ASSUME NEW e \in Entries(queue') PROVE state'[e] = st[e]
      OBVIOUS
    <3>1. e \in QLp /\ e # x /\ e \notin skipped
      BY <2>6
    <3>2. freed[e] = st[e]
      BY <3>1
    <3> QED
      BY <3>1, <3>2, <2>7
  <2> HIDE DEF freed, skipped, x
  <2> QED
    BY <1>6, <2>1, <2>2, <2>3, <2>4, <2>5, <2>7, <2>8 DEF Passed
<1> QED
  BY <1>4, <1>7, <1>8

(* Taking the free lock. *)
LEMMA TakeInv ==
  ASSUME IInv, NEW p \in Proc, pc[p] \in {"out", "relock"}, Take(p), torn' = torn
  PROVE  IInv'
<1> USE DEF Take, Goto
<1>1. TypeOK' /\ Lists'
  BY DEF IInv, TypeOK, PCs, Lists
<1>2. OneOwner'
  <2>1. Owners = {} /\ Given = {}
    BY DEF IInv, OneOwner
  <2>2. Owners' = {p} /\ Given' = {}
    BY <2>1 DEF IInv, TypeOK, Owners, Given
  <2> QED
    BY <2>2 DEF OneOwner
<1>3. Waits' /\ Wakes' /\ Asserts'
  BY DEF IInv, TypeOK, Waits, Wakes, Asserts, HasEntry, Waiting, Waking
<1> QED
  BY <1>1, <1>2, <1>3 DEF IInv

(* No free entry in the pool. *)
LEMMA FullInv ==
  ASSUME IInv, NEW p \in Proc, pc[p] \in {"out", "relock", "cs"}, GetqlpAborts(p),
         torn' = torn
  PROVE  IInv'
<1> USE DEF GetqlpAborts, Goto
<1>1. TypeOK' /\ Lists'
  BY DEF IInv, TypeOK, PCs, Lists, Aborted
<1>2. OneOwner'
  <2>1. Owners' \subseteq Owners /\ Given' = Given /\ pc'[p] \in Aborted
    BY DEF IInv, TypeOK, Owners, Given, Aborted
  <2> QED
    BY <2>1 DEF IInv, OneOwner
<1>3. Waits' /\ Wakes' /\ Asserts'
  BY DEF IInv, TypeOK, Waits, Wakes, Asserts, HasEntry, Waiting, Waking
<1> QED
  BY <1>1, <1>2, <1>3 DEF IInv

(* What appending does to a list of distinct entries. *)
LEMMA AppendEntries ==
  ASSUME NEW s \in Seq(QLp), NEW e \in QLp, e \notin Entries(s), Distinct(s)
  PROVE  /\ Append(s, e) \in Seq(QLp) /\ Distinct(Append(s, e))
         /\ Entries(Append(s, e)) = Entries(s) \cup {e}
<1> DEFINE t == Append(s, e)
<1>1. /\ t \in Seq(QLp) /\ Len(t) = Len(s) + 1 /\ t[Len(s) + 1] = e
      /\ \A i \in 1..Len(s) : t[i] = s[i]
  OBVIOUS
<1>2. /\ DOMAIN t = DOMAIN s \cup {Len(s) + 1} /\ Len(s) + 1 \notin DOMAIN s
      /\ \A i \in DOMAIN s : t[i] = s[i]
  BY <1>1
<1> HIDE DEF t
<1>3. Entries(t) = Entries(s) \cup {e}
  BY <1>1, <1>2 DEF Entries
<1>4. Distinct(t)
  BY <1>1, <1>2 DEF Distinct, Entries
<1> QED
  BY <1>1, <1>3, <1>4 DEF t

(* Queuing behind the owner. *)
LEMMA EnqueueInv ==
  ASSUME IInv, NEW p \in Proc, pc[p] \in {"out", "relock"},
         NEW to \in {"wait", "waitt"}, Enqueue(p, to), torn' = torn
  PROVE  IInv'
<1>1. CASE GetqlpAborts(p)
  BY <1>1, FullInv
<1>2. ASSUME NEW e \in FreeEntries,
             state' = [state EXCEPT ![e] = "Queuing"],
             mine' = [mine EXCEPT ![p] = e], queue' = Append(queue, e),
             pc' = [pc EXCEPT ![p] = to], locked, UNCHANGED <<locked, rend, peer>>
      PROVE  IInv'
  <2>1. e \in QLp /\ state[e] = "Free"
    BY DEF FreeEntries
  <2>2. e \notin Entries(queue) /\ e \notin Entries(rend)
    BY <2>1 DEF IInv, Lists
  <2>3. /\ queue' \in Seq(QLp) /\ Distinct(queue')
        /\ Entries(queue') = Entries(queue) \cup {e}
    BY <1>2, <2>1, <2>2, AppendEntries DEF IInv, TypeOK, Lists
  <2>4. TypeOK'
    BY <1>2, <2>1, <2>3 DEF IInv, TypeOK, PCs, States, Waiting
  <2>5. Lists'
    BY <1>2, <2>1, <2>2, <2>3 DEF IInv, TypeOK, Lists
  <2>6. OneOwner'
    <3>1. Owners' = Owners /\ Given' = Given
      BY <1>2, <2>1 DEF IInv, TypeOK, Owners, Given
    <3>2. \A q \in Proc : pc[q] \in Aborted => pc'[q] \in Aborted
      BY <1>2 DEF IInv, TypeOK, Aborted
    <3> QED
      BY <1>2, <3>1, <3>2 DEF IInv, OneOwner
  <2>7. Waits'
    BY <1>2, <2>1 DEF IInv, TypeOK, Waits, HasEntry, Waiting
  <2>8. Wakes' /\ Asserts'
    BY <1>2, <2>1 DEF IInv, TypeOK, Wakes, Asserts, Waking
  <2> QED
    BY <2>4, <2>5, <2>6, <2>7, <2>8 DEF IInv
<1> QED
  BY <1>1, <1>2 DEF Enqueue, Goto

(* The owner of the lock is alone, and no hand-over is under way. *)
LEMMA OwnerAlone ==
  ASSUME IInv, NEW p \in Proc, pc[p] \in {"cs", "all"}
  PROVE  /\ Owners = {p} /\ Given = {} /\ locked
         /\ ~torn => \A q \in Proc : pc[q] \notin Waking /\ pc[q] # "got"
<1>1. p \in Owners
  BY DEF Owners
<1>2. Owners = {p}
  BY <1>1 DEF IInv, OneOwner
<1>3. Given = {}
  BY <1>1, UserQLockAssumption DEF IInv, OneOwner, Given
<1>4. ~torn => \A q \in Proc : pc[q] \notin Waking /\ pc[q] # "got"
  BY <1>3 DEF IInv, Waits, Wakes, Given, HasEntry
<1> QED
  BY <1>1, <1>2, <1>3, <1>4 DEF IInv, OneOwner

(* Unlocking. *)
LEMMA QunlockInv ==
  ASSUME IInv, NEW p \in Proc, Qunlock(p), torn' = torn
  PROVE  IInv'
<1>1. pc[p] = "cs"
  BY DEF Qunlock, Entering
<1>2. Passed(p, state, "wake", "out") /\ rend' = rend /\ mine' = mine
  BY HandOffPasses DEF Qunlock, IInv, TypeOK
<1>3. /\ Owners = {p} /\ Given = {} /\ locked
      /\ ~torn => \A q \in Proc : pc[q] \notin Waking /\ pc[q] # "got"
  BY <1>1, OwnerAlone
<1>4. TypeOK'
  BY <1>2 DEF Passed, IInv, TypeOK, PCs, Waking
<1>5. Lists'
  <2>1. Entries(rend) \subseteq QLp /\ Entries(queue) \subseteq QLp
    BY DEF IInv, TypeOK, Entries
  <2>2. \A e \in QLp : state'[e] = "Queuing" => e \in Entries(queue')
    BY <1>2 DEF Passed, IInv, Lists
  <2>3. \A e \in Entries(rend) : state'[e] \in {"Sleeping", "Timedout"}
    <3> SUFFICES ASSUME NEW e \in Entries(rend) PROVE state'[e] = state[e]
      BY DEF IInv, Lists
    <3>1. e \in QLp /\ e \notin Entries(queue) /\ state[e] # "Queuing"
      BY <2>1 DEF IInv, Lists
    <3> QED
      BY <1>2, <3>1 DEF Passed
  <2>4. \A e \in Entries(queue') : state'[e] \in {"Queuing", "Timedout"}
    BY <1>2 DEF Passed, IInv, Lists
  <2> QED
    BY <1>2, <2>2, <2>3, <2>4 DEF Passed, IInv, Lists
<1>6. \A q \in Proc : q # p => pc'[q] = pc[q]
  BY <1>2 DEF Passed, IInv, TypeOK
<1>7. OneOwner'
  <2>1. CASE pc'[p] = "out" /\ locked' = FALSE /\ \A e \in QLp : state'[e] \in {state[e], "Free"} /\ state'[e] # "Queuing"
    BY <1>3, <1>6, <2>1 DEF OneOwner, Owners, Given
  <2>2. ASSUME NEW x \in QLp, pc'[p] = "wake", locked' = locked, state'[x] = "Done",
               \A e \in QLp \ {x} : state'[e] \in {state[e], "Free"}
        PROVE  OneOwner'
    <3>1. Owners' = {} /\ Given' = {x}
      BY <1>3, <1>6, <2>2 DEF Owners, Given
    <3> QED
      BY <1>3, <2>2, <3>1 DEF OneOwner
  <2> QED
    BY <1>2, <2>1, <2>2 DEF Passed, IInv, TypeOK
<1>8. Waits'
  <2>1. \A q \in Proc : pc'[q] \in HasEntry => q # p /\ pc[q] \in HasEntry /\ pc'[q] = pc[q]
    BY <1>2, <1>6 DEF Passed, IInv, TypeOK, HasEntry, Waiting
  <2>2. \A e \in QLp : /\ state[e] \in {"Sleeping", "Done"} => state'[e] = state[e]
                       /\ state[e] = "Queuing" => state'[e] \in {"Queuing", "Done"}
    BY <1>2 DEF Passed
  <2>3. \A q \in Proc : pc'[q] \in HasEntry =>
          /\ mine'[q] \in QLp /\ mine'[q] = mine[q]
          /\ state[mine[q]] \in {"Sleeping", "Queuing", "Done"}
          /\ state'[mine[q]] \in {"Sleeping", "Queuing", "Done"}
          /\ state'[mine[q]] = "Sleeping" => state[mine[q]] = "Sleeping"
          /\ state[mine[q]] = "Done" => state'[mine[q]] = "Done"
    BY <1>2, <2>1, <2>2 DEF IInv, Waits
  <2>4. \A q \in Proc : pc'[q] \in {"wait", "waitt", "got"} => pc'[q] \in HasEntry
    BY DEF HasEntry, Waiting
  <2>5. \A q, r \in Proc :
          pc'[q] \in HasEntry /\ pc'[r] \in HasEntry /\ mine'[q] = mine'[r] => q = r
    BY <2>1, <2>3 DEF IInv, Waits
  <2> QED
    BY <2>1, <2>3, <2>4, <2>5 DEF IInv, Waits
<1>9. Wakes'
  <2> SUFFICES ASSUME ~torn PROVE Wakes'
    BY DEF Wakes
  <2>1. \A q \in Proc : pc'[q] \in Waking => q = p
    BY <1>3, <1>6
  <2>2. pc'[p] \in Waking => peer'[p] \in QLp /\ state'[peer'[p]] = "Done"
    BY <1>2 DEF Passed, IInv, TypeOK, Waking
  <2>3. pc'[p] # "got"
    BY <1>2 DEF Passed, IInv, TypeOK
  <2> QED
    BY <1>3, <1>6, <2>1, <2>2, <2>3 DEF Wakes
<1>10. Asserts'
  <2>1. pc'[p] \in {"wake", "out"}
    BY <1>2 DEF Passed, IInv, TypeOK
  <2> QED
    BY <2>1, <1>6 DEF IInv, Asserts
<1> QED
  BY <1>4, <1>5, <1>7, <1>8, <1>9, <1>10 DEF IInv

(* The hand-over of a process that goes to sleep on the Rendez. *)
LEMMA SleepOnPasses ==
  ASSUME IInv, NEW p \in Proc, NEW busy, NEW idle, NEW e \in FreeEntries,
         HandOff(p, [state EXCEPT ![e] = "Sleeping"], busy, idle)
  PROVE  Passed(p, [state EXCEPT ![e] = "Sleeping"], busy, idle)
<1> DEFINE st == [state EXCEPT ![e] = "Sleeping"]
<1>1. e \in QLp /\ state[e] = "Free" /\ e \notin Entries(queue)
  BY DEF FreeEntries, IInv, Lists
<1>2. /\ st \in [QLp -> States] /\ st[e] = "Sleeping"
      /\ \A f \in QLp \ {e} : st[f] = state[f]
  BY <1>1 DEF IInv, TypeOK, States
<1>3. HandOff(p, st, busy, idle)
  OBVIOUS
<1> HIDE DEF st
<1>4. Entries(queue) \subseteq QLp
  BY DEF IInv, TypeOK, Entries
<1>5. \A f \in Entries(queue) : st[f] = state[f]
  BY <1>1, <1>2, <1>4
<1>6. \A f \in QLp : st[f] = "Queuing" => state[f] = "Queuing"
  BY <1>2
<1>7. Passed(p, st, busy, idle)
  BY <1>2, <1>3, <1>5, <1>6, HandOffPasses DEF IInv
<1> QED
  BY <1>7 DEF st

(* Going to sleep on the Rendez: a hand-over with one entry more. *)
LEMMA SleepOnInv ==
  ASSUME IInv, NEW p \in Proc, NEW busy, NEW idle,
         \/ busy = "wakes" /\ idle = "sleep"
         \/ busy = "wakest" /\ idle = "sleept" /\ "rsleept" \in Ops,
         SleepOn(p, busy, idle), torn' = torn
  PROVE  IInv'
<1>1. pc[p] = "cs"
  BY DEF SleepOn, Entering
<1>2. CASE GetqlpAborts(p)
  BY <1>1, <1>2, FullInv
<1>3. ASSUME NEW e \in FreeEntries, rend' = Append(rend, e),
             mine' = [mine EXCEPT ![p] = e],
             HandOff(p, [state EXCEPT ![e] = "Sleeping"], busy, idle)
      PROVE  IInv'
  <2> DEFINE st == [state EXCEPT ![e] = "Sleeping"]
  <2>1. e \in QLp /\ state[e] = "Free" /\ e \notin Entries(queue) /\ e \notin Entries(rend)
    BY DEF FreeEntries, IInv, Lists
  <2>2. /\ st \in [QLp -> States] /\ st[e] = "Sleeping"
        /\ \A f \in QLp \ {e} : st[f] = state[f]
    BY <2>1 DEF IInv, TypeOK, States
  <2> HIDE DEF st
  <2>3. Entries(rend) \subseteq QLp /\ Entries(queue) \subseteq QLp
    BY DEF IInv, TypeOK, Entries
  <2>4. Passed(p, st, busy, idle)
    BY <1>3, SleepOnPasses DEF st
  <2>5. /\ Owners = {p} /\ Given = {} /\ locked
        /\ ~torn => \A q \in Proc : pc[q] \notin Waking /\ pc[q] # "got"
    BY <1>1, OwnerAlone
  <2>6. /\ rend' \in Seq(QLp) /\ Distinct(rend')
        /\ Entries(rend') = Entries(rend) \cup {e}
    BY <1>3, <2>1, AppendEntries DEF IInv, TypeOK, Lists
  <2>7. /\ pc' \in [Proc -> PCs] /\ pc'[p] \in {busy, idle}
        /\ \A q \in Proc : q # p => pc'[q] = pc[q]
    BY <2>4 DEF Passed, IInv, TypeOK, PCs, Waking, Waiting
  <2>8. TypeOK'
    <3>1. mine' \in [Proc -> QLp \cup {None}]
      BY <1>3, <2>1 DEF IInv, TypeOK
    <3>2. peer' \in [Proc -> QLp \cup {None}] /\ locked' \in BOOLEAN
          /\ torn' \in BOOLEAN
      BY <2>4 DEF Passed, IInv, TypeOK
    <3> QED
      BY <2>4, <2>6, <2>7, <3>1, <3>2 DEF Passed, TypeOK
  <2>9. Lists'
    <3>1. \A f \in QLp : state'[f] = "Queuing" => f \in Entries(queue')
      BY <2>1, <2>2, <2>4 DEF Passed, IInv, Lists
    <3>2. \A f \in Entries(rend') : state'[f] \in {"Sleeping", "Timedout"}
      <4> SUFFICES ASSUME NEW f \in Entries(rend') PROVE state'[f] = st[f] /\ st[f] \in {"Sleeping", "Timedout"}
        OBVIOUS
      <4>1. f \in QLp /\ f \notin Entries(queue) /\ st[f] \in {"Sleeping", "Timedout"}
        BY <2>1, <2>2, <2>3, <2>6 DEF IInv, Lists
      <4> QED
        BY <2>4, <4>1 DEF Passed
    <3>3. \A f \in Entries(queue') : state'[f] \in {"Queuing", "Timedout"}
      BY <2>1, <2>2, <2>3, <2>4 DEF Passed, IInv, Lists
    <3>4. Entries(queue') \cap Entries(rend') = {} /\ Distinct(queue')
      BY <2>1, <2>4, <2>6 DEF Passed, IInv, Lists
    <3> QED
      BY <2>6, <3>1, <3>2, <3>3, <3>4 DEF Lists
  <2>10. OneOwner'
    <3>1. Owners' = {}
      BY <2>5, <2>7 DEF Owners
    <3>2. \A f \in QLp : state[f] # "Done" /\ st[f] # "Done"
      BY <2>2, <2>5 DEF Given
    <3>3. CASE locked' = FALSE /\ \A f \in QLp : \/ state'[f] = st[f] /\ st[f] # "Queuing"
                                               \/ state'[f] = "Free"
      <4>1. Given' = {}
        BY <3>2, <3>3 DEF Given
      <4> QED
        BY <3>1, <3>3, <4>1 DEF OneOwner
    <3>4. ASSUME NEW x \in QLp, locked' = locked, state'[x] = "Done",
                 \A f \in QLp \ {x} : state'[f] = st[f] \/ state'[f] = "Free"
          PROVE  OneOwner'
      <4>1. Given' = {x}
        BY <3>2, <3>4 DEF Given
      <4> QED
        BY <2>5, <3>1, <3>4, <4>1 DEF OneOwner
    <3> QED
      BY <2>4, <3>3, <3>4 DEF Passed
  <2>11. Waits'
    <3>1. \A q \in Proc : /\ q # p => mine'[q] = mine[q]
                          /\ q # p /\ pc'[q] \in HasEntry =>
                               /\ mine[q] \in QLp
                               /\ state[mine[q]] \in {"Sleeping", "Queuing"}
                               /\ pc[q] \in {"wait", "waitt"} => state[mine[q]] # "Sleeping"
                               /\ pc[q] = "got" => torn
      BY <1>3, <2>5, <2>7 DEF IInv, TypeOK, Waits, Given
    <3>2. \A f \in QLp : /\ state[f] = "Sleeping" => state'[f] = "Sleeping"
                         /\ state[f] = "Queuing" => state'[f] \in {"Queuing", "Done"}
      BY <2>1, <2>2, <2>4 DEF Passed
    <3>3. mine'[p] = e /\ state'[e] = "Sleeping" /\ pc'[p] \notin {"wait", "waitt", "got"}
      BY <1>3, <2>1, <2>2, <2>4, <2>7 DEF Passed, IInv, TypeOK
    <3>4. \A q, r \in Proc :
            pc'[q] \in HasEntry /\ pc'[r] \in HasEntry /\ mine'[q] = mine'[r] => q = r
      <4>1. \A q \in Proc : q # p /\ pc'[q] \in HasEntry => mine'[q] # e
        BY <2>1, <3>1
      <4> QED
        BY <2>7, <3>1, <3>3, <4>1 DEF IInv, Waits
    <3>5. \A q \in Proc : pc'[q] \in {"wait", "waitt", "got"} => pc'[q] \in HasEntry
      BY DEF HasEntry, Waiting
    <3> QED
      BY <2>1, <2>5, <2>7, <3>1, <3>2, <3>3, <3>4, <3>5 DEF Waits
  <2>12. Wakes'
    <3> SUFFICES ASSUME ~torn PROVE Wakes'
      BY DEF Wakes
    <3>1. \A q \in Proc : pc'[q] \in Waking => q = p
      BY <2>5, <2>7
    <3>2. pc'[p] \in Waking => peer'[p] \in QLp /\ state'[peer'[p]] = "Done"
      BY <2>4 DEF Passed, IInv, TypeOK, Waking
    <3> QED
      BY <2>5, <2>7, <3>1, <3>2 DEF Wakes
  <2>13. Asserts'
    BY <2>7 DEF IInv, Asserts
  <2> QED
    BY <2>8, <2>9, <2>10, <2>11, <2>12, <2>13 DEF IInv
<1> QED
  BY <1>2, <1>3 DEF SleepOn

(* What waking a sleeper comes to, without the list. *)
Woken(p, some, none) ==
  /\ rend' \in Seq(QLp) /\ Distinct(rend')
  /\ state' \in [QLp -> States]
  /\ \A e \in Entries(rend') : e \in Entries(rend) /\ state'[e] = state[e]
  /\ UNCHANGED <<locked, mine, peer>>
  /\ \/ /\ queue' = queue /\ pc' = [pc EXCEPT ![p] = none]
        /\ \A e \in QLp : \/ state'[e] = state[e]
                          \/ state'[e] = "Free" /\ state[e] = "Timedout" /\ e \in Entries(rend)
     \/ /\ pc' = [pc EXCEPT ![p] = some]
        /\ \E x \in Entries(rend) \ Entries(rend') :
             /\ state[x] = "Sleeping" /\ state'[x] = "Queuing"
             /\ queue' = <<x>> \o queue
             /\ \A e \in QLp \ {x} :
                  \/ state'[e] = state[e]
                  \/ state'[e] = "Free" /\ state[e] = "Timedout" /\ e \in Entries(rend)

(* The walk of the Rendez frees timed out entries only. *)
LEMMA WakeWakes ==
  ASSUME TypeOK, Lists, NEW p \in Proc, NEW some, NEW none, Wake(p, some, none)
  PROVE  Woken(p, some, none)
<1>1. rend \in Seq(QLp) /\ Distinct(rend) /\ state \in [QLp -> States]
  BY DEF TypeOK, Lists
<1>2. \A i \in DOMAIN rend : rend[i] \in QLp /\ state[rend[i]] \in {"Sleeping", "Timedout"}
  BY <1>1 DEF Lists, Entries
<1>3. PICK n \in 0..Len(rend) : Wake(p, some, none)!(n)
  BY DEF Wake
<1> DEFINE skipped == {rend[i] : i \in 1..n}
           freed == [e \in QLp |-> IF e \in skipped THEN "Free" ELSE state[e]]
<1>4. skipped \subseteq Entries(rend) /\ \A e \in skipped : state[e] = "Timedout"
  BY <1>1, <1>3 DEF Entries
<1>5. freed \in [QLp -> States] /\ \A e \in QLp :
         \/ freed[e] = state[e] /\ e \notin skipped
         \/ freed[e] = "Free" /\ state[e] = "Timedout" /\ e \in Entries(rend)
  BY <1>1, <1>4 DEF States
<1>6. UNCHANGED <<locked, mine, peer>>
  BY <1>3
<1>7. CASE n = Len(rend)
  <2>1. state' = freed /\ rend' = <<>> /\ queue' = queue /\ pc' = [pc EXCEPT ![p] = none]
    BY <1>3, <1>7 DEF Goto
  <2>2. rend' \in Seq(QLp) /\ Distinct(rend') /\ Entries(rend') = {}
    BY <2>1 DEF Distinct, Entries
  <2> HIDE DEF freed
  <2> QED
    BY <1>5, <1>6, <2>1, <2>2 DEF Woken
<1>8. CASE n < Len(rend)
  <2> DEFINE x == rend[n + 1]
  <2>1. n + 1 \in DOMAIN rend /\ x \in QLp
    BY <1>1, <1>2, <1>8
  <2>2. state[x] = "Sleeping"
    <3>1. state[x] \in {"Sleeping", "Timedout"}
      BY <1>2, <2>1
    <3>2. state[x] \notin {"Sleeping", "Timedout"} \/ state[x] = "Sleeping"
      BY <1>3, <1>8
    <3> QED
      BY <3>1, <3>2
  <2>3. /\ state' = [freed EXCEPT ![rend[n + 1]] = "Queuing"]
        /\ rend' = SubSeq(rend, n + 2, Len(rend))
        /\ queue' = <<rend[n + 1]>> \o queue /\ pc' = [pc EXCEPT ![p] = some]
    <3>1. ~(n = Len(rend)) /\ ~(state[rend[n + 1]] \notin {"Sleeping", "Timedout"})
      BY <1>1, <1>8, <2>2
    <3> QED
      BY <1>3, <3>1, Zenon DEF Goto
  <2>4. /\ rend' \in Seq(QLp) /\ Distinct(rend') /\ x \notin Entries(rend')
        /\ Entries(rend) = skipped \cup {x} \cup Entries(rend')
        /\ Entries(rend') \cap skipped = {}
    <3>1. rend' = SubSeq(rend, n + 2, Len(rend)) /\ rend \in Seq(QLp) /\ Distinct(rend)
          /\ n \in 0..Len(rend) /\ n < Len(rend)
      BY <1>1, <1>8, <2>3
    <3> HIDE DEF freed
    <3> QED
      BY ONLY <3>1, SuffixEntries
  <2>5. /\ state' \in [QLp -> States] /\ state'[x] = "Queuing"
        /\ \A e \in QLp \ {x} : state'[e] = freed[e]
    BY <1>5, <2>1, <2>3 DEF States
  <2>6. \A e \in Entries(rend') : e \in Entries(rend) /\ state'[e] = state[e]
    <3> SUFFICES ASSUME NEW e \in Entries(rend') PROVE e \in Entries(rend) /\ state'[e] = state[e]
      OBVIOUS
    <3>1. e \in Entries(rend) /\ e # x /\ e \notin skipped
      BY <2>4
    <3>2. e \in QLp
      BY <3>1, <1>2 DEF Entries
    <3>3. freed[e] = state[e]
      BY <3>1, <3>2
    <3> QED
      BY <3>1, <3>2, <3>3, <2>5
  <2> HIDE DEF freed, skipped, x
  <2> QED
    BY <1>5, <1>6, <2>1, <2>2, <2>3, <2>4, <2>5, <2>6 DEF Woken
<1> QED
  BY <1>3, <1>7, <1>8

(* Putting an entry in front of a list of distinct entries. *)
LEMMA FrontEntries ==
  ASSUME NEW s \in Seq(QLp), NEW e \in QLp, e \notin Entries(s), Distinct(s)
  PROVE  /\ <<e>> \o s \in Seq(QLp) /\ Distinct(<<e>> \o s)
         /\ Entries(<<e>> \o s) = Entries(s) \cup {e}
<1> DEFINE t == <<e>> \o s
<1>1. /\ t \in Seq(QLp) /\ Len(t) = Len(s) + 1 /\ t[1] = e
      /\ \A i \in 2..Len(t) : t[i] = s[i - 1]
  OBVIOUS
<1>2. \A i \in DOMAIN t : i = 1 \/ (i - 1 \in DOMAIN s /\ t[i] = s[i - 1])
  BY <1>1
<1>3. 1 \in DOMAIN t /\ \A i \in DOMAIN s : i + 1 \in DOMAIN t /\ t[i + 1] = s[i]
  BY <1>1
<1> HIDE DEF t
<1>4. Entries(t) = Entries(s) \cup {e}
  <2>1. \A x \in Entries(t) : x \in Entries(s) \cup {e}
    BY <1>1, <1>2 DEF Entries
  <2>2. \A x \in Entries(s) \cup {e} : x \in Entries(t)
    BY <1>1, <1>3 DEF Entries
  <2> QED
    BY <2>1, <2>2
<1>5. Distinct(t)
  <2> SUFFICES ASSUME NEW i \in DOMAIN t, NEW j \in DOMAIN t, t[i] = t[j] PROVE i = j
    BY DEF Distinct
  <2>1. \A k \in DOMAIN t : k # 1 => t[k] \in Entries(s)
    BY <1>2 DEF Entries
  <2>2. CASE i = 1 \/ j = 1
    BY <1>1, <2>1, <2>2
  <2>3. CASE i # 1 /\ j # 1
    <3>1. i - 1 = j - 1
      BY <1>2, <2>3 DEF Distinct
    <3> QED
      BY <3>1, <1>1
  <2> QED
    BY <2>2, <2>3
<1> QED
  BY <1>1, <1>4, <1>5 DEF t

(* Waking one sleeper: it queues in front, the owner keeps the lock. *)
LEMMA WakeInv ==
  ASSUME IInv, NEW p \in Proc, pc[p] \in {"cs", "all"},
         NEW some \in {"cs", "all"}, Wake(p, some, "cs"), torn' = torn
  PROVE  IInv'
<1>1. Woken(p, some, "cs")
  BY WakeWakes DEF IInv
<1>2. /\ pc' \in [Proc -> PCs] /\ pc'[p] \in {"cs", "all"}
      /\ \A q \in Proc : q # p => pc'[q] = pc[q]
  BY <1>1 DEF Woken, IInv, TypeOK, PCs
<1>3. /\ Owners = {p} /\ Given = {} /\ locked
      /\ ~torn => \A q \in Proc : pc[q] \notin Waking /\ pc[q] # "got"
  BY OwnerAlone
<1>4. Entries(rend) \subseteq QLp /\ Entries(queue) \subseteq QLp
  BY DEF IInv, TypeOK, Entries
<1>5. \A e \in QLp :
        \/ state'[e] = state[e]
        \/ state'[e] = "Free" /\ state[e] = "Timedout" /\ e \in Entries(rend)
        \/ /\ state'[e] = "Queuing" /\ state[e] = "Sleeping"
           /\ e \in Entries(rend) /\ e \notin Entries(rend') /\ queue' = <<e>> \o queue
  BY <1>1 DEF Woken
<1>6. ASSUME queue' = queue, \A e \in QLp : state'[e] = "Queuing" => state[e] = "Queuing"
      PROVE  TypeOK' /\ Lists'
  <2>1. TypeOK'
    BY <1>1, <1>2, <1>6 DEF Woken, IInv, TypeOK
  <2>2. Lists'
    <3>1. \A e \in Entries(queue) : state'[e] = state[e]
      BY <1>4, <1>5, <1>6 DEF IInv, Lists
    <3> QED
      BY <1>1, <1>6, <3>1 DEF Woken, IInv, Lists
  <2> QED
    BY <2>1, <2>2
<1>7. ASSUME NEW x \in Entries(rend), x \notin Entries(rend'), state[x] = "Sleeping",
             state'[x] = "Queuing", queue' = <<x>> \o queue,
             \A e \in QLp \ {x} : \/ state'[e] = state[e]
                                  \/ state'[e] = "Free" /\ e \in Entries(rend)
      PROVE  TypeOK' /\ Lists'
  <2>1. x \in QLp /\ x \notin Entries(queue)
    BY <1>4 DEF IInv, Lists
  <2>2. /\ queue' \in Seq(QLp) /\ Distinct(queue')
        /\ Entries(queue') = Entries(queue) \cup {x}
    BY <1>7, <2>1, FrontEntries DEF IInv, TypeOK, Lists
  <2>3. TypeOK'
    BY <1>1, <1>2, <2>2 DEF Woken, IInv, TypeOK
  <2>4. \A e \in Entries(queue) : state'[e] = state[e]
    BY <1>4, <1>7, <2>1 DEF IInv, Lists
  <2>5. Lists'
    BY <1>1, <1>7, <2>1, <2>2, <2>4 DEF Woken, IInv, Lists
  <2> QED
    BY <2>3, <2>5
<1>8. TypeOK' /\ Lists'
  <2>1. CASE \E x \in Entries(rend) \ Entries(rend') :
               /\ state[x] = "Sleeping" /\ state'[x] = "Queuing"
               /\ queue' = <<x>> \o queue
               /\ \A e \in QLp \ {x} : \/ state'[e] = state[e]
                                       \/ state'[e] = "Free" /\ e \in Entries(rend)
    BY <1>7, <2>1
  <2> QED
    BY <1>1, <1>6, <2>1 DEF Woken
<1>9. OneOwner'
  <2>1. Owners' = {p} /\ Given' = {}
    BY <1>2, <1>3, <1>5 DEF Owners, Given
  <2> QED
    BY <1>1, <1>3, <2>1 DEF Woken, OneOwner
<1>10. Waits'
  <2>1. mine' = mine /\ \A q \in Proc : pc'[q] \in HasEntry => q # p /\ pc'[q] = pc[q]
    BY <1>1, <1>2 DEF Woken, HasEntry, Waiting
  <2>2. \A q \in Proc : pc'[q] \in HasEntry =>
          /\ mine[q] \in QLp /\ state'[mine[q]] \in {"Sleeping", "Queuing", "Done"}
          /\ state'[mine[q]] = "Sleeping" => state[mine[q]] = "Sleeping"
          /\ state[mine[q]] = "Done" => state'[mine[q]] = "Done"
    BY <1>5, <2>1 DEF IInv, Waits
  <2>3. \A q \in Proc : pc'[q] \in {"wait", "waitt", "got"} => pc'[q] \in HasEntry
    BY DEF HasEntry, Waiting
  <2> QED
    BY <2>1, <2>2, <2>3 DEF IInv, Waits
<1>11. Wakes' /\ Asserts'
  BY <1>2, <1>3 DEF IInv, Wakes, Asserts, Waking
<1> QED
  BY <1>8, <1>9, <1>10, <1>11 DEF IInv

(* Where the parties of a rendezvous go on. *)
LEMMA RendezvousMoves ==
  ASSUME TypeOK, NEW p \in Proc, NEW w \in Proc, Rendezvous(p, w)
  PROVE  /\ pc' \in [Proc -> PCs]
         /\ pc'[p] = Back(p) /\ ((pc'[w] = pc[w] /\ torn') \/ (pc'[w] = Back(w) /\ torn' = torn))
         /\ \A q \in Proc : q \notin {p, w} => pc'[q] = pc[q]
         /\ \A q \in {p, w} : \/ pc[q] = "wake" /\ Back(q) = "out"
                              \/ pc[q] = "wakes" /\ Back(q) = "sleep"
                              \/ pc[q] = "wakest" /\ Back(q) = "sleept"
                              \/ pc[q] \in Waiting /\ Back(q) = "got"
<1> DEFINE Back0(q) == \/ pc[q] = "wake" /\ Back(q) = "out"
                       \/ pc[q] = "wakes" /\ Back(q) = "sleep"
                       \/ pc[q] = "wakest" /\ Back(q) = "sleept"
                       \/ pc[q] \in Waiting /\ Back(q) = "got"
<1>1. pc[p] \in Waiting \cup Waking /\ pc[w] \in Waiting \cup Waking /\ p # w
  BY DEF Rendezvous
<1>2. ASSUME NEW q \in {p, w} PROVE Back0(q)
  <2>1. pc[q] \in Waiting \cup Waking
    BY <1>1
  <2> QED
    BY <2>1 DEF Back, Waiting, Waking
<1>3. Back(p) \in PCs /\ Back(w) \in PCs
  BY <1>2 DEF PCs, Waiting
<1>4. \/ pc' = [pc EXCEPT ![p] = Back(p), ![w] = Back(w)] /\ torn' = torn
      \/ pc' = [pc EXCEPT ![p] = Back(p)] /\ torn'
  BY DEF Rendezvous, Goto
<1>5. pc \in [Proc -> PCs]
  BY DEF TypeOK
<1>6. pc' \in [Proc -> PCs]
  BY <1>3, <1>4, <1>5
<1>7. /\ pc'[p] = Back(p) /\ ((pc'[w] = pc[w] /\ torn') \/ (pc'[w] = Back(w) /\ torn' = torn))
      /\ \A q \in Proc : q \notin {p, w} => pc'[q] = pc[q]
  BY <1>1, <1>4, <1>5
<1> QED
  BY <1>2, <1>6, <1>7

(* While none was torn, one party hands over the lock and the other is the *)
(* process it hands it to.                                                 *)
LEMMA RendezvousPair ==
  ASSUME IInv, NEW p \in Proc, NEW w \in Proc, Rendezvous(p, w), ~torn
  PROVE  \/ pc[p] \in Waking /\ pc[w] \in Waiting /\ mine[w] = peer[p]
         \/ pc[w] \in Waking /\ pc[p] \in Waiting /\ mine[p] = peer[w]
<1>1. p # w /\ pc[p] \in Waiting \cup Waking /\ pc[w] \in Waiting \cup Waking /\ Tag(p) = Tag(w)
  BY DEF Rendezvous
<1>2. ~(pc[p] \in Waking /\ pc[w] \in Waking)
  BY <1>1 DEF IInv, Wakes
<1>3. ~(pc[p] \in Waiting /\ pc[w] \in Waiting)
  <2>1. Waiting \subseteq HasEntry /\ \A q \in Proc : pc[q] \in Waiting => Tag(q) = mine[q]
    BY DEF HasEntry, Waiting, Waking, Tag
  <2> QED
    BY <1>1, <2>1 DEF IInv, Waits
<1> QED
  BY <1>1, <1>2, <1>3 DEF Tag, Waiting, Waking

(* The rendezvous, of a hand-over or not. *)
LEMMA RendezvousInv ==
  ASSUME IInv, NEW p \in Proc, NEW w \in Proc, Rendezvous(p, w)
  PROVE  IInv'
<1>1. p # w /\ UNCHANGED <<locked, queue, rend, state, mine>>
  BY DEF Rendezvous
<1>2. pc' \in [Proc -> PCs] /\ \A q \in Proc :
        \/ pc'[q] = pc[q]
        \/ pc[q] = "wake" /\ pc'[q] = "out"
        \/ pc[q] = "wakes" /\ pc'[q] = "sleep"
        \/ pc[q] = "wakest" /\ pc'[q] = "sleept"
        \/ pc[q] \in Waiting /\ pc'[q] = "got"
  BY RendezvousMoves DEF IInv
<1>3. TypeOK' /\ Lists'
  <2>1. peer' \in [Proc -> QLp \cup {None}] /\ torn' \in BOOLEAN
    BY DEF Rendezvous, IInv, TypeOK
  <2> QED
    BY <1>1, <1>2, <2>1 DEF IInv, TypeOK, Lists
<1>4. OneOwner'
  <2>1. Owners' = Owners /\ Given' = Given
    BY <1>1, <1>2 DEF Owners, Given, Waiting
  <2>2. \A q \in Proc : pc[q] \in Aborted => pc'[q] = pc[q]
    BY <1>2 DEF Aborted, Waiting
  <2> QED
    BY <1>1, <2>1, <2>2 DEF IInv, OneOwner
<1>5. torn' \/ (torn' = torn /\ pc'[p] = Back(p) /\ pc'[w] = Back(w))
  BY RendezvousMoves DEF IInv
<1>6. ASSUME ~torn'
      PROVE  /\ ~torn
             /\ \E a, b \in {p, w} : /\ a # b /\ pc[a] \in Waking /\ pc[b] \in Waiting
                                     /\ mine[b] = peer[a] /\ pc'[a] \notin Waking \cup {"got"}
                                     /\ pc'[b] = "got"
             /\ \A q \in Proc : q \notin {p, w} => pc'[q] = pc[q]
  <2>1. ~torn /\ pc'[p] = Back(p) /\ pc'[w] = Back(w)
    BY <1>5, <1>6
  <2>2. \A q \in Proc : q \notin {p, w} => pc'[q] = pc[q]
    BY RendezvousMoves DEF IInv
  <2>3. \/ pc[p] \in Waking /\ pc[w] \in Waiting /\ mine[w] = peer[p]
        \/ pc[w] \in Waking /\ pc[p] \in Waiting /\ mine[p] = peer[w]
    BY <2>1, RendezvousPair
  <2>4. \A q \in Proc : /\ pc[q] \in Waking => Back(q) \notin Waking \cup {"got"}
                        /\ pc[q] \in Waiting => Back(q) = "got"
    BY DEF Back, Waking, Waiting
  <2> QED
    BY <1>1, <2>1, <2>2, <2>3, <2>4
<1>7. Waits'
  <2>1. \A q \in Proc : pc'[q] \in HasEntry => pc[q] \in HasEntry
    BY <1>2 DEF HasEntry, Waiting
  <2>2. \A q \in Proc : pc'[q] \in {"wait", "waitt"} => pc[q] = pc'[q]
    BY <1>2
  <2>3. ASSUME NEW q \in Proc, pc'[q] = "got", ~torn' PROVE state'[mine'[q]] = "Done"
    <3>1. CASE q \notin {p, w}
      BY <1>1, <1>6, <2>3, <3>1 DEF IInv, Waits
    <3>2. CASE q \in {p, w}
      <4>1. PICK a \in {p, w} : pc[a] \in Waking /\ mine[q] = peer[a]
        BY <1>6, <2>3, <3>2
      <4> QED
        BY <1>1, <1>6, <2>3, <4>1 DEF IInv, Wakes
    <3> QED
      BY <3>1, <3>2
  <2> QED
    BY <1>1, <2>1, <2>2, <2>3 DEF IInv, Waits
<1>8. Wakes'
  <2> SUFFICES ASSUME ~torn' PROVE \A q \in Proc : pc'[q] \notin Waking
    BY DEF Wakes
  <2>1. PICK a, b \in {p, w} : a # b /\ pc[a] \in Waking /\ pc'[a] \notin Waking /\ pc'[b] = "got"
    BY <1>6
  <2>2. \A q \in Proc : q \notin {p, w} => pc'[q] = pc[q] /\ pc[q] \notin Waking
    BY <1>6, <2>1 DEF IInv, Wakes
  <2>3. {a, b} = {p, w} /\ "got" \notin Waking
    BY <2>1 DEF Waking
  <2> QED
    BY <2>1, <2>2, <2>3
<1>9. Asserts'
  <2>1. torn => torn'
    BY <1>5
  <2>2. \A q \in Proc : /\ pc'[q] \in {"corrupt", "relock", "failed", "wakest"} => pc'[q] = pc[q]
                        /\ pc'[q] = "sleept" => pc[q] \in {"sleept", "wakest"}
    BY <1>2
  <2> QED
    BY <2>1, <2>2 DEF IInv, Asserts
<1> QED
  BY <1>3, <1>4, <1>7, <1>8, <1>9 DEF IInv

(* The new owner frees its entry, or finds that it is not the owner. *)
LEMMA GrantedInv ==
  ASSUME IInv, NEW p \in Proc, Granted(p), torn' = torn
  PROVE  IInv'
<1>1. pc[p] = "got" /\ mine[p] \in QLp
  BY DEF Granted, IInv, Waits, HasEntry
<1>2. CASE state[mine[p]] # "Done"
  <2>1. /\ torn /\ pc' = [pc EXCEPT ![p] = "failed"]
        /\ UNCHANGED <<locked, queue, rend, state, mine, peer>>
    BY <1>1, <1>2 DEF Granted, Goto, IInv, Waits
  <2>2. TypeOK' /\ Lists'
    BY <2>1 DEF IInv, TypeOK, PCs, Aborted, Lists
  <2>3. OneOwner'
    <3>1. Owners' = Owners /\ Given' = Given /\ pc'[p] \in Aborted
      BY <1>1, <2>1 DEF IInv, TypeOK, Owners, Given, Aborted
    <3> QED
      BY <2>1, <3>1 DEF IInv, OneOwner
  <2>4. Waits' /\ Wakes' /\ Asserts'
    BY <2>1 DEF IInv, TypeOK, Waits, Wakes, Asserts, HasEntry, Waiting, Waking
  <2> QED
    BY <2>2, <2>3, <2>4 DEF IInv
<1>3. CASE state[mine[p]] = "Done"
  <2>2. /\ state' = [state EXCEPT ![mine[p]] = "Free"]
        /\ mine' = [mine EXCEPT ![p] = None] /\ pc' = [pc EXCEPT ![p] = "cs"]
        /\ UNCHANGED <<locked, queue, rend, peer>>
    BY <1>3 DEF Granted, Goto
  <2>3. TypeOK'
    BY <1>1, <2>2 DEF IInv, TypeOK, PCs, States
  <2>4. Lists'
    BY <1>1, <1>3, <2>2 DEF IInv, TypeOK, Lists
  <2>5. OneOwner'
    <3>1. mine[p] \in Given
      BY <1>1, <1>3 DEF Given
    <3>2. Owners = {} /\ Given = {mine[p]} /\ locked
      BY <3>1, UserQLockAssumption DEF IInv, OneOwner, Owners, Given
    <3>3. Owners' = {p} /\ Given' = {}
      BY <1>1, <2>2, <3>2 DEF IInv, TypeOK, Owners, Given
    <3> QED
      BY <2>2, <3>2, <3>3 DEF OneOwner
  <2>6. Waits'
    <3>1. \A q \in Proc : pc'[q] \in HasEntry => q # p /\ pc'[q] = pc[q] /\ mine'[q] = mine[q]
      BY <2>2 DEF IInv, TypeOK, HasEntry, Waiting
    <3>2. \A q \in Proc : pc'[q] \in HasEntry => mine[q] # mine[p]
      BY <1>1, <3>1 DEF IInv, Waits, HasEntry
    <3>3. \A q \in Proc : pc'[q] \in HasEntry => mine[q] \in QLp /\ state'[mine[q]] = state[mine[q]]
      BY <2>2, <3>1, <3>2 DEF IInv, TypeOK, Waits
    <3>4. \A q \in Proc : pc'[q] \in {"wait", "waitt", "got"} => pc'[q] \in HasEntry
      BY DEF HasEntry, Waiting
    <3> QED
      BY <3>1, <3>3, <3>4 DEF IInv, Waits
  <2>7. Wakes' /\ Asserts'
    BY <1>1, <2>2 DEF IInv, TypeOK, Wakes, Asserts, Waking
  <2> QED
    BY <2>3, <2>4, <2>5, <2>6, <2>7 DEF IInv
<1> QED
  BY <1>2, <1>3

(* Timing out. *)
LEMMA TimeoutInv ==
  ASSUME IInv, NEW p \in Proc, QlocktTimeout(p) \/ RsleeptTimeout(p), torn' = torn
  PROVE  IInv'
<1> DEFINE e == mine[p]
<1>1. /\ pc[p] \in {"waitt", "sleept"} /\ e \in QLp
      /\ state[e] \in {"Sleeping", "Queuing", "Done"}
      /\ pc[p] = "sleept" => "rsleept" \in Ops
  BY DEF QlocktTimeout, RsleeptTimeout, IInv, Waits, HasEntry, Waiting, Asserts
<1>2. UNCHANGED <<locked, queue, rend, peer>>
  BY DEF QlocktTimeout, RsleeptTimeout, Timeout
<1>3. \/ /\ pc' = [pc EXCEPT ![p] = "failed"] /\ UNCHANGED <<state, mine>>
         /\ pc[p] = "sleept"
      \/ /\ state[e] \in {"Sleeping", "Queuing"} /\ state' = [state EXCEPT ![e] = "Timedout"]
         /\ mine' = [mine EXCEPT ![p] = None]
         /\ \/ pc' = [pc EXCEPT ![p] = "out"]
            \/ pc' = [pc EXCEPT ![p] = "relock"] /\ pc[p] = "sleept"
  BY <1>1 DEF QlocktTimeout, RsleeptTimeout, Timeout, Goto, IInv, Waits
<1>4. \A q \in Proc : q # p => pc'[q] = pc[q] /\ mine'[q] = mine[q]
  BY <1>3 DEF IInv, TypeOK
<1>5. /\ pc'[p] \in {"failed", "out", "relock"}
      /\ pc'[p] \in {"failed", "relock"} => "rsleept" \in Ops
  BY <1>1, <1>3 DEF IInv, TypeOK
<1>6. TypeOK'
  BY <1>1, <1>2, <1>3 DEF IInv, TypeOK, PCs, States, Aborted
<1>7. \A f \in QLp : \/ state'[f] = state[f]
                     \/ f = e /\ state'[f] = "Timedout" /\ state[f] \in {"Sleeping", "Queuing"}
  BY <1>3 DEF IInv, TypeOK
<1> HIDE DEF e
<1>8. Lists'
  <2>1. Entries(rend) \subseteq QLp /\ Entries(queue) \subseteq QLp
    BY DEF IInv, TypeOK, Entries
  <2> QED
    BY <1>2, <1>7, <2>1 DEF IInv, Lists
<1>9. OneOwner'
  <2>1. Owners' = Owners
    BY <1>1, <1>4, <1>5 DEF Owners
  <2>2. Given' = Given
    BY <1>7 DEF Given
  <2>3. \A q \in Proc : pc[q] \in Aborted => pc'[q] = pc[q]
    BY <1>1, <1>4 DEF Aborted
  <2> QED
    BY <1>2, <1>7, <2>1, <2>2, <2>3 DEF IInv, OneOwner
<1>10. Waits'
  <2>1. \A q \in Proc : pc'[q] \in HasEntry => q # p /\ pc'[q] = pc[q] /\ mine'[q] = mine[q]
    BY <1>4, <1>5 DEF HasEntry, Waiting
  <2>2. \A q \in Proc : pc'[q] \in HasEntry => mine[q] # e
    BY <1>1, <2>1 DEF IInv, Waits, HasEntry, Waiting, e
  <2>3. \A q \in Proc : pc'[q] \in HasEntry => mine[q] \in QLp /\ state'[mine[q]] = state[mine[q]]
    BY <1>7, <2>1, <2>2 DEF IInv, Waits
  <2>4. \A q \in Proc : pc'[q] \in {"wait", "waitt", "got"} => pc'[q] \in HasEntry
    BY DEF HasEntry, Waiting
  <2> QED
    BY <2>1, <2>3, <2>4 DEF IInv, Waits
<1>11. Wakes'
  <2>1. \A q \in Proc : pc'[q] \in Waking => pc[q] \in Waking /\ peer'[q] = peer[q]
    BY <1>2, <1>4, <1>5 DEF Waking
  <2>2. \A q \in Proc : pc'[q] = "got" => pc[q] = "got"
    BY <1>4, <1>5
  <2> QED
    BY <1>7, <2>1, <2>2 DEF IInv, Wakes
<1>12. Asserts'
  BY <1>4, <1>5 DEF IInv, Asserts
<1> QED
  BY <1>6, <1>8, <1>9, <1>10, <1>11, <1>12 DEF IInv

(* Nothing is queued, nobody waits, at the start. *)
LEMMA InitInv == Init => IInv
<1> SUFFICES ASSUME Init PROVE IInv
  OBVIOUS
<1>1. TypeOK
  <2>1. queue \in Seq(QLp) /\ rend \in Seq(QLp)
    BY DEF Init
  <2>2. state \in [QLp -> States] /\ pc \in [Proc -> PCs]
    BY DEF Init, PCs, States
  <2> QED
    BY <2>1, <2>2 DEF Init, TypeOK
<1>2. OneOwner
  <2>1. Owners = {} /\ Given = {}
    BY DEF Init, Owners, Given
  <2> QED
    BY <2>1 DEF Init, OneOwner
<1>3. Lists
  BY DEF Init, Lists, Entries, Distinct
<1>4. Waits /\ Wakes /\ Asserts
  BY DEF Init, Waits, Wakes, Asserts, HasEntry, Waiting, Waking
<1> QED
  BY <1>1, <1>2, <1>3, <1>4 DEF IInv

(* Every step keeps the invariant. *)
LEMMA NextInv == IInv /\ [Next]_vars => IInv'
<1> SUFFICES ASSUME IInv, [Next]_vars PROVE IInv'
  OBVIOUS
<1>1. CASE UNCHANGED vars
  <2>1. TypeOK' /\ OneOwner' /\ Lists'
    BY <1>1 DEF vars, IInv, TypeOK, OneOwner, Owners, Given, Lists
  <2>2. Waits' /\ Wakes' /\ Asserts'
    BY <1>1 DEF vars, IInv, Waits, Wakes, Asserts
  <2> QED
    BY <2>1, <2>2 DEF IInv
<1>2. ASSUME NEW p \in Proc, Call(p) PROVE IInv'
  <2>0. torn' = torn
    BY <1>2 DEF Call
  <2>1. CASE Qlock(p) \/ Qlockt(p)
    <3>1. /\ pc[p] \in {"out", "relock"}
          /\ Take(p) \/ Enqueue(p, "wait") \/ Enqueue(p, "waitt")
      BY <2>1 DEF Qlock, Qlockt, Entering
    <3> QED
      BY <2>0, <3>1, TakeInv, EnqueueInv
  <2>2. CASE Qunlock(p)
    BY <2>0, <2>2, QunlockInv
  <2>3. CASE Rsleep(p) \/ Rsleept(p)
    BY <2>0, <2>3, SleepOnInv DEF Rsleep, Rsleept
  <2>4. CASE Rwakeup(p) \/ Rwakeupall(p)
    BY <2>0, <2>4, WakeInv DEF Rwakeup, Rwakeupall, Entering
  <2> QED
    BY <1>2, <2>1, <2>2, <2>3, <2>4 DEF Call
<1>3. ASSUME NEW p \in Proc, Return(p) PROVE IInv'
  BY <1>3, RendezvousInv, GrantedInv, TimeoutInv DEF Return
<1> QED
  BY <1>1, <1>2, <1>3 DEF Next

(* The invariant holds of every behaviour. *)
THEOREM Invariance == Spec => []IInv
  BY InitInv, NextInv, PTL DEF Spec

(* The lock of qlock, qunlock, rsleep, rwakeup and their timed variants is *)
(* never owned twice and never lost, whoever times out.                    *)
THEOREM QLockOneOwner == Spec => []OneOwner
<1>1. IInv => OneOwner
  BY DEF IInv
<1> QED
  BY <1>1, Invariance, PTL

(* Which steps can end in a failed assertion. *)
LEMMA Fails ==
  ASSUME IInv, IInv', Next, NEW q \in Proc,
         pc'[q] \in {"corrupt", "failed"}, pc'[q] # pc[q]
  PROVE  pc[q] = "sleept" \/ (torn /\ pc[q] = "got")
<1>1. pc'[q] = "failed" /\ pc \in [Proc -> PCs]
  BY DEF IInv, Asserts, TypeOK
<1>2. ASSUME NEW p \in Proc, NEW to, to # "failed", Goto(p, to) PROVE FALSE
  BY <1>1, <1>2 DEF Goto
<1>3. ASSUME NEW p \in Proc PROVE ~Call(p)
  <2>1. ~Take(p) /\ ~GetqlpAborts(p)
    BY <1>2 DEF Take, GetqlpAborts
  <2>2. ~Enqueue(p, "wait") /\ ~Enqueue(p, "waitt")
    BY <1>2, <2>1 DEF Enqueue
  <2>3. ASSUME NEW st, NEW busy, NEW idle, busy # "failed", idle # "failed"
        PROVE  ~HandOff(p, st, busy, idle)
    BY <1>2, <2>3 DEF HandOff
  <2>4. ~SleepOn(p, "wakes", "sleep") /\ ~SleepOn(p, "wakest", "sleept")
    BY <2>1, <2>3 DEF SleepOn
  <2>5. ~Wake(p, "cs", "cs") /\ ~Wake(p, "all", "cs")
    BY <1>2 DEF Wake
  <2> QED
    BY <2>1, <2>2, <2>3, <2>4, <2>5
    DEF Call, Qlock, Qlockt, Qunlock, Rsleep, Rsleept, Rwakeup, Rwakeupall
<1>4. PICK p \in Proc : Return(p)
  BY <1>3 DEF Next
<1>5. ASSUME NEW w \in Proc PROVE ~Rendezvous(p, w)
  BY <1>1, RendezvousMoves DEF IInv, Waiting
<1>6. ASSUME Granted(p) PROVE torn /\ pc[q] = "got"
  <2>1. pc[p] = "got" /\ (state[mine[p]] # "Done" => torn)
    BY <1>6 DEF Granted, IInv, Waits
  <2>2. state[mine[p]] # "Done" /\ Goto(p, "failed")
    BY <1>2, <1>6 DEF Granted
  <2>3. p = q
    BY <1>1, <2>2 DEF Goto
  <2> QED
    BY <2>1, <2>2, <2>3
<1>7. ~QlocktTimeout(p)
  <2> SUFFICES ASSUME QlocktTimeout(p) PROVE FALSE
    OBVIOUS
  <2>1. state[mine[p]] \in {"Queuing", "Done"}
    BY DEF QlocktTimeout, IInv, Waits, HasEntry, Waiting
  <2> QED
    BY <1>2, <2>1 DEF QlocktTimeout, Timeout
<1>8. ASSUME RsleeptTimeout(p) PROVE pc[q] = "sleept"
  <2>1. p = q
    BY <1>1, <1>8 DEF RsleeptTimeout, Timeout, Goto
  <2> QED
    BY <1>8, <2>1 DEF RsleeptTimeout
<1> QED
  BY <1>4, <1>5, <1>6, <1>7, <1>8 DEF Return

(* Of the aborts and assertions on the state of an entry in the functions  *)
(* of QLock and Rendez only the one of rsleept (qlock.c:755) can fail, and *)
(* once a rendezvous was interrupted on one side those of a process back   *)
(* from its own: the lists are never corrupt, and a qlockt whose time is   *)
(* over finds its entry Queuing or Done.                                   *)
THEOREM QLockOnlyRsleeptFails == Spec => OnlyRsleeptFails
<1>1. IInv /\ IInv' /\ [Next]_vars =>
        [\A p \in Proc : pc'[p] \in {"corrupt", "failed"} /\ pc'[p] # pc[p]
                            => pc[p] = "sleept" \/ (torn /\ pc[p] = "got")]_vars
  BY Fails
<1> QED
  BY <1>1, Invariance, PTL DEF Spec, OnlyRsleeptFails

(* A program that calls neither rsleept nor canqlock aborts in qlock.c only *)
(* when the pool of entries is empty or a rendezvous was interrupted on    *)
(* one side; no list ever holds an entry in a wrong state.                 *)
THEOREM QLockAborts ==
  ASSUME "rsleept" \notin Ops
  PROVE  Spec => [](\A p \in Proc : pc[p] \in Aborted =>
                     pc[p] = "full" \/ (pc[p] = "failed" /\ torn))
<1>1. IInv => \A p \in Proc : pc[p] \in Aborted => pc[p] = "full" \/ (pc[p] = "failed" /\ torn)
  BY DEF IInv, Asserts, Aborted
<1> QED
  BY <1>1, Invariance, PTL

(* Lists of qlock.c hold entries of the pool and entries documented states. *)
THEOREM QLockTypeOK == Spec => []TypeOK
<1>1. IInv => TypeOK
  BY DEF IInv
<1> QED
  BY <1>1, Invariance, PTL
-----------------------------------------------------------------------------
(* One step of an entry: it stays as it is, or takes a transition. *)
Follows(e) == state'[e] = state[e] \/ <<state[e], state'[e]>> \in Transitions

(* The walk of qunlock, rsleep and rsleept frees what timed out and grants *)
(* what is queued.                                                         *)
LEMMA PassedFollows ==
  ASSUME NEW p \in Proc, NEW st, NEW busy, NEW idle, Passed(p, st, busy, idle), NEW e \in QLp
  PROVE  \/ state'[e] = st[e]
         \/ st[e] = "Timedout" /\ state'[e] = "Free"
         \/ st[e] = "Queuing" /\ state'[e] = "Done"
BY DEF Passed

(* So do the functions that are called. *)
LEMMA CallFollows ==
  ASSUME IInv, NEW p \in Proc, Call(p), NEW e \in QLp
  PROVE  Follows(e)
<1> USE DEF Follows, Transitions
<1>1. CASE state' = state
  BY <1>1
<1>2. ASSUME NEW f \in FreeEntries, state' = [state EXCEPT ![f] = "Queuing"] PROVE Follows(e)
  BY <1>2 DEF FreeEntries, IInv, TypeOK
<1>3. CASE Take(p) \/ GetqlpAborts(p) \/ Enqueue(p, "wait") \/ Enqueue(p, "waitt")
  BY <1>1, <1>2, <1>3 DEF Take, GetqlpAborts, Enqueue
<1>4. CASE Qunlock(p)
  <2>1. Passed(p, state, "wake", "out")
    BY <1>4, HandOffPasses DEF Qunlock, IInv, TypeOK
  <2> QED
    BY <2>1, PassedFollows
<1>5. ASSUME NEW busy, NEW idle, SleepOn(p, busy, idle) PROVE Follows(e)
  <2>1. CASE GetqlpAborts(p)
    BY <1>1, <2>1 DEF GetqlpAborts
  <2>2. ASSUME NEW f \in FreeEntries,
               HandOff(p, [state EXCEPT ![f] = "Sleeping"], busy, idle)
        PROVE  Follows(e)
    <3> DEFINE st == [state EXCEPT ![f] = "Sleeping"]
    <3>1. Passed(p, st, busy, idle)
      BY <2>2, SleepOnPasses
    <3>2. /\ f \in QLp /\ state[f] = "Free" /\ st[f] = "Sleeping"
          /\ e # f => st[e] = state[e]
      BY DEF FreeEntries, IInv, TypeOK
    <3> HIDE DEF st
    <3>3. \/ state'[e] = st[e]
          \/ st[e] = "Timedout" /\ state'[e] = "Free"
          \/ st[e] = "Queuing" /\ state'[e] = "Done"
      BY <3>1, PassedFollows
    <3> QED
      BY <3>2, <3>3
  <2> QED
    BY <1>5, <2>1, <2>2 DEF SleepOn
<1>6. ASSUME NEW some, NEW none, Wake(p, some, none) PROVE Follows(e)
  <2>1. Woken(p, some, none)
    BY <1>6, WakeWakes DEF IInv
  <2> QED
    BY <2>1 DEF Woken
<1> QED
  BY <1>3, <1>4, <1>5, <1>6
  DEF Call, Qlock, Qlockt, Rsleep, Rsleept, Rwakeup, Rwakeupall

(* And the ends of a rendezvous. *)
LEMMA ReturnFollows ==
  ASSUME IInv, NEW p \in Proc, Return(p), NEW e \in QLp
  PROVE  Follows(e)
<1> USE DEF Follows, Transitions
<1>1. CASE \E w \in Proc : Rendezvous(p, w)
  BY <1>1 DEF Rendezvous
<1>2. CASE Granted(p)
  <2>1. \/ state' = state
        \/ state[mine[p]] = "Done" /\ state' = [state EXCEPT ![mine[p]] = "Free"]
    BY <1>2 DEF Granted
  <2> QED
    BY <2>1 DEF IInv, TypeOK
<1>3. ASSUME NEW s \in {"Queuing", "Sleeping"}, NEW to, Timeout(p, s, to) PROVE Follows(e)
  <2>1. \/ state' = state
        \/ state[mine[p]] = s /\ state' = [state EXCEPT ![mine[p]] = "Timedout"]
    BY <1>3 DEF Timeout
  <2> QED
    BY <2>1 DEF IInv, TypeOK
<1> QED
  BY <1>1, <1>2, <1>3 DEF Return, QlocktTimeout, RsleeptTimeout

(* The entries of QLock and Rendez change state as the comment at the head *)
(* of qlock.c (29-35) draws it, whoever times out while another walks the  *)
(* list.                                                                   *)
THEOREM QLockDocumentedTransitions == Spec => DocumentedTransitions
<1>1. IInv /\ [Next]_vars =>
        [\A e \in QLp : state'[e] = state[e] \/ <<state[e], state'[e]>> \in Transitions]_vars
  BY CallFollows, ReturnFollows DEF Next, Follows
<1> QED
  BY <1>1, Invariance, PTL DEF Spec, DocumentedTransitions
-----------------------------------------------------------------------------
(* The refinement: the owner of the QLock is the holder of Mutex. *)
Holder == IF \E p \in Proc : pc[p] \in {"cs", "all"}
          THEN CHOOSE p \in Proc : pc[p] \in {"cs", "all"} ELSE None

(* There is at most one owner, so the holder is it. *)
LEMMA HolderUnique ==
  ASSUME IInv
  PROVE  /\ Owners = {} => Holder = None
         /\ \A p \in Proc : pc[p] \in {"cs", "all"} => Owners = {p} /\ Holder = p
<1>1. Owners = {} => Holder = None
  BY DEF Owners, Holder
<1>2. ASSUME NEW p \in Proc, pc[p] \in {"cs", "all"} PROVE Owners = {p} /\ Holder = p
  <2>1. \A q \in Proc : pc[q] \in {"cs", "all"} => q = p
    BY <1>2 DEF IInv, OneOwner, Owners
  <2>2. (CHOOSE q \in Proc : pc[q] \in {"cs", "all"}) = p
    BY <1>2, <2>1
  <2> QED
    BY <1>2, <2>1, <2>2 DEF Owners, Holder
<1> QED
  BY <1>1, <1>2

(* A step after which the same process owns the lock leaves the holder. *)
LEMMA HolderStays ==
  ASSUME IInv, \A p \in Proc : pc'[p] \in {"cs", "all"} <=> pc[p] \in {"cs", "all"}
  PROVE  Holder' = Holder
<1>1. CASE Owners = {}
  BY <1>1, HolderUnique DEF Owners, Holder
<1>2. CASE Owners # {}
  <2>1. PICK p \in Proc : pc[p] \in {"cs", "all"} /\ pc'[p] \in {"cs", "all"}
    BY <1>2 DEF Owners
  <2>2. Holder = p
    BY <2>1, HolderUnique
  <2>3. \A q \in Proc : pc'[q] \in {"cs", "all"} => q = p
    BY <2>1, HolderUnique DEF Owners
  <2>4. (CHOOSE q \in Proc : pc'[q] \in {"cs", "all"}) = p
    BY <2>1, <2>3
  <2> QED
    BY <2>1, <2>2, <2>4 DEF Holder
<1> QED
  BY <1>1, <1>2

(* The lock is taken or granted when nobody owns it. *)
LEMMA HolderEnters ==
  ASSUME IInv, NEW p \in Proc, pc' = [pc EXCEPT ![p] = "cs"], Owners = {}
  PROVE  Holder = None /\ Holder' = p
<1>1. \A q \in Proc : pc'[q] \in {"cs", "all"} <=> q = p
  BY DEF IInv, TypeOK, Owners
<1>2. (CHOOSE q \in Proc : pc'[q] \in {"cs", "all"}) = p
  BY <1>1
<1> QED
  BY <1>1, <1>2, HolderUnique DEF Holder

(* The owner gives it up. *)
LEMMA HolderLeaves ==
  ASSUME IInv, NEW p \in Proc, pc[p] \in {"cs", "all"},
         NEW to, to \notin {"cs", "all"}, pc' = [pc EXCEPT ![p] = to]
  PROVE  Holder = p /\ Holder' = None
<1>1. \A q \in Proc : pc'[q] \notin {"cs", "all"}
  BY HolderUnique DEF IInv, TypeOK, Owners
<1> QED
  BY <1>1, HolderUnique DEF Holder

(* Whoever does not own the lock and goes on without it changes nothing.   *)
LEMMA HolderOutside ==
  ASSUME IInv, NEW p \in Proc, pc[p] \notin {"cs", "all"},
         NEW to, to \notin {"cs", "all"}, pc' = [pc EXCEPT ![p] = to]
  PROVE  Holder' = Holder
BY HolderStays DEF IInv, TypeOK

(* What a step of p may do to the holder. *)
Acts(p) == \/ Holder' = Holder
           \/ Holder = None /\ Holder' = p
           \/ Holder = p /\ Holder' = None

(* The functions that are called act as Mutex does. *)
LEMMA CallActs ==
  ASSUME IInv, NEW p \in Proc, Call(p)
  PROVE  Acts(p)
<1>1. CASE Qlock(p) \/ Qlockt(p)
  <2>1. /\ pc[p] \in {"out", "relock"}
        /\ Take(p) \/ Enqueue(p, "wait") \/ Enqueue(p, "waitt")
    BY <1>1 DEF Qlock, Qlockt, Entering
  <2>2. CASE Take(p)
    BY <2>2, HolderEnters DEF Take, Goto, Acts, IInv, OneOwner
  <2>3. ASSUME NEW w \in {"wait", "waitt"}, Enqueue(p, w) PROVE Acts(p)
    <3>1. PICK to \in {"wait", "waitt", "full"} : pc' = [pc EXCEPT ![p] = to]
      BY <2>3 DEF Enqueue, GetqlpAborts, Goto
    <3> QED
      BY <2>1, <3>1, HolderOutside DEF Acts
  <2> QED
    BY <2>1, <2>2, <2>3
<1>2. CASE Qunlock(p) \/ Rsleep(p) \/ Rsleept(p)
  <2>1. pc[p] = "cs"
    BY <1>2 DEF Qunlock, Rsleep, Rsleept, SleepOn, Entering
  <2>2. ASSUME NEW st, NEW busy, NEW idle, HandOff(p, st, busy, idle)
        PROVE  \E to \in {busy, idle, "corrupt"} : pc' = [pc EXCEPT ![p] = to]
    BY <2>2 DEF HandOff, Goto
  <2>3. PICK to \in {"wake", "out", "wakes", "sleep", "wakest", "sleept", "corrupt", "full"} :
          pc' = [pc EXCEPT ![p] = to]
    <3>1. ASSUME NEW busy, NEW idle, SleepOn(p, busy, idle)
          PROVE  \E to \in {busy, idle, "corrupt", "full"} : pc' = [pc EXCEPT ![p] = to]
      <4>1. CASE GetqlpAborts(p)
        BY <4>1 DEF GetqlpAborts, Goto
      <4>2. CASE \E st : HandOff(p, st, busy, idle)
        BY <2>2, <4>2
      <4> QED
        BY <3>1, <4>1, <4>2 DEF SleepOn
    <3>2. CASE Qunlock(p)
      BY <2>2, <3>2 DEF Qunlock
    <3>3. CASE Rsleep(p)
      BY <3>1, <3>3 DEF Rsleep
    <3>4. CASE Rsleept(p)
      BY <3>1, <3>4 DEF Rsleept
    <3> QED
      BY <1>2, <3>2, <3>3, <3>4
  <2> QED
    BY <2>1, <2>3, HolderLeaves DEF Acts
<1>3. CASE Rwakeup(p) \/ Rwakeupall(p)
  <2>1. pc[p] \in {"cs", "all"} /\ (Wake(p, "cs", "cs") \/ Wake(p, "all", "cs"))
    BY <1>3 DEF Rwakeup, Rwakeupall, Entering
  <2>2. PICK to \in {"cs", "all", "corrupt"} : pc' = [pc EXCEPT ![p] = to]
    BY <2>1 DEF Wake, Goto
  <2>3. CASE to \in {"cs", "all"}
    BY <2>1, <2>2, <2>3, HolderStays DEF IInv, TypeOK, Acts
  <2>4. CASE to = "corrupt"
    BY <2>1, <2>2, <2>4, HolderLeaves DEF Acts
  <2> QED
    BY <2>3, <2>4
<1> QED
  BY <1>1, <1>2, <1>3 DEF Call

(* So do the ends of a rendezvous: the entry was Done, hence the lock was  *)
(* with nobody else.                                                       *)
LEMMA ReturnActs ==
  ASSUME IInv, NEW p \in Proc, Return(p)
  PROVE  Acts(p)
<1>1. CASE \E w \in Proc : Rendezvous(p, w)
  <2>1. PICK w \in Proc : Rendezvous(p, w)
    BY <1>1
  <2>2. \A q \in Proc : pc'[q] \in {"cs", "all"} <=> pc[q] \in {"cs", "all"}
    BY <2>1, RendezvousMoves DEF IInv, Waiting
  <2> QED
    BY <2>2, HolderStays DEF Acts
<1>2. CASE Granted(p)
  <2>1. pc[p] = "got" /\ mine[p] \in QLp
    BY <1>2 DEF Granted, IInv, Waits, HasEntry
  <2>2. CASE pc' = [pc EXCEPT ![p] = "failed"]
    BY <2>1, <2>2, HolderOutside DEF Acts
  <2>3. CASE state[mine[p]] = "Done" /\ pc' = [pc EXCEPT ![p] = "cs"]
    <3>1. mine[p] \in Given
      BY <2>1, <2>3 DEF Given
    <3>2. Owners = {}
      BY <2>1, <3>1, UserQLockAssumption DEF IInv, OneOwner, Owners
    <3> QED
      BY <2>3, <3>2, HolderEnters DEF Acts
  <2> QED
    BY <1>2, <2>2, <2>3 DEF Granted, Goto
<1>3. CASE QlocktTimeout(p) \/ RsleeptTimeout(p)
  <2>1. /\ pc[p] \in {"waitt", "sleept"}
        /\ \E to \in {"out", "relock", "failed"} : pc' = [pc EXCEPT ![p] = to]
    BY <1>3 DEF QlocktTimeout, RsleeptTimeout, Timeout, Goto
  <2> QED
    BY <2>1, HolderOutside DEF Acts
<1> QED
  BY <1>1, <1>2, <1>3 DEF Return

(* The QLock of the C library implements Mutex: it is taken, or granted    *)
(* after a hand-over, only when nobody owns it, and only its owner gives   *)
(* it up, by qunlock, rsleep or an abort.                                  *)
THEOREM QLockImplementsMutex == Spec => ImplementsMutex
<1>1. Init => Abstract!Init
  BY DEF Init, Abstract!Init
<1>2. IInv /\ [Next]_vars => [Abstract!Next]_Holder
  <2> SUFFICES ASSUME IInv, [Next]_vars PROVE Abstract!Next \/ Holder' = Holder
    OBVIOUS
  <2>1. CASE UNCHANGED vars
    BY <2>1, HolderStays DEF vars
  <2>2. CASE Next
    <3>1. PICK p \in Proc : Acts(p)
      BY <2>2, CallActs, ReturnActs DEF Next
    <3> QED
      BY <3>1 DEF Acts, Abstract!Next, Abstract!Acquire, Abstract!Release, Holder
  <2> QED
    BY <2>1, <2>2
<1> QED
  BY <1>1, <1>2, Invariance, PTL DEF Spec, ImplementsMutex, Abstract!Spec, Holder
-----------------------------------------------------------------------------
(* Nobody is forgotten until a process aborts or a rendezvous is torn.     *)
(* Every entry that is not free or timed out is the entry of a process; a  *)
(* waiter whose entry is Done has a process in the other end of its        *)
(* rendezvous; and no process waits for itself.                            *)
Held == {"Sleeping", "Queuing", "Done"}
Owned == \A e \in QLp : state[e] \in Held => \E p \in Proc : pc[p] \in HasEntry /\ mine[p] = e
Met == \A w \in Proc : pc[w] \in Waiting /\ state[mine[w]] = "Done" =>
                         \E p \in Proc : pc[p] \in Waking /\ peer[p] = mine[w]
NotSelf == \A p \in Proc : pc[p] \in {"wakes", "wakest"} => mine[p] # peer[p]
Handed == ~torn /\ (\A p \in Proc : pc[p] \notin Aborted) => Owned /\ Met /\ NotSelf

(* While somebody waits in qlock or qlockt, no process aborted and no      *)
(* rendezvous was torn, some process can bring it the lock: one that owns  *)
(* it, one that comes back with it from its rendezvous, or one that hands  *)
(* it over to a process that is in the same rendezvous.                    *)
NeverAllAsleep ==
  (\E p \in Proc : pc[p] \in {"wait", "waitt"}) /\ (\A p \in Proc : pc[p] \notin Aborted)
    /\ ~torn =>
    \E p \in Proc : \/ pc[p] \in {"cs", "all", "got"}
                    \/ /\ pc[p] \in Waking
                       /\ \E w \in Proc : pc[w] \in Waiting /\ mine[w] = peer[p]

(* What p does to the entries: none that is held loses its process. *)
Keeps(p) ==
  /\ \A q \in Proc : q # p => pc'[q] = pc[q] /\ mine'[q] = mine[q] /\ peer'[q] = peer[q]
  /\ pc[p] \notin Aborted /\ torn' = torn
  /\ \A e \in QLp : state'[e] \in Held =>
       \/ state[e] \in Held /\ ~(pc[p] \in HasEntry /\ mine[p] = e)
       \/ pc'[p] \in HasEntry /\ mine'[p] = e

(* An entry that is held keeps its process. *)
LEMMA OwnedStays ==
  ASSUME Handed, NEW p \in Proc, Keeps(p), ~torn', \A q \in Proc : pc'[q] \notin Aborted
  PROVE  Owned /\ Met /\ NotSelf /\ Owned'
<1>1. Owned /\ Met /\ NotSelf
  BY DEF Handed, Keeps
<1>2. ASSUME NEW e \in QLp, state'[e] \in Held
      PROVE  \E q \in Proc : pc'[q] \in HasEntry /\ mine'[q] = e
  <2>1. CASE pc'[p] \in HasEntry /\ mine'[p] = e
    BY <2>1
  <2>2. CASE state[e] \in Held /\ ~(pc[p] \in HasEntry /\ mine[p] = e)
    <3>1. PICK q \in Proc : pc[q] \in HasEntry /\ mine[q] = e
      BY <1>1, <2>2 DEF Owned
    <3> QED
      BY <2>2, <3>1 DEF Keeps
  <2> QED
    BY <1>2, <2>1, <2>2 DEF Keeps
<1> QED
  BY <1>1, <1>2 DEF Owned

(* A step that hands nothing over. *)
LEMMA HandedStays ==
  ASSUME IInv, Handed, NEW p \in Proc, Keeps(p),
         pc[p] \notin Waking, pc'[p] \notin Waking,
         pc'[p] \in Waiting => state'[mine'[p]] # "Done",
         \A e \in QLp : state'[e] = "Done" => state[e] = "Done"
  PROVE  Handed'
<1> SUFFICES ASSUME ~torn', \A q \in Proc : pc'[q] \notin Aborted PROVE Owned' /\ Met' /\ NotSelf'
  BY DEF Handed
<1>1. Owned /\ Met /\ NotSelf /\ Owned'
  BY OwnedStays
<1>2. ASSUME NEW w \in Proc, pc'[w] \in Waiting, state'[mine'[w]] = "Done"
      PROVE  \E q \in Proc : pc'[q] \in Waking /\ peer'[q] = mine'[w]
  <2>1. w # p /\ pc[w] \in Waiting /\ mine'[w] = mine[w]
    BY <1>2 DEF Keeps
  <2>2. mine[w] \in QLp
    BY <2>1 DEF IInv, Waits, HasEntry
  <2>3. PICK q \in Proc : pc[q] \in Waking /\ peer[q] = mine[w]
    BY <1>1, <1>2, <2>1, <2>2 DEF Met
  <2> QED
    BY <2>1, <2>3 DEF Keeps
<1>3. NotSelf'
  BY <1>1 DEF NotSelf, Keeps, Waking
<1> QED
  BY <1>1, <1>2, <1>3 DEF Met

(* The owner p makes the entry x Done and meets its process. *)
LEMMA HandedOver ==
  ASSUME IInv, Handed, NEW p \in Proc, Keeps(p), NEW x \in QLp,
         pc[p] = "cs", pc'[p] \in Waking, peer'[p] = x,
         pc'[p] \in {"wakes", "wakest"} => mine'[p] # x,
         \A e \in QLp : state'[e] = "Done" => e = x
  PROVE  Handed'
<1> SUFFICES ASSUME ~torn', \A q \in Proc : pc'[q] \notin Aborted PROVE Owned' /\ Met' /\ NotSelf'
  BY DEF Handed
<1>1. Owned'
  BY OwnedStays
<1>2. ASSUME NEW w \in Proc, pc'[w] \in Waiting, state'[mine'[w]] = "Done"
      PROVE  \E q \in Proc : pc'[q] \in Waking /\ peer'[q] = mine'[w]
  <2>1. w # p
    BY <1>2 DEF Waiting, Waking
  <2>2. pc[w] \in Waiting /\ mine'[w] = mine[w]
    BY <1>2, <2>1 DEF Keeps
  <2>3. mine[w] \in QLp
    BY <2>2 DEF IInv, Waits, HasEntry
  <2> QED
    BY <1>2, <2>2, <2>3
<1>3. NotSelf'
  <2>1. \A q \in Proc : q # p => pc'[q] \notin Waking
    BY OwnerAlone DEF Keeps
  <2> QED
    BY <2>1 DEF NotSelf, Waking
<1> QED
  BY <1>1, <1>2, <1>3 DEF Met

(* Somebody aborts. *)
LEMMA HandedAborts ==
  ASSUME NEW p \in Proc, pc'[p] \in Aborted
  PROVE  Handed'
BY DEF Handed

(* Taking the lock, or queueing for it. *)
LEMMA LockHanded ==
  ASSUME IInv, Handed, NEW p \in Proc, pc[p] \in {"out", "relock"},
         Take(p) \/ Enqueue(p, "wait") \/ Enqueue(p, "waitt"), torn' = torn
  PROVE  Handed'
<1> USE DEF HasEntry, Waiting, Waking, Aborted
<1>0. /\ pc \in [Proc -> PCs] /\ mine \in [Proc -> QLp \cup {None}] /\ state \in [QLp -> States]
  BY DEF IInv, TypeOK
<1>1. CASE Take(p)
  <2>1. /\ pc' = [pc EXCEPT ![p] = "cs"] /\ UNCHANGED <<state, mine, peer>>
    BY <1>1 DEF Take, Goto
  <2>2. pc'[p] = "cs" /\ \A q \in Proc : q # p => pc'[q] = pc[q]
    BY <1>0, <2>1
  <2>3. Keeps(p)
    BY <2>1, <2>2 DEF Keeps
  <2> QED
    BY <2>1, <2>2, <2>3, HandedStays
<1>2. CASE GetqlpAborts(p)
  BY <1>0, <1>2, HandedAborts DEF GetqlpAborts, Goto
<1>3. ASSUME NEW e \in FreeEntries, NEW to \in {"wait", "waitt"},
             state' = [state EXCEPT ![e] = "Queuing"],
             mine' = [mine EXCEPT ![p] = e], pc' = [pc EXCEPT ![p] = to], peer' = peer
      PROVE  Handed'
  <2>1. e \in QLp
    BY DEF FreeEntries
  <2>2. /\ pc'[p] = to /\ mine'[p] = e /\ state'[e] = "Queuing"
        /\ \A q \in Proc : q # p => pc'[q] = pc[q] /\ mine'[q] = mine[q]
        /\ \A f \in QLp : f # e => state'[f] = state[f]
    BY <1>0, <1>3, <2>1
  <2>3. Keeps(p)
    BY <1>3, <2>2 DEF Keeps
  <2> QED
    BY <2>2, <2>3, HandedStays
<1>4. ASSUME NEW to \in {"wait", "waitt"}, Enqueue(p, to) PROVE Handed'
  BY <1>2, <1>3, <1>4 DEF Enqueue, Goto
<1> QED
  BY <1>1, <1>4

(* The owner gives the lock up: st is what it made of the entries before   *)
(* the walk of the queue, e its own entry if it goes to sleep.             *)
LEMMA PassedHanded ==
  ASSUME IInv, Handed, NEW p \in Proc, pc[p] = "cs",
         NEW st, NEW busy, NEW idle, Passed(p, st, busy, idle), torn' = torn,
         \/ /\ st = state /\ mine' = mine /\ busy = "wake" /\ idle = "out"
         \/ /\ busy \in {"wakes", "wakest"} /\ idle \in {"sleep", "sleept"}
            /\ \E e \in FreeEntries : st = [state EXCEPT ![e] = "Sleeping"]
                                      /\ mine' = [mine EXCEPT ![p] = e]
  PROVE  Handed'
<1> USE DEF HasEntry, Waiting, Waking, Aborted
<1>0. /\ pc \in [Proc -> PCs] /\ mine \in [Proc -> QLp \cup {None}] /\ state \in [QLp -> States]
      /\ peer \in [Proc -> QLp \cup {None}]
  BY DEF IInv, TypeOK
<1>1. \A e \in QLp : state[e] # "Done"
  BY OwnerAlone DEF Given
<1>2. /\ \A q \in Proc : q # p => mine'[q] = mine[q]
      /\ \A e \in QLp : st[e] # "Done"
      /\ \A e \in QLp : st[e] = state[e] \/ (busy # "wake" /\ st[e] = "Sleeping" /\ mine'[p] = e)
      /\ busy # "wake" => mine'[p] \in QLp /\ st[mine'[p]] = "Sleeping"
  BY <1>0, <1>1 DEF FreeEntries
<1>3. CASE pc' = [pc EXCEPT ![p] = idle] /\ peer' = peer
           /\ \A e \in QLp : state'[e] = st[e] \/ (state'[e] = "Free" /\ st[e] = "Timedout")
  <2>1. pc'[p] = idle /\ \A q \in Proc : q # p => pc'[q] = pc[q] /\ peer'[q] = peer[q]
    BY <1>0, <1>3
  <2>2. \A e \in QLp : state'[e] \in Held => state'[e] = st[e]
    BY <1>3 DEF Held
  <2>3. Keeps(p)
    BY <1>2, <2>1, <2>2 DEF Keeps
  <2>4. \A e \in QLp : state'[e] # "Done"
    BY <1>2, <1>3
  <2> QED
    BY <1>2, <2>1, <2>3, <2>4, HandedStays
<1>4. ASSUME NEW x \in QLp, pc' = [pc EXCEPT ![p] = busy], peer' = [peer EXCEPT ![p] = x],
             st[x] = "Queuing", state'[x] = "Done",
             \A e \in QLp \ {x} : state'[e] = st[e] \/ (state'[e] = "Free" /\ st[e] = "Timedout")
      PROVE  Handed'
  <2>1. /\ pc'[p] = busy /\ peer'[p] = x
        /\ \A q \in Proc : q # p => pc'[q] = pc[q] /\ peer'[q] = peer[q]
    BY <1>0, <1>4
  <2>2. \A e \in QLp : state'[e] \in Held => st[e] \in Held
    BY <1>4 DEF Held
  <2>3. Keeps(p)
    BY <1>2, <2>1, <2>2 DEF Keeps
  <2>4. \A e \in QLp : state'[e] = "Done" => e = x
    BY <1>2, <1>4
  <2>5. busy # "wake" => mine'[p] # x
    BY <1>2, <1>4
  <2> QED
    BY <2>1, <2>3, <2>4, <2>5, HandedOver
<1> QED
  BY <1>3, <1>4 DEF Passed

(* The owner wakes a sleeper. *)
LEMMA WakeHanded ==
  ASSUME IInv, Handed, NEW p \in Proc, pc[p] \in {"cs", "all"},
         NEW some \in {"cs", "all"}, Wake(p, some, "cs"), torn' = torn
  PROVE  Handed'
<1> USE DEF HasEntry, Waiting, Waking, Aborted
<1>0. pc \in [Proc -> PCs] /\ rend \in Seq(QLp)
  BY DEF IInv, TypeOK
<1>1. Woken(p, some, "cs")
  BY WakeWakes DEF IInv
<1>2. mine' = mine /\ peer' = peer
  BY <1>1 DEF Woken
<1>3. pc'[p] \in {"cs", "all"} /\ \A q \in Proc : q # p => pc'[q] = pc[q]
  BY <1>0, <1>1 DEF Woken
<1>4. \A e \in QLp : \/ state'[e] = state[e] \/ state'[e] = "Free"
                     \/ state'[e] = "Queuing" /\ state[e] = "Sleeping"
  BY <1>1 DEF Woken
<1>5. Keeps(p)
  BY <1>2, <1>3, <1>4 DEF Keeps, Held
<1> QED
  BY <1>3, <1>4, <1>5, HandedStays

(* The rendezvous takes the waiter and the process that hands over         *)
(* together: the only waiter whose entry is Done, and the only hand-over.  *)
LEMMA RendezvousHanded ==
  ASSUME IInv, Handed, NEW p \in Proc, NEW w \in Proc, Rendezvous(p, w)
  PROVE  Handed'
<1> SUFFICES ASSUME ~torn', \A q \in Proc : pc'[q] \notin Aborted PROVE Owned' /\ Met' /\ NotSelf'
  BY DEF Handed
<1>0. p # w /\ state' = state /\ mine' = mine
  BY DEF Rendezvous
<1>1. ~torn /\ pc'[p] = Back(p) /\ pc'[w] = Back(w) /\ \A q \in Proc : q \notin {p, w} => pc'[q] = pc[q]
  BY RendezvousMoves DEF IInv
<1>2. \A q \in {p, w} : \/ pc[q] = "wake" /\ pc'[q] = "out"
                        \/ pc[q] = "wakes" /\ pc'[q] = "sleep"
                        \/ pc[q] = "wakest" /\ pc'[q] = "sleept"
                        \/ pc[q] \in Waiting /\ pc'[q] = "got"
  BY <1>1, RendezvousMoves DEF IInv
<1>3. PICK a, b \in {p, w} : a # b /\ pc[a] \in Waking /\ pc[b] \in Waiting /\ mine[b] = peer[a]
  BY <1>0, <1>1, RendezvousPair
<1>4. {a, b} = {p, w} /\ a \in Proc /\ b \in Proc
  BY <1>3
<1>5. peer[a] \in QLp /\ state[peer[a]] = "Done"
  BY <1>1, <1>3, <1>4 DEF IInv, Wakes
<1>6. Owned /\ Met /\ NotSelf
  <2>1. \A q \in Proc : pc[q] \notin Aborted
    BY <1>1, <1>2 DEF Aborted, Waiting
  <2> QED
    BY <1>1, <2>1 DEF Handed
<1>7. Owned'
  <2>1. \A q \in Proc : pc[q] \in HasEntry => pc'[q] \in HasEntry
    BY <1>1, <1>2 DEF HasEntry, Waiting
  <2> QED
    BY <1>0, <1>6, <2>1 DEF Owned
<1>8. \A q \in Proc : pc'[q] \in Waiting => state'[mine'[q]] # "Done"
  <2> SUFFICES ASSUME NEW q \in Proc, pc'[q] \in Waiting, state[mine[q]] = "Done" PROVE FALSE
    BY <1>0
  <2>1. q # b /\ pc[q] \in HasEntry /\ pc[b] \in HasEntry
    BY <1>1, <1>2, <1>3, <1>4 DEF HasEntry, Waiting, Waking
  <2>2. mine[q] \in QLp
    BY <2>1 DEF IInv, Waits
  <2>3. mine[q] = mine[b]
    BY <1>3, <1>5, <2>2 DEF IInv, OneOwner, Given
  <2> QED
    BY <1>4, <2>1, <2>3 DEF IInv, Waits
<1>9. \A q \in Proc : pc'[q] \notin Waking
  <2>1. \A q \in Proc : q \notin {p, w} => pc[q] \notin Waking
    BY <1>1, <1>3, <1>4 DEF IInv, Wakes
  <2>2. \A q \in {p, w} : pc'[q] \notin Waking
    BY <1>2 DEF Waking
  <2> QED
    BY <1>1, <2>1, <2>2
<1>10. Met' /\ NotSelf'
  BY <1>8, <1>9 DEF Met, NotSelf, Waking
<1> QED
  BY <1>7, <1>10

(* The waiter frees its entry, granted or timed out. *)
LEMMA FreedHanded ==
  ASSUME IInv, Handed, NEW p \in Proc,
         Granted(p) \/ QlocktTimeout(p) \/ RsleeptTimeout(p), torn' = torn
  PROVE  Handed'
<1> USE DEF HasEntry, Waiting, Waking, Aborted
<1>0. /\ pc \in [Proc -> PCs] /\ mine \in [Proc -> QLp \cup {None}] /\ state \in [QLp -> States]
  BY DEF IInv, TypeOK
<1>1. pc[p] \in {"got", "waitt", "sleept"} /\ peer' = peer
  BY DEF Granted, QlocktTimeout, RsleeptTimeout, Timeout
<1>2. mine[p] \in QLp
  BY <1>1 DEF IInv, Waits
<1>3. CASE pc' = [pc EXCEPT ![p] = "failed"]
  BY <1>0, <1>3, HandedAborts
<1>4. ASSUME NEW to \in {"cs", "out", "relock"}, pc' = [pc EXCEPT ![p] = to],
             NEW s \in {"Free", "Timedout"}, state' = [state EXCEPT ![mine[p]] = s],
             mine' = [mine EXCEPT ![p] = None]
      PROVE  Handed'
  <2>1. /\ pc'[p] = to /\ state'[mine[p]] = s
        /\ \A q \in Proc : q # p => pc'[q] = pc[q] /\ mine'[q] = mine[q]
        /\ \A f \in QLp : f # mine[p] => state'[f] = state[f]
    BY <1>0, <1>2, <1>4
  <2>2. Keeps(p)
    BY <1>1, <2>1 DEF Keeps, Held
  <2> QED
    BY <1>1, <2>1, <2>2, HandedStays
<1>5. CASE Granted(p)
  BY <1>3, <1>4, <1>5 DEF Granted, Goto
<1>6. CASE QlocktTimeout(p)
  BY <1>3, <1>4, <1>6 DEF QlocktTimeout, Timeout, Goto
<1>7. CASE RsleeptTimeout(p)
  BY <1>3, <1>4, <1>7 DEF RsleeptTimeout, Timeout, Goto
<1> QED
  BY <1>5, <1>6, <1>7

(* Every step keeps the waiters from being forgotten. *)
LEMMA NextHanded == IInv /\ Handed /\ [Next]_vars => Handed'
<1> SUFFICES ASSUME IInv, Handed, [Next]_vars PROVE Handed'
  OBVIOUS
<1>1. CASE UNCHANGED vars
  BY <1>1 DEF vars, Handed, Owned, Met, NotSelf
<1>2. ASSUME NEW p \in Proc, Call(p) PROVE Handed'
  <2>0. torn' = torn
    BY <1>2 DEF Call
  <2>1. CASE Qlock(p) \/ Qlockt(p)
    BY <2>0, <2>1, LockHanded DEF Qlock, Qlockt, Entering
  <2>2. CASE Qunlock(p)
    <3>1. pc[p] = "cs" /\ Passed(p, state, "wake", "out") /\ mine' = mine
      BY <2>2, HandOffPasses DEF Qunlock, Entering, IInv, TypeOK
    <3> QED
      BY <2>0, <3>1, PassedHanded
  <2>3. ASSUME NEW busy \in {"wakes", "wakest"}, NEW idle \in {"sleep", "sleept"},
               SleepOn(p, busy, idle)
        PROVE  Handed'
    <3>1. CASE GetqlpAborts(p)
      BY <3>1, HandedAborts DEF GetqlpAborts, Goto, IInv, TypeOK, Aborted
    <3>2. ASSUME NEW e \in FreeEntries, mine' = [mine EXCEPT ![p] = e],
                 HandOff(p, [state EXCEPT ![e] = "Sleeping"], busy, idle)
          PROVE  Handed'
      <4>1. pc[p] = "cs"
        BY <2>3 DEF SleepOn, Entering
      <4>2. Passed(p, [state EXCEPT ![e] = "Sleeping"], busy, idle)
        BY <3>2, SleepOnPasses
      <4> QED
        BY <2>0, <3>2, <4>1, <4>2, PassedHanded
    <3> QED
      BY <2>3, <3>1, <3>2 DEF SleepOn
  <2>4. CASE Rwakeup(p) \/ Rwakeupall(p)
    BY <2>0, <2>4, WakeHanded DEF Rwakeup, Rwakeupall, Entering
  <2> QED
    BY <1>2, <2>1, <2>2, <2>3, <2>4 DEF Call, Rsleep, Rsleept
<1>3. ASSUME NEW p \in Proc, Return(p) PROVE Handed'
  BY <1>3, RendezvousHanded, FreedHanded DEF Return
<1> QED
  BY <1>1, <1>2, <1>3 DEF Next

(* The users of a QLock are never all asleep: as long as anybody waits in  *)
(* qlock or qlockt, nobody aborted and no rendezvous was interrupted on    *)
(* one side, some process can run, or complete a rendezvous both parties   *)
(* are in, that brings the lock nearer to it.                              *)
THEOREM QLockNeverAllAsleep == Spec => []NeverAllAsleep
<1>1. Init => Handed
  BY DEF Init, Handed, Owned, Met, NotSelf, Held, Waiting
<1>2. IInv /\ Handed => NeverAllAsleep
  <2> SUFFICES ASSUME IInv, Handed, NEW w \in Proc, pc[w] \in {"wait", "waitt"},
                      \A p \in Proc : pc[p] \notin Aborted,
                      \A p \in Proc : pc[p] \notin {"cs", "all", "got"}, ~torn
               PROVE  \E p \in Proc : /\ pc[p] \in Waking
                                      /\ \E v \in Proc : pc[v] \in Waiting /\ mine[v] = peer[p]
    BY DEF NeverAllAsleep
  <2>1. mine[w] \in QLp /\ state[mine[w]] \in {"Queuing", "Done"}
    BY DEF IInv, Waits, HasEntry, Waiting
  <2>2. PICK e \in QLp : state[e] = "Done"
    <3>1. CASE state[mine[w]] = "Queuing"
      <4>1. Owners = {}
        BY DEF Owners
      <4> QED
        BY <2>1, <3>1, <4>1 DEF IInv, OneOwner, Given
    <3> QED
      BY <2>1, <3>1
  <2>3. PICK v \in Proc : pc[v] \in HasEntry /\ mine[v] = e
    BY <2>2 DEF Handed, Owned, Held
  <2>4. pc[v] \in Waiting
    <3> SUFFICES ASSUME pc[v] \in {"wakes", "wakest"} PROVE FALSE
      BY <2>3 DEF HasEntry
    <3>1. peer[v] \in QLp /\ state[peer[v]] = "Done"
      BY DEF IInv, Wakes, Waking
    <3>2. peer[v] = mine[v]
      BY <2>2, <2>3, <3>1 DEF IInv, OneOwner, Given
    <3> QED
      BY <3>2 DEF Handed, NotSelf
  <2>5. PICK p \in Proc : pc[p] \in Waking /\ peer[p] = mine[v]
    BY <2>2, <2>3, <2>4 DEF Handed, Met
  <2> QED
    BY <2>4, <2>5
<1> QED
  BY <1>1, <1>2, Invariance, NextHanded, PTL DEF Spec
=============================================================================
