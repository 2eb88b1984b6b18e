---------------------------- MODULE AwakeProofs ----------------------------
(***************************************************************************)
(* Timed wakeups for any number of processes, alarms, tags and programs:   *)
(* nobody is made ready twice, alarms are taken in order but where         *)
(* awake_timer passed over one, and those of a note handler end with it.   *)
(***************************************************************************)
EXTENDS Awake, FiniteSetTheorems, TLAPS

(* A set of numbers that is not empty has a smallest element. *)
LEMMA Smallest ==
  ASSUME NEW S \in SUBSET Nat, S # {}
  PROVE  \E m \in S : \A n \in S : m <= n
<1> DEFINE R == OpToRel(<, Nat)
<1>1. IsWellFoundedOn(R, Nat)
  BY NatLessThanWellFounded
<1>2. \A m, n \in Nat : m < n => <<m, n>> \in R
  BY DEF OpToRel
<1> HIDE DEF R
<1>3. PICK m \in S : \A n \in S : ~(<<n, m>> \in R)
  BY <1>1, WFMin
<1>4. ASSUME NEW n \in S PROVE m <= n
  <2>1. ~(n < m)
    BY <1>2, <1>3
  <2> QED
    BY <2>1
<1> QED
  BY <1>4

(* ~0 is a number, later than any time an alarm can be set to. *)
LEMMA NeverIsLast ==
  /\ Never \in Nat /\ PoolSize \in Nat /\ MaxTime \in Nat
  /\ MaxTime + PoolSize + 2 <= Never
  /\ \A d \in Delays : d \in Nat /\ MaxTime + d + 1 + PoolSize <= Never
<1>1. MaxDelay \in Delays /\ \A e \in Delays : e <= MaxDelay
  BY AwakeAssumption DEF MaxDelay
<1>2. MaxDelay \in Nat /\ \A e \in Delays : e \in Nat
  BY <1>1, AwakeAssumption
<1>3. PoolSize \in Nat /\ MaxTime \in Nat
  BY AwakeAssumption
<1>4. Never = MaxTime + MaxDelay + PoolSize + 2
  BY DEF Never
<1> HIDE DEF Never
<1> QED
  BY <1>1, <1>2, <1>3, <1>4

(* The first of some alarms is one of them. *)
LEMMA EarliestIsFirst ==
  ASSUME time \in [Alarm -> 0..Never], NEW S \in SUBSET Alarm, S # {}
  PROVE  /\ Earliest(S) \in S
         /\ \A b \in S : time[Earliest(S)] <= time[b]
<1> DEFINE T == {time[a] : a \in S}
<1>1. T \in SUBSET Nat /\ T # {}
  BY NeverIsLast
<1>2. PICK m \in T : \A n \in T : m <= n
  BY <1>1, Smallest
<1>3. PICK a \in S : time[a] = m
  BY <1>2
<1>4. \A b \in S : time[a] <= time[b]
  BY <1>2, <1>3
<1> QED
  BY <1>3, <1>4 DEF Earliest

(* What next_wakeup is set to, when an alarm is taken out. *)
LEMMA FirstIsTime ==
  ASSUME time \in [Alarm -> 0..Never], next_wakeup \in 0..Never, NEW S \in SUBSET Alarm
  PROVE  First(S) \in 0..Never
<1>1. CASE S = {}
  BY <1>1 DEF First
<1>2. CASE S # {}
  BY <1>2, EarliestIsFirst DEF First
<1> QED
  BY <1>1, <1>2

(* awake_register finds a tick without an alarm of the process: there are  *)
(* more ticks to try than alarms.                                          *)
LEMMA SlotIsFree ==
  ASSUME time \in [Alarm -> 0..Never], NEW p \in Proc, NEW t \in Nat
  PROVE  /\ Slot(p, t) \in t..(t + PoolSize)
         /\ \A b \in Registry \cap Of(p) : ~done[b] => time[b] # Slot(p, t)
<1> DEFINE B == {b \in Registry \cap Of(p) : ~done[b]}
           taken == {time[a] : a \in B}
           ticks == t..(t + PoolSize)
           free == {u \in ticks : u \notin taken}
<1>1. PoolSize \in Nat /\ B \subseteq Alarm
  BY NeverIsLast DEF Registry, In, Of
<1>2. free # {}
  <2> SUFFICES ASSUME free = {} PROVE FALSE
    OBVIOUS
  <2> DEFINE f == [u \in ticks |-> CHOOSE a \in B : time[a] = u]
  <2>1. \A u \in ticks : \E a \in B : time[a] = u
    OBVIOUS
  <2>2. \A u \in ticks : f[u] \in B /\ time[f[u]] = u
    BY <2>1
  <2>3. f \in [ticks -> Alarm]
    BY <1>1, <2>2
  <2>4. IsFiniteSet(Alarm) /\ Cardinality(Alarm) = PoolSize
    BY <1>1, FS_Interval DEF Alarm
  <2>5. IsFiniteSet(ticks) /\ Cardinality(ticks) = PoolSize + 1
    <3>1. t \in Int /\ t + PoolSize \in Int /\ ~(t > t + PoolSize) /\ (t + PoolSize) - t + 1 = PoolSize + 1
      BY <1>1
    <3> QED
      BY <3>1, FS_Interval
  <2>6. Cardinality(Alarm) < Cardinality(ticks)
    BY <1>1, <2>4, <2>5
  <2> HIDE DEF f, ticks
  <2>7. PICK u \in ticks, v \in ticks : u # v /\ f[u] = f[v]
    BY <2>3, <2>4, <2>5, <2>6, FS_PigeonHole
  <2> QED
    BY <2>2, <2>7
<1>3. free \in SUBSET Nat
  BY <1>1
<1>4. PICK u \in free : \A v \in free : u <= v
  BY <1>2, <1>3, Smallest
<1>5. \A v \in t..(u - 1) : v \in taken
  <2> SUFFICES ASSUME NEW v \in t..(u - 1), v \notin taken PROVE FALSE
    OBVIOUS
  <2>1. v \in ticks /\ ~(u <= v)
    BY <1>1, <1>4
  <2> QED
    BY <1>4, <2>1
<1>6. \E w \in ticks : w \notin taken /\ \A v \in t..(w - 1) : v \in taken
  BY <1>4, <1>5
<1>7. Slot(p, t) = CHOOSE w \in ticks : w \notin taken /\ \A v \in t..(w - 1) : v \in taken
  BY DEF Slot
<1>8. Slot(p, t) \in ticks /\ Slot(p, t) \notin taken
  <2> HIDE DEF ticks, taken, free
  <2> QED
    BY <1>6, <1>7
<1> QED
  BY <1>8

-----------------------------------------------------------------------------
(* The inductive invariant.  First TypeOK, by what belongs together. *)
AlarmsTyped ==
  /\ where \in [Alarm -> {"free", "new", "registry", "toawake", "elapsed", "pending"}]
  /\ owner \in [Alarm -> Proc \cup {None}] /\ level \in [Alarm -> Level]
  /\ done \in [Alarm -> BOOLEAN] /\ time \in [Alarm -> 0..Never] /\ passed \subseteq Alarm
WakeupsTyped ==
  /\ elapsed \in [Proc -> [Level -> Alarm \cup {None}]]
  /\ blocking \in [Proc -> [Level -> BOOLEAN]] /\ last \in [Proc -> [Level -> 0..Never]]
NotesTyped ==
  /\ notified \in [Proc -> Level] /\ note \in [Proc -> BOOLEAN] /\ nnote \in [Proc -> 0..1]
RendezTyped ==
  /\ state \in [Proc -> {"Running", "Rendezvous", "Ready"}]
  /\ tag \in [Proc -> Tag \cup {Private}] /\ rendval \in [Proc -> Proc \cup {None}]
  /\ hash \subseteq Proc /\ met \in [Proc -> Proc \cup {None}]
CallsTyped ==
  /\ pc \in [Proc -> {"user", "register", "remove", "exec", "reap", "meet", "blocked", "ret"}]
  /\ request \in [Proc -> Alarm \cup {None}] /\ slept \in [Proc -> BOOLEAN]
ClockTyped ==
  /\ program \in Programs
  /\ now \in 0..MaxTime /\ next_wakeup \in 0..Never /\ tnext \in 0..Never
  /\ todo \subseteq Alarm /\ ring \subseteq Alarm /\ rwho \in Alarm \cup {None}
  /\ poster \in Proc \cup {None}

(* TypeOK is the conjunction of its groups, before and after a step. *)
LEMMA TypeOKGroups ==
  /\ TypeOK <=> /\ AlarmsTyped /\ WakeupsTyped /\ NotesTyped
                /\ RendezTyped /\ CallsTyped /\ ClockTyped
  /\ TypeOK' <=> /\ AlarmsTyped' /\ WakeupsTyped' /\ NotesTyped'
                 /\ RendezTyped' /\ CallsTyped' /\ ClockTyped'
BY DEF TypeOK, AlarmsTyped, WakeupsTyped, NotesTyped, RendezTyped, CallsTyped, ClockTyped

(* An alarm is free or has an owner.  awake_timer scans the registry,      *)
(* awake_ringer looks at what is pending.                                  *)
Lists == /\ \A a \in Alarm : where[a] = "free" <=> owner[a] = None
         /\ todo \subseteq Registry /\ (todo # {} => tpc = "scan")
         /\ ring \subseteq In("pending")
         /\ rpc \in {"pull", "panic"} => rwho \in In("pending")
         /\ \A a \in passed : where[a] \notin {"free", "new"}

(* A process in awake_register has one new alarm, for the level it is at.  *)
News == /\ \A a \in In("new") : pc[owner[a]] = "register" /\ level[a] = notified[owner[a]]
        /\ \A a, b \in In("new") : owner[a] = owner[b] => a = b
        /\ \A p \in Proc : pc[p] = "register" => \E a \in In("new") : owner[a] = p

(* awake_remove and postnote know what they are about. *)
Requests == /\ \A p \in Proc : pc[p] = "remove" => request[p] \in Alarm
            /\ ppc # "idle" => poster \in Proc

(* Who waits in a rendezvous, who is about to make somebody ready, and     *)
(* that nobody meets a process that waits alone.                           *)
Meets == /\ \A p \in Proc : pc[p] = "blocked" <=> state[p] # "Running"
         /\ \A p \in Proc : pc[p] = "meet" <=> met[p] # None
         /\ \A p \in hash : tag[p] # Private
         /\ \A p, q \in Proc : met[q] = p => tag[p] # Private

(* A process has no two alarms at the same tick in the registry, nothing   *)
(* elapses before its time, and what elapsed for a process comes before    *)
(* all that is still in the registry: hence, of what is not passed over,   *)
(* the scan looks at the earliest first.                                   *)
Order ==
  /\ \A a, b \in Registry : owner[a] = owner[b] /\ time[a] = time[b] => a = b
  /\ \A p \in Proc, l \in Level :
       last[p][l] <= now /\ (elapsed[p][l] # None => time[elapsed[p][l]] <= now)
  /\ \A a \in todo : time[a] <= now /\ \A b \in Registry \ (todo \cup passed) : time[a] < time[b]
  /\ \A p \in Proc, l \in Level, b \in Registry \ passed :
       elapsed[p][l] # None /\ owner[b] = p /\ level[b] = l => time[b] > time[elapsed[p][l]]

AlarmInv == Lists /\ News /\ HandlerAlarmsDeleted /\ AlarmsInOrder /\ Order
RendezInv == Meets /\ ReadyOnce
IInv == TypeOK /\ AlarmInv /\ RendezInv /\ Requests

(* exec goes on as long as the process has an alarm. *)
StaysInExec(p) == pc[p] \in {"exec", "reap"} => pc'[p] \in {"exec", "reap"} \/ Of(p) = {}

(* What most steps do: the alarms of S are freed and the others left, a    *)
(* process takes the alarm that elapsed or loses it, and whoever leaves    *)
(* its note handler has no alarm of it left.                               *)
Frees(S) == /\ \A a \in Alarm \ S : /\ where'[a] = where[a] /\ owner'[a] = owner[a]
                                    /\ level'[a] = level[a] /\ time'[a] = time[a]
            /\ \A a \in S : where[a] # "new" /\ where'[a] = "free" /\ owner'[a] = None
            /\ passed' = passed \ S
Takes(S) == \A p \in Proc, l \in Level :
              /\ elapsed'[p][l] \in {elapsed[p][l], None} /\ elapsed'[p][l] \notin S
              /\ \/ last'[p][l] = last[p][l]
                 \/ /\ elapsed[p][l] # None /\ elapsed'[p][l] = None
                    /\ last'[p][l] = time[elapsed[p][l]]
Scans(S) == /\ todo' = todo \ S /\ (todo' = {} \/ tpc' = tpc)
            /\ ring' \subseteq ring \ S
            /\ rpc' \in {"pull", "panic"} => rwho' \in In("pending") \ S
            /\ rpc' = "panic" => pc[owner[rwho']] \in {"exec", "reap"}
Notes(S) == \A p \in Proc :
              \/ notified'[p] = notified[p] /\ (pc[p] = "exec" => pc'[p] = "exec")
              \/ /\ pc[p] # "register"
                 /\ \/ notified'[p] = 1 \/ pc'[p] = "exec"
                    \/ /\ elapsed'[p][1] = None
                       /\ \A a \in Registry \ S : ~(owner[a] = p /\ level[a] = 1)
Shrinks(S) == /\ Frees(S) /\ Takes(S) /\ Scans(S) /\ Notes(S) /\ now' >= now
              /\ \A p \in Proc : /\ pc'[p] = "register" <=> pc[p] = "register"
                               /\ StaysInExec(p)

(* Such a step keeps what the invariant says of the alarms. *)
LEMMA ShrinksInv ==
  ASSUME IInv, TypeOK', NEW S \in SUBSET Alarm, Shrinks(S)
  PROVE  AlarmInv'
<1>1. /\ AlarmsTyped /\ WakeupsTyped /\ NotesTyped /\ CallsTyped /\ ClockTyped
      /\ AlarmsTyped' /\ WakeupsTyped' /\ NotesTyped' /\ CallsTyped' /\ ClockTyped'
  BY TypeOKGroups DEF IInv
<1>2. /\ \A a \in Alarm \ S : /\ where'[a] = where[a] /\ owner'[a] = owner[a]
                              /\ level'[a] = level[a] /\ time'[a] = time[a]
      /\ \A a \in S : where[a] # "new" /\ where'[a] = "free" /\ owner'[a] = None
      /\ passed' = passed \ S
  BY DEF Shrinks, Frees
<1>3. /\ Registry' = Registry \ S /\ In("new")' = In("new") /\ In("pending")' = In("pending") \ S
      /\ S \cap In("new") = {}
  BY <1>1, <1>2 DEF Registry, In, AlarmsTyped
<1>4. Lists'
  BY <1>1, <1>2, <1>3 DEF IInv, AlarmInv, Lists, Shrinks, Scans, AlarmsTyped, ClockTyped
<1>5. News'
  <2>1. \A a \in In("new") : owner'[a] = owner[a] /\ level'[a] = level[a] /\ owner[a] \in Proc
    BY <1>1, <1>2, <1>3 DEF IInv, AlarmInv, Lists, AlarmsTyped, In
  <2>2. \A a \in In("new") : notified'[owner[a]] = notified[owner[a]]
    BY <2>1 DEF IInv, AlarmInv, News, Shrinks, Notes
  <2> QED
    BY <1>3, <2>1, <2>2 DEF IInv, AlarmInv, News, Shrinks
<1>6. ASSUME NEW p \in Proc, NEW l \in Level, elapsed'[p][l] # None
      PROVE  /\ elapsed'[p][l] = elapsed[p][l] /\ elapsed[p][l] \in Alarm \ S
             /\ last'[p][l] = last[p][l]
  BY <1>1, <1>6 DEF Shrinks, Takes, WakeupsTyped
<1>7. HandlerAlarmsDeleted'
  <2>1. ASSUME rpc' = "panic" PROVE pc'[owner'[rwho']] \in {"exec", "reap"}
    <3>1. rwho' \in In("pending") \ S /\ pc[owner[rwho']] \in {"exec", "reap"}
      BY <2>1 DEF Shrinks, Scans
    <3>2. rwho' \in Alarm /\ owner'[rwho'] = owner[rwho'] /\ owner[rwho'] \in Proc
      BY <1>1, <1>2, <3>1 DEF In, IInv, AlarmInv, Lists, AlarmsTyped
    <3>3. Of(owner[rwho']) # {}
      BY <3>2 DEF Of
    <3> QED
      BY <3>1, <3>2, <3>3 DEF Shrinks, StaysInExec
  <2>2. ASSUME NEW p \in Proc, notified'[p] = 0, pc'[p] # "exec"
        PROVE  elapsed'[p][1] = None /\ \A a \in Registry' : ~(owner'[a] = p /\ level'[a] = 1)
    <3>1. 1 \in Level
      BY DEF Level
    <3>2. CASE notified[p] = 0 /\ pc[p] # "exec"
      BY <1>2, <1>3, <1>6, <3>1, <3>2 DEF IInv, AlarmInv, HandlerAlarmsDeleted, Registry, In
    <3>3. CASE ~(notified[p] = 0 /\ pc[p] # "exec")
      <4>1. elapsed'[p][1] = None /\ \A a \in Registry \ S : ~(owner[a] = p /\ level[a] = 1)
        BY <2>2, <3>3 DEF Shrinks, Notes
      <4> QED
        BY <1>2, <1>3, <4>1 DEF Registry, In
    <3> QED
      BY <3>2, <3>3
  <2> QED
    BY <2>1, <2>2 DEF HandlerAlarmsDeleted
<1>8. ASSUME NEW a \in Registry'
      PROVE  /\ a \in Alarm \ S /\ a \in Registry /\ time'[a] = time[a] /\ time[a] \in Nat
             /\ owner'[a] = owner[a] /\ level'[a] = level[a]
             /\ owner[a] \in Proc /\ level[a] \in Level
  <2>1. a \in Alarm \ S /\ a \in Registry /\ where[a] = "registry"
    BY <1>3 DEF Registry, In
  <2>2. owner[a] \in Proc
    BY <1>1, <2>1 DEF IInv, AlarmInv, Lists, AlarmsTyped
  <2> QED
    BY <1>1, <1>2, <2>1, <2>2, NeverIsLast DEF AlarmsTyped
<1>9. now \in Nat /\ now' \in Nat /\ now <= now'
  BY <1>1, NeverIsLast DEF ClockTyped, Shrinks
<1>10. ASSUME NEW p \in Proc, NEW l \in Level
       PROVE  /\ last[p][l] \in Nat /\ last'[p][l] \in Nat
              /\ elapsed[p][l] # None => elapsed[p][l] \in Alarm /\ time[elapsed[p][l]] \in Nat
              /\ \/ last'[p][l] = last[p][l]
                 \/ elapsed[p][l] # None /\ last'[p][l] = time[elapsed[p][l]]
  BY <1>1, NeverIsLast DEF WakeupsTyped, AlarmsTyped, Shrinks, Takes
<1>11. AlarmsInOrder'
  <2>1. ASSUME NEW p \in Proc, NEW l \in Level, NEW a, a = elapsed'[p][l], a # None
        PROVE  /\ owner'[a] = p /\ level'[a] = l /\ where'[a] \in {"toawake", "elapsed", "pending"}
               /\ a \in passed' \/ time'[a] > last'[p][l]
    <3>1. a = elapsed[p][l] /\ a \in Alarm \ S /\ last'[p][l] = last[p][l]
      BY <1>6, <2>1
    <3>2. /\ owner[a] = p /\ level[a] = l /\ where[a] \in {"toawake", "elapsed", "pending"}
          /\ a \in passed \/ time[a] > last[p][l]
      BY <2>1, <3>1 DEF IInv, AlarmInv, AlarmsInOrder
    <3> QED
      BY <1>2, <3>1, <3>2
  <2>2. ASSUME NEW a \in Registry', a \notin passed'
        PROVE  time'[a] > last'[owner'[a]][level'[a]]
    <3>1. a \in Registry \ passed /\ time[a] > last[owner[a]][level[a]]
      BY <1>2, <1>8, <2>2 DEF IInv, AlarmInv, AlarmsInOrder
    <3>2. elapsed[owner[a]][level[a]] # None => time[a] > time[elapsed[owner[a]][level[a]]]
      BY <1>8, <3>1 DEF IInv, AlarmInv, Order
    <3> QED
      BY <1>8, <1>10, <3>1, <3>2
  <2>3. ASSUME NEW a \in passed' PROVE time'[a] <= now'
    <3>1. a \in Alarm \ S /\ time'[a] = time[a] /\ time[a] <= now /\ time[a] \in Nat
      BY <1>1, <1>2, NeverIsLast DEF IInv, AlarmInv, AlarmsInOrder, AlarmsTyped
    <3> QED
      BY <1>9, <3>1
  <2> QED
    BY <2>1, <2>2, <2>3 DEF AlarmsInOrder
<1>12. Order'
  <2>1. ASSUME NEW a \in Registry', NEW b \in Registry', owner'[a] = owner'[b], time'[a] = time'[b]
        PROVE  a = b
    BY <1>8, <2>1 DEF IInv, AlarmInv, Order
  <2>2. ASSUME NEW p \in Proc, NEW l \in Level
        PROVE  last'[p][l] <= now' /\ (elapsed'[p][l] # None => time'[elapsed'[p][l]] <= now')
    <3>1. last[p][l] <= now /\ (elapsed[p][l] # None => time[elapsed[p][l]] <= now)
      BY DEF IInv, AlarmInv, Order
    <3>2. last'[p][l] <= now'
      BY <1>9, <1>10, <3>1
    <3>3. ASSUME elapsed'[p][l] # None PROVE time'[elapsed'[p][l]] <= now'
      BY <1>2, <1>6, <1>9, <1>10, <3>1, <3>3
    <3> QED
      BY <3>2, <3>3
  <2>3. ASSUME NEW a \in todo'
        PROVE  time'[a] <= now' /\ \A b \in Registry' \ (todo' \cup passed') : time'[a] < time'[b]
    <3>1. a \in todo /\ a \in Alarm \ S /\ todo' = todo \ S
      BY <1>1 DEF Shrinks, Scans, ClockTyped
    <3>2. time'[a] = time[a] /\ time[a] \in Nat
      BY <1>1, <1>2, <3>1, NeverIsLast DEF AlarmsTyped
    <3>3. time[a] <= now /\ \A b \in Registry \ (todo \cup passed) : time[a] < time[b]
      BY <3>1 DEF IInv, AlarmInv, Order
    <3>4. \A b \in Registry' \ (todo' \cup passed') :
            b \in Registry \ (todo \cup passed) /\ time'[b] = time[b]
      BY <1>2, <1>8, <3>1
    <3> QED
      BY <1>9, <3>2, <3>3, <3>4
  <2>4. ASSUME NEW p \in Proc, NEW l \in Level, NEW b \in Registry' \ passed',
               elapsed'[p][l] # None, owner'[b] = p, level'[b] = l
        PROVE  time'[b] > time'[elapsed'[p][l]]
    <3>1. elapsed'[p][l] = elapsed[p][l] /\ time'[elapsed[p][l]] = time[elapsed[p][l]]
      BY <1>2, <1>6, <2>4
    <3>2. b \in Registry \ passed /\ time'[b] = time[b] /\ owner[b] = p /\ level[b] = l
      BY <1>2, <1>8, <2>4
    <3> QED
      BY <2>4, <3>1, <3>2 DEF IInv, AlarmInv, Order
  <2> QED
    BY <2>1, <2>2, <2>3, <2>4 DEF Order
<1> QED
  BY <1>4, <1>5, <1>7, <1>11, <1>12 DEF AlarmInv

-----------------------------------------------------------------------------
(* Steps that leave the alarms alone. *)
LEMMA SameScans ==
  ASSUME IInv, UNCHANGED <<timer, ringer>>
  PROVE  Scans({})
BY DEF IInv, AlarmInv, HandlerAlarmsDeleted, Lists, Scans, timer, ringer

(* They free nothing and take nothing. *)
LEMMA SameShrinks ==
  ASSUME IInv, UNCHANGED <<where, owner, level, time, passed, elapsed, last, notified>>,
         Scans({}), now' >= now,
         \A p \in Proc : /\ pc'[p] = "register" <=> pc[p] = "register"
                         /\ pc[p] = "exec" => pc'[p] = "exec"
                         /\ StaysInExec(p)
  PROVE  Shrinks({})
<1>1. Frees({})
  BY DEF Frees
<1>2. Takes({})
  BY DEF Takes
<1>3. Notes({})
  BY DEF Notes
<1> QED
  BY <1>1, <1>2, <1>3 DEF Shrinks

(* A process that neither enters nor leaves a rendezvous. *)
LEMMA SameRendez ==
  ASSUME IInv, UNCHANGED rendez,
         \A p \in Proc : \/ pc'[p] = pc[p]
                         \/ /\ pc[p] \notin {"blocked", "meet"}
                            /\ pc'[p] \notin {"blocked", "meet"}
  PROVE  RendezInv'
<1> USE DEF rendez
<1>1. Meets /\ ReadyOnce /\ RendezTyped
  BY TypeOKGroups DEF IInv, RendezInv
<1>2. \A p \in Proc : /\ pc'[p] = "blocked" <=> pc[p] = "blocked"
                      /\ pc'[p] = "meet" <=> pc[p] = "meet"
  OBVIOUS
<1>3. Meets'
  BY <1>1, <1>2 DEF Meets
<1>4. ReadyOnce'
  BY <1>1, <1>2 DEF ReadyOnce, RendezTyped
<1> QED
  BY <1>3, <1>4 DEF RendezInv

(* A process that does not ask for an alarm to be removed. *)
LEMMA SameRequests ==
  ASSUME IInv, UNCHANGED <<request, posting>>,
         \A p \in Proc : pc'[p] = "remove" => pc[p] = "remove"
  PROVE  Requests'
BY DEF IInv, Requests, posting

(* From one place in the kernel to another that the invariant does not     *)
(* tell apart.                                                             *)
Moves(p) == \E to \in {"user", "ret", "exec", "reap"} :
              /\ pc[p] \notin {"register", "blocked", "meet"} /\ pc' = [pc EXCEPT ![p] = to]
              /\ pc[p] \in {"exec", "reap"} => to = "reap" \/ Of(p) = {}

(* What such a move leaves as it was. *)
LEMMA MovesQuietly ==
  ASSUME IInv, NEW p \in Proc, Moves(p)
  PROVE  /\ \A q \in Proc : pc'[q] = "register" <=> pc[q] = "register"
         /\ \A q \in Proc : (q # p => pc'[q] = pc[q]) /\ StaysInExec(q)
         /\ \A q \in Proc : \/ pc'[q] = pc[q]
                            \/ /\ pc[q] \notin {"blocked", "meet"}
                               /\ pc'[q] \notin {"blocked", "meet"}
         /\ \A q \in Proc : pc'[q] = "remove" => pc[q] = "remove"
         /\ pc' \in [Proc -> {"user", "register", "remove", "exec", "reap", "meet", "blocked", "ret"}]
<1>1. CallsTyped
  BY TypeOKGroups DEF IInv
<1>2. PICK to \in {"user", "ret", "exec", "reap"} :
        /\ pc[p] \notin {"register", "blocked", "meet"} /\ pc' = [pc EXCEPT ![p] = to]
        /\ pc[p] \in {"exec", "reap"} => to = "reap" \/ Of(p) = {}
  BY DEF Moves
<1>3. pc'[p] = to /\ \A q \in Proc : q # p => pc'[q] = pc[q]
  BY <1>1, <1>2 DEF CallsTyped
<1>4. pc' \in [Proc -> {"user", "register", "remove", "exec", "reap", "meet", "blocked", "ret"}]
  BY <1>1, <1>2 DEF CallsTyped
<1>5. \A q \in Proc : StaysInExec(q)
  BY <1>2, <1>3 DEF StaysInExec
<1> QED
  BY <1>2, <1>3, <1>4, <1>5

(* Nothing happens at all. *)
LEMMA StutterInv == ASSUME IInv, UNCHANGED vars PROVE IInv'
<1> USE DEF vars, alarms, wakeups, notes, call
<1>1. TypeOK'
  BY DEF IInv, TypeOK, timer, ringer, posting, rendez
<1>2. now' >= now
  BY TypeOKGroups, NeverIsLast DEF IInv, ClockTyped
<1>3. Shrinks({})
  BY <1>2, SameScans, SameShrinks DEF StaysInExec
<1> QED
  BY <1>1, <1>3, ShrinksInv, SameRendez, SameRequests DEF IInv

(* The clock. *)
LEMMA TickInv == ASSUME IInv, Tick PROVE IInv'
<1> USE DEF Tick, alarms, wakeups, notes, call
<1>1. ClockTyped'
  BY TypeOKGroups, NeverIsLast DEF IInv, ClockTyped, timer, ringer, posting
<1>2. TypeOK'
  BY <1>1, TypeOKGroups
  DEF IInv, AlarmsTyped, WakeupsTyped, NotesTyped, RendezTyped, CallsTyped, rendez
<1>3. now' >= now
  BY TypeOKGroups, NeverIsLast DEF IInv, ClockTyped
<1>4. Shrinks({})
  BY <1>3, SameScans, SameShrinks DEF StaysInExec
<1> QED
  BY <1>2, <1>4, ShrinksInv, SameRendez, SameRequests DEF IInv

(* A system call that does not block, and exec waiting for its alarms. *)
LEMMA OtherInv ==
  ASSUME IInv, NEW p \in Proc, Other(p) \/ ExecWait(p)
  PROVE  IInv'
<1> USE DEF alarms, wakeups, notes, call
<1>1. /\ Moves(p) /\ pc[p] # "exec"
      /\ UNCHANGED <<program, now, next_wakeup, alarms, wakeups, notes, rendez, call, timer, ringer,
                     posting>>
  BY DEF Other, ExecWait, Can, Goto, Moves
<1>2. TypeOK'
  BY <1>1, MovesQuietly, TypeOKGroups
  DEF IInv, AlarmsTyped, WakeupsTyped, NotesTyped, RendezTyped, CallsTyped, ClockTyped,
      rendez, timer, ringer, posting
<1>3. now' >= now
  BY <1>1, TypeOKGroups, NeverIsLast DEF IInv, ClockTyped
<1>4. Shrinks({})
  BY <1>1, <1>3, MovesQuietly, SameScans, SameShrinks
<1> QED
  BY <1>1, <1>2, <1>4, MovesQuietly, ShrinksInv, SameRendez, SameRequests DEF IInv

(* awake_remove's look at the alarm. *)
LEMMA AwakeRemoveInv ==
  ASSUME IInv, NEW p \in Proc, NEW a \in Alarm, AwakeRemove(p, a)
  PROVE  IInv'
<1> USE DEF alarms, wakeups, notes
<1>1. /\ pc[p] = "user"
      /\ \/ pc' = [pc EXCEPT ![p] = "remove"] /\ request' = [request EXCEPT ![p] = a]
         \/ pc' = [pc EXCEPT ![p] = "ret"] /\ UNCHANGED request
      /\ UNCHANGED <<program, now, next_wakeup, alarms, wakeups, notes, rendez, slept, timer, ringer,
                     posting>>
  BY DEF AwakeRemove, Can, Goto
<1>2. CallsTyped
  BY TypeOKGroups DEF IInv
<1>3. /\ \/ pc'[p] = "remove" /\ request'[p] = a
         \/ pc'[p] = "ret"
      /\ \A q \in Proc : q # p => pc'[q] = pc[q] /\ request'[q] = request[q]
  BY <1>1, <1>2 DEF CallsTyped
<1>4. CallsTyped'
  BY <1>1, <1>2 DEF CallsTyped
<1>5. TypeOK'
  BY <1>1, <1>4, TypeOKGroups
  DEF IInv, AlarmsTyped, WakeupsTyped, NotesTyped, RendezTyped, ClockTyped,
      rendez, timer, ringer, posting
<1>6. now' >= now
  BY <1>1, TypeOKGroups, NeverIsLast DEF IInv, ClockTyped
<1>7. Shrinks({})
  BY <1>1, <1>3, <1>6, SameScans, SameShrinks DEF StaysInExec
<1>8. RendezInv'
  BY <1>1, <1>3, SameRendez
<1>9. Requests'
  BY <1>1, <1>3 DEF IInv, Requests, posting
<1> QED
  BY <1>5, <1>7, <1>8, <1>9, ShrinksInv DEF IInv

(* A value for one process and level changed. *)
LEMMA OneLevel ==
  ASSUME NEW T, NEW f \in [Proc -> [Level -> T]], NEW p \in Proc, NEW l \in Level, NEW x \in T
  PROVE  /\ [f EXCEPT ![p][l] = x] \in [Proc -> [Level -> T]]
         /\ \A q \in Proc, k \in Level :
              [f EXCEPT ![p][l] = x][q][k] = IF q = p /\ k = l THEN x ELSE f[q][k]
<1>1. [f[p] EXCEPT ![l] = x] \in [Level -> T]
  OBVIOUS
<1>2. [f EXCEPT ![p][l] = x] = [f EXCEPT ![p] = [f[p] EXCEPT ![l] = x]]
  OBVIOUS
<1>3. [f EXCEPT ![p] = [f[p] EXCEPT ![l] = x]] \in [Proc -> [Level -> T]]
  BY <1>1
<1> QED
  BY <1>2, <1>3

(* RemoveAlarm, awake_remove with the registry locked. *)
LEMMA RemoveAlarmInv ==
  ASSUME IInv, NEW p \in Proc, RemoveAlarm(p)
  PROVE  IInv'
<1> USE DEF notes
<1>1. /\ pc[p] = "remove" /\ Moves(p)
      /\ request' = [request EXCEPT ![p] = None]
      /\ UNCHANGED <<program, now, next_wakeup, where, owner, level, time, passed, blocking, last, notes,
                     rendez, slept, timer, ringer, posting>>
  BY DEF RemoveAlarm, Goto, Moves
<1>2. AlarmsTyped /\ WakeupsTyped /\ NotesTyped /\ CallsTyped
  BY TypeOKGroups DEF IInv
<1>3. request[p] \in Alarm
  BY <1>1 DEF IInv, Requests
<1>4. \/ elapsed' = [elapsed EXCEPT ![p][notified[p]] = None] /\ UNCHANGED done
      \/ done' = [done EXCEPT ![request[p]] = TRUE] /\ UNCHANGED elapsed
  BY DEF RemoveAlarm
<1>5. AlarmsTyped'
  <2>1. done' \in [Alarm -> BOOLEAN]
    BY <1>2, <1>3, <1>4 DEF AlarmsTyped
  <2> QED
    BY <1>1, <1>2, <2>1 DEF AlarmsTyped
<1>6. elapsed' \in [Proc -> [Level -> Alarm \cup {None}]]
  <2>1. notified[p] \in Level /\ elapsed \in [Proc -> [Level -> Alarm \cup {None}]]
    BY <1>2 DEF NotesTyped, WakeupsTyped
  <2>2. None \in Alarm \cup {None}
    OBVIOUS
  <2>3. [elapsed EXCEPT ![p][notified[p]] = None] \in [Proc -> [Level -> Alarm \cup {None}]]
    BY <2>1, <2>2, OneLevel
  <2> QED
    BY <1>4, <2>1, <2>3
<1>7. \A q \in Proc, l \in Level : elapsed'[q][l] \in {elapsed[q][l], None}
  BY <1>2, <1>4 DEF WakeupsTyped, NotesTyped
<1>8. CallsTyped' /\ request'[p] = None /\ \A q \in Proc : q # p => request'[q] = request[q]
  BY <1>1, <1>2, MovesQuietly DEF CallsTyped
<1>9. TypeOK'
  BY <1>1, <1>2, <1>5, <1>6, <1>8, TypeOKGroups
  DEF IInv, WakeupsTyped, NotesTyped, RendezTyped, ClockTyped, rendez, timer, ringer, posting
<1>10. Shrinks({})
  <2>1. now' >= now
    BY <1>1, TypeOKGroups, NeverIsLast DEF IInv, ClockTyped
  <2>2. Frees({})
    BY <1>1 DEF Frees
  <2>3. Takes({})
    BY <1>1, <1>7 DEF Takes
  <2>4. Notes({})
    BY <1>1, MovesQuietly DEF Notes
  <2> QED
    BY <1>1, <2>1, <2>2, <2>3, <2>4, SameScans, MovesQuietly DEF Shrinks
<1>11. Requests'
  <2>1. pc'[p] # "remove"
    BY <1>1, <1>2 DEF RemoveAlarm, Goto, CallsTyped
  <2> QED
    BY <1>1, <1>8, <2>1, MovesQuietly DEF IInv, Requests, posting
<1> QED
  BY <1>1, <1>9, <1>10, <1>11, MovesQuietly, ShrinksInv, SameRendez DEF IInv

(* What it means to free alarms. *)
LEMMA FreeFrees ==
  ASSUME IInv, NEW S \in SUBSET Alarm, Free(S), \A a \in S : where[a] # "new"
  PROVE  AlarmsTyped' /\ Frees(S)
<1>1. AlarmsTyped
  BY TypeOKGroups DEF IInv
<1>2. AlarmsTyped'
  BY <1>1, NeverIsLast DEF AlarmsTyped, Free, Level
<1>3. Frees(S)
  BY <1>1 DEF AlarmsTyped, Free, Frees
<1> QED
  BY <1>2, <1>3

(* awake_gc_note and awake_gc_proc, and the system calls that use them. *)
LEMMA GcInv ==
  ASSUME IInv, NEW p \in Proc, NEW S \in SUBSET (Registry \cap Of(p)), NEW ls \in SUBSET Level,
         Gc(p, S, ls), 1 \in ls,
         \A a \in Registry \cap Of(p) : level[a] = 1 => a \in S,
         \A q \in Proc, l \in Level : elapsed[q][l] # None => elapsed[q][l] \notin S,
         NotesTyped', \A q \in Proc : q # p => notified'[q] = notified[q],
         pc[p] \in {"user", "exec"}, Moves(p),
         UNCHANGED <<program, now, last, rendez, call, timer, ringer, posting>>
  PROVE  IInv'
<1>1. /\ AlarmsTyped /\ WakeupsTyped /\ NotesTyped /\ CallsTyped /\ ClockTyped
  BY TypeOKGroups DEF IInv
<1>2. S \subseteq Alarm /\ (\A a \in S : where[a] = "registry") /\ Registry \ S \in SUBSET Alarm
  BY DEF Registry, In
<1>3. AlarmsTyped' /\ Frees(S)
  BY <1>2, FreeFrees DEF Gc
<1>4. /\ elapsed' = [elapsed EXCEPT ![p] = [l \in Level |-> IF l \in ls THEN None ELSE @[l]]]
      /\ blocking' = [blocking EXCEPT ![p] = [l \in Level |-> IF l \in ls THEN FALSE ELSE @[l]]]
  BY DEF Gc
<1>5. WakeupsTyped'
  <2>1. elapsed' \in [Proc -> [Level -> Alarm \cup {None}]]
    BY <1>1, <1>4 DEF WakeupsTyped
  <2>2. blocking' \in [Proc -> [Level -> BOOLEAN]]
    <3>1. blocking \in [Proc -> [Level -> BOOLEAN]]
      BY <1>1 DEF WakeupsTyped
    <3>2. [l \in Level |-> IF l \in ls THEN FALSE ELSE blocking[p][l]] \in [Level -> BOOLEAN]
      <4>1. ASSUME NEW l \in Level PROVE (IF l \in ls THEN FALSE ELSE blocking[p][l]) \in BOOLEAN
        <5>1. blocking[p][l] \in BOOLEAN
          BY <3>1
        <5>2. CASE l \in ls
          BY <5>2
        <5>3. CASE l \notin ls
          BY <5>1, <5>3
        <5> QED
          BY <5>2, <5>3
      <4> QED
        BY <4>1, Zenon
    <3> QED
      BY <1>4, <3>1, <3>2, Zenon
  <2> QED
    BY <1>1, <2>1, <2>2 DEF WakeupsTyped
<1>6. /\ \A q \in Proc, l \in Level : elapsed'[q][l] \in {elapsed[q][l], None}
      /\ elapsed'[p][1] = None
  BY <1>1, <1>4 DEF WakeupsTyped, Level
<1>7. next_wakeup' \in 0..Never
  BY <1>1, <1>2, FirstIsTime DEF Gc, AlarmsTyped, ClockTyped
<1>9. TypeOK'
  BY <1>1, <1>3, <1>5, <1>7, MovesQuietly, TypeOKGroups
  DEF IInv, RendezTyped, CallsTyped, ClockTyped, rendez, call, timer, ringer, posting
<1>10. todo = {}
  BY DEF Gc, Unlocked, IInv, AlarmInv, Lists
<1>11. Shrinks(S)
  <2>1. now' >= now
    BY <1>1, NeverIsLast DEF ClockTyped
  <2>2. Takes(S)
    <3> SUFFICES ASSUME NEW q \in Proc, NEW l \in Level
                 PROVE  elapsed'[q][l] \in {elapsed[q][l], None} /\ elapsed'[q][l] \notin S
      BY DEF Takes
    <3>1. None \notin S
      BY <1>2, AwakeAssumption
    <3> QED
      BY <1>6, <3>1
  <2>3. Scans(S)
    <3>1. /\ ring \cap S = {} /\ (rpc \in {"pull", "panic"} => rwho \in In("pending") \ S)
          /\ rpc = "panic" => pc[owner[rwho]] \in {"exec", "reap"}
      BY <1>2 DEF IInv, AlarmInv, Lists, HandlerAlarmsDeleted, In
    <3> QED
      BY <1>10, <3>1 DEF Scans, timer, ringer
  <2>4. Notes(S)
    <3>1. \A a \in Registry \ S : ~(owner[a] = p /\ level[a] = 1)
      BY DEF Of, Registry, In
    <3> QED
      BY <1>6, <3>1, MovesQuietly DEF Notes
  <2> QED
    BY <1>3, <2>1, <2>2, <2>3, <2>4, MovesQuietly DEF Shrinks
<1> QED
  BY <1>2, <1>9, <1>11, MovesQuietly, ShrinksInv, SameRendez, SameRequests DEF IInv, call

(* exec clearing the alarms, and noted. *)
LEMMA ClearsInv ==
  ASSUME IInv, NEW p \in Proc, ExecGc(p) \/ Noted(p)
  PROVE  IInv'
<1>1. NotesTyped
  BY TypeOKGroups DEF IInv
<1>2. \A q \in Proc, l \in Level : elapsed[q][l] # None => elapsed[q][l] \notin Registry
  BY DEF IInv, AlarmInv, AlarmsInOrder, Registry, In
<1>3. CASE ExecGc(p)
  <2>1. NotesTyped' /\ UNCHANGED notified
    BY <1>1, <1>3 DEF ExecGc, NotesTyped, notes
  <2>2. pc[p] = "exec" /\ Moves(p)
    BY <1>3 DEF ExecGc, Goto, Moves
  <2>3. /\ Gc(p, Registry \cap Of(p), Level)
        /\ UNCHANGED <<program, now, last, rendez, call, timer, ringer, posting>>
    BY <1>3 DEF ExecGc
  <2>4. 1 \in Level /\ \A a \in Registry \cap Of(p) : level[a] = 1 => a \in Registry \cap Of(p)
    BY DEF Level
  <2> QED
    BY <1>2, <2>1, <2>2, <2>3, <2>4, GcInv
<1>4. CASE Noted(p)
  <2> DEFINE S == {a \in Registry \cap Of(p) : level[a] = 1}
  <2>1. NotesTyped' /\ \A q \in Proc : q # p => notified'[q] = notified[q]
    BY <1>1, <1>4 DEF Noted, NotesTyped, Level
  <2>2. pc[p] = "user" /\ Moves(p)
    BY <1>4 DEF Noted, Goto, Moves
  <2>3. /\ Gc(p, S, {1})
        /\ UNCHANGED <<program, now, last, rendez, call, timer, ringer, posting>>
    BY <1>4 DEF Noted
  <2>4. /\ S \subseteq Registry \cap Of(p) /\ {1} \in SUBSET Level
        /\ \A a \in Registry \cap Of(p) : level[a] = 1 => a \in S
    BY DEF Level
  <2> HIDE DEF S
  <2> QED
    BY <1>2, <2>1, <2>2, <2>3, <2>4, GcInv
<1> QED
  BY <1>3, <1>4

(* exec leaving the note handler. *)
LEMMA ExecInv ==
  ASSUME IInv, NEW p \in Proc, Exec(p)
  PROVE  IInv'
<1> USE DEF alarms, wakeups, call
<1>1. /\ pc[p] = "user" /\ Moves(p) /\ pc' = [pc EXCEPT ![p] = "exec"]
      /\ notified' = [notified EXCEPT ![p] = 0] /\ nnote' = [nnote EXCEPT ![p] = 0]
      /\ UNCHANGED <<program, now, next_wakeup, alarms, wakeups, note, rendez, call, timer, ringer, posting>>
  BY DEF Exec, Can, Goto, Moves
<1>2. NotesTyped /\ CallsTyped /\ ClockTyped
  BY TypeOKGroups DEF IInv
<1>3. NotesTyped' /\ \A q \in Proc : q # p => notified'[q] = notified[q]
  <2>1. nnote' \in [Proc -> 0..1]
    BY <1>1, <1>2 DEF NotesTyped
  <2> QED
    BY <1>1, <1>2, <2>1 DEF NotesTyped, Level
<1>4. pc'[p] = "exec"
  BY <1>1, <1>2 DEF CallsTyped
<1>5. TypeOK'
  BY <1>1, <1>3, MovesQuietly, TypeOKGroups
  DEF IInv, AlarmsTyped, WakeupsTyped, RendezTyped, CallsTyped, ClockTyped,
      rendez, timer, ringer, posting
<1>6. Shrinks({})
  <2>1. now' >= now
    BY <1>1, <1>2, NeverIsLast DEF ClockTyped
  <2>2. Frees({}) /\ Takes({})
    BY <1>1 DEF Frees, Takes
  <2>3. Notes({})
    BY <1>1, <1>3, <1>4, MovesQuietly DEF Notes
  <2> QED
    BY <1>1, <2>1, <2>2, <2>3, SameScans, MovesQuietly DEF Shrinks
<1> QED
  BY <1>1, <1>5, <1>6, MovesQuietly, ShrinksInv, SameRendez, SameRequests DEF IInv

(* A note delivered on the way back from a trap. *)
LEMMA TrapNoteInv ==
  ASSUME IInv, NEW p \in Proc, TrapNote(p)
  PROVE  IInv'
<1> USE DEF alarms, wakeups, call
<1>1. /\ pc[p] = "user" /\ nnote[p] > 0
      /\ note' = [note EXCEPT ![p] = FALSE]
      /\ notified' = [notified EXCEPT ![p] = 1]
      /\ nnote' = [nnote EXCEPT ![p] = IF notified[p] = 0 THEN nnote[p] - 1 ELSE nnote[p]]
      /\ UNCHANGED <<program, now, next_wakeup, alarms, wakeups, rendez, pc, call, timer, ringer, posting>>
  BY DEF TrapNote
<1>2. NotesTyped /\ ClockTyped
  BY TypeOKGroups DEF IInv
<1>3. NotesTyped'
  <2>1. nnote[p] = 1
    BY <1>1, <1>2 DEF NotesTyped
  <2>2. nnote' \in [Proc -> 0..1]
    BY <1>1, <1>2, <2>1 DEF NotesTyped
  <2> QED
    BY <1>1, <1>2, <2>2 DEF NotesTyped, Level
<1>4. \A q \in Proc : notified'[q] = notified[q] \/ (pc[q] # "register" /\ notified'[q] = 1)
  BY <1>1, <1>2 DEF NotesTyped
<1>5. TypeOK'
  BY <1>1, <1>3, TypeOKGroups
  DEF IInv, AlarmsTyped, WakeupsTyped, RendezTyped, CallsTyped, ClockTyped,
      rendez, timer, ringer, posting
<1>6. Shrinks({})
  <2>1. now' >= now
    BY <1>1, <1>2, NeverIsLast DEF ClockTyped
  <2>2. Frees({}) /\ Takes({}) /\ Notes({})
    BY <1>1, <1>4 DEF Frees, Takes, Notes
  <2> QED
    BY <1>1, <2>1, <2>2, SameScans DEF Shrinks, StaysInExec
<1> QED
  BY <1>1, <1>5, <1>6, ShrinksInv, SameRendez, SameRequests DEF IInv

(* The end of a system call. *)
LEMMA SyscallEndInv ==
  ASSUME IInv, NEW p \in Proc, SyscallEnd(p)
  PROVE  IInv'
<1> USE DEF alarms
<1>1. /\ pc[p] = "ret" /\ Moves(p)
      /\ note' = [note EXCEPT ![p] = note[p] /\ nnote[p] = 0]
      /\ slept' = [slept EXCEPT ![p] = FALSE]
      /\ rendval' = [rendval EXCEPT ![p] = None]
      /\ UNCHANGED <<program, now, next_wakeup, alarms, state, tag, hash, met, request, timer, ringer,
                     posting>>
  BY DEF SyscallEnd, Goto, Moves
<1>2. NotesTyped /\ ClockTyped /\ AlarmsTyped /\ WakeupsTyped /\ RendezTyped /\ CallsTyped
  BY TypeOKGroups DEF IInv
<1>3. \/ /\ nnote[p] > 0
         /\ notified' = [notified EXCEPT ![p] = 1]
         /\ nnote' = [nnote EXCEPT ![p] = nnote[p] - 1]
      \/ UNCHANGED <<notified, nnote>>
  BY DEF SyscallEnd
<1>4. NotesTyped'
  <2>1. note' \in [Proc -> BOOLEAN]
    BY <1>1, <1>2 DEF NotesTyped
  <2>2. notified' \in [Proc -> Level]
    BY <1>2, <1>3 DEF NotesTyped, Level
  <2>3. nnote' \in [Proc -> 0..1]
    BY <1>2, <1>3 DEF NotesTyped
  <2> QED
    BY <2>1, <2>2, <2>3 DEF NotesTyped
<1>5. \A q \in Proc : notified'[q] = notified[q] \/ (pc[q] # "register" /\ notified'[q] = 1)
  BY <1>1, <1>2, <1>3 DEF NotesTyped
<1>6. PICK l \in Level : \/ UNCHANGED wakeups
                         \/ /\ elapsed[p][l] # None
                            /\ elapsed' = [elapsed EXCEPT ![p][l] = None]
                            /\ last' = [last EXCEPT ![p][l] = time[elapsed[p][l]]]
                            /\ blocking' = [blocking EXCEPT ![p][l] = FALSE]
  <2>1. notified'[p] \in Level
    BY <1>4 DEF NotesTyped
  <2>2. Awakened(p, notified'[p]) \/ UNCHANGED wakeups
    BY DEF SyscallEnd
  <2> QED
    BY <2>1, <2>2 DEF Awakened
<1>7. WakeupsTyped'
  <2>1. elapsed[p][l] # None => elapsed[p][l] \in Alarm /\ time[elapsed[p][l]] \in 0..Never
    BY <1>2 DEF WakeupsTyped, AlarmsTyped
  <2>2. CASE UNCHANGED wakeups
    BY <1>2, <2>2 DEF WakeupsTyped, wakeups
  <2>3. CASE ~ UNCHANGED wakeups
    <3>1. /\ None \in Alarm \cup {None} /\ FALSE \in BOOLEAN /\ time[elapsed[p][l]] \in 0..Never
          /\ elapsed \in [Proc -> [Level -> Alarm \cup {None}]]
          /\ blocking \in [Proc -> [Level -> BOOLEAN]] /\ last \in [Proc -> [Level -> 0..Never]]
      BY <1>2, <1>6, <2>1, <2>3 DEF WakeupsTyped
    <3>2. [elapsed EXCEPT ![p][l] = None] \in [Proc -> [Level -> Alarm \cup {None}]]
      BY <3>1, OneLevel
    <3>3. [blocking EXCEPT ![p][l] = FALSE] \in [Proc -> [Level -> BOOLEAN]]
      BY <3>1, OneLevel
    <3>4. [last EXCEPT ![p][l] = time[elapsed[p][l]]] \in [Proc -> [Level -> 0..Never]]
      BY <3>1, OneLevel
    <3> QED
      BY <1>6, <2>3, <3>2, <3>3, <3>4 DEF WakeupsTyped
  <2> QED
    BY <2>2, <2>3
<1>8. Takes({})
  <2>1. CASE UNCHANGED wakeups
    BY <2>1 DEF Takes, wakeups
  <2>2. CASE ~ UNCHANGED wakeups
    <3>1. \A q \in Proc, k \in Level :
            IF q = p /\ k = l
            THEN elapsed[p][l] # None /\ elapsed'[p][l] = None /\ last'[p][l] = time[elapsed[p][l]]
            ELSE elapsed'[q][k] = elapsed[q][k] /\ last'[q][k] = last[q][k]
      BY <1>2, <1>6, <2>2 DEF WakeupsTyped
    <3> QED
      BY <3>1 DEF Takes
  <2> QED
    BY <2>1, <2>2
<1>9. RendezTyped' /\ CallsTyped'
  <2>1. rendval' \in [Proc -> Proc \cup {None}] /\ slept' \in [Proc -> BOOLEAN]
    BY <1>1, <1>2 DEF RendezTyped, CallsTyped
  <2> QED
    BY <1>1, <1>2, <2>1, MovesQuietly DEF RendezTyped, CallsTyped
<1>10. TypeOK'
  BY <1>1, <1>2, <1>4, <1>7, <1>9, TypeOKGroups
  DEF AlarmsTyped, ClockTyped, timer, ringer, posting
<1>11. Shrinks({})
  <2>1. now' >= now
    BY <1>1, <1>2, NeverIsLast DEF ClockTyped
  <2>2. Frees({}) /\ Notes({})
    BY <1>1, <1>5, MovesQuietly DEF Frees, Notes
  <2> QED
    BY <1>1, <1>8, <2>1, <2>2, SameScans, MovesQuietly DEF Shrinks
<1>12. RendezInv'
  <2>1. \A q \in hash : q # p /\ rendval'[q] = rendval[q]
    BY <1>1, <1>2 DEF IInv, RendezInv, ReadyOnce, RendezTyped
  <2>2. \A q \in Proc : /\ pc'[q] = "blocked" <=> pc[q] = "blocked"
                        /\ pc'[q] = "meet" <=> pc[q] = "meet"
    BY <1>1, MovesQuietly
  <2>3. Meets'
    BY <1>1, <2>2 DEF IInv, RendezInv, Meets
  <2>4. ReadyOnce'
    BY <1>1, <1>2, <2>1, <2>2 DEF IInv, RendezInv, ReadyOnce, RendezTyped
  <2> QED
    BY <2>3, <2>4 DEF RendezInv
<1> QED
  BY <1>1, <1>10, <1>11, <1>12, MovesQuietly, ShrinksInv, SameRequests DEF IInv

-----------------------------------------------------------------------------
(* A process in user mode is in no rendezvous. *)
LEMMA UserIsAlone ==
  ASSUME IInv, NEW p \in Proc, pc[p] \notin {"blocked", "meet"}
  PROVE  /\ p \notin hash /\ state[p] = "Running" /\ met[p] = None
         /\ \A q \in Proc : met[q] # p
BY DEF IInv, RendezInv, Meets, ReadyOnce

(* rendezvous: another process waits with the tag. *)
LEMMA MeetsInv ==
  ASSUME IInv, NEW p \in Proc, pc[p] = "user", NEW q \in hash,
         hash' = hash \ {q}, met' = [met EXCEPT ![p] = q],
         rendval' = [rendval EXCEPT ![q] = p, ![p] = rendval[q]],
         pc' = [pc EXCEPT ![p] = "meet"], UNCHANGED <<state, tag>>
  PROVE  RendezInv' /\ RendezTyped'
<1>1. RendezTyped /\ CallsTyped /\ Meets /\ ReadyOnce
  BY TypeOKGroups DEF IInv, RendezInv
<1>2. /\ p \notin hash /\ met[p] = None /\ state[p] = "Running"
      /\ \A r \in Proc : met[r] # p
  BY UserIsAlone
<1>3. q \in Proc /\ q # p /\ q # None
  BY <1>1, <1>2, AwakeAssumption DEF RendezTyped
<1>4. RendezTyped'
  <2>1. rendval' \in [Proc -> Proc \cup {None}]
    BY <1>1, <1>3 DEF RendezTyped
  <2>2. met' \in [Proc -> Proc \cup {None}]
    BY <1>1, <1>3 DEF RendezTyped
  <2> QED
    BY <1>1, <2>1, <2>2 DEF RendezTyped
<1>5. pc'[p] = "meet" /\ \A r \in Proc : r # p => pc'[r] = pc[r]
  BY <1>1 DEF CallsTyped
<1>6. met'[p] = q /\ \A r \in Proc : r # p => met'[r] = met[r]
  BY <1>1 DEF RendezTyped
<1>7. \A r \in hash' : r \in hash /\ r # p /\ r # q /\ rendval'[r] = rendval[r]
  BY <1>1, <1>2, <1>3 DEF RendezTyped
<1>8. Meets'
  <2>1. ASSUME NEW r \in Proc PROVE pc'[r] = "blocked" <=> state'[r] # "Running"
    BY <1>1, <1>2, <1>5 DEF Meets
  <2>2. ASSUME NEW r \in Proc PROVE pc'[r] = "meet" <=> met'[r] # None
    BY <1>1, <1>3, <1>5, <1>6 DEF Meets
  <2>3. \A r \in hash' : tag'[r] # Private
    BY <1>1 DEF Meets
  <2>4. \A r, x \in Proc : met'[x] = r => tag'[r] # Private
    BY <1>1, <1>6 DEF Meets
  <2> QED
    BY <2>1, <2>2, <2>3, <2>4 DEF Meets
<1>9. ReadyOnce'
  <2>1. ASSUME NEW r \in hash' PROVE pc'[r] = "blocked" /\ state'[r] = "Rendezvous" /\ rendval'[r] = r
    BY <1>1, <1>5, <1>7 DEF ReadyOnce, RendezTyped
  <2>2. ASSUME NEW r \in Proc, pc'[r] = "blocked", state'[r] = "Rendezvous", tag'[r] # Private
        PROVE  r \in hash' \/ \E x \in Proc : met'[x] = r
    <3>1. r # p
      BY <1>5, <2>2
    <3>2. r \in hash \/ \E x \in Proc : met[x] = r
      BY <1>1, <1>5, <2>2, <3>1 DEF ReadyOnce
    <3>3. \A x \in Proc : met[x] = r => x # p
      BY <1>2, AwakeAssumption
    <3> QED
      BY <1>6, <3>2, <3>3
  <2>3. ASSUME NEW r \in Proc, NEW x \in Proc, met'[x] = r
        PROVE  /\ pc'[r] = "blocked" /\ state'[r] = "Rendezvous" /\ r \notin hash'
               /\ \A y \in Proc : met'[y] = r => y = x
    <3>1. \A y \in Proc : met[y] # q
      BY <1>1 DEF ReadyOnce, RendezTyped
    <3>2. CASE x = p
      BY <1>1, <1>3, <1>5, <1>6, <2>3, <3>1, <3>2 DEF ReadyOnce
    <3>3. CASE x # p
      <4>1. met[x] = r /\ r # q /\ r # p
        BY <1>2, <1>6, <2>3, <3>1, <3>3
      <4>2. pc[r] = "blocked" /\ state[r] = "Rendezvous" /\ r \notin hash
        BY <1>1, <4>1 DEF ReadyOnce
      <4>3. \A y \in Proc : met'[y] = r => met[y] = r
        BY <1>6, <4>1
      <4>4. \A y \in Proc : met[y] = r => y = x
        BY <1>1, <4>1 DEF ReadyOnce
      <4> QED
        BY <1>5, <4>1, <4>2, <4>3, <4>4
    <3> QED
      BY <3>2, <3>3
  <2> QED
    BY <2>1, <2>2, <2>3 DEF ReadyOnce
<1> QED
  BY <1>4, <1>8, <1>9 DEF RendezInv

(* rendezvous: nobody does, and an alarm elapsed already. *)
LEMMA TurnsBackInv ==
  ASSUME IInv, NEW p \in Proc, pc[p] = "user",
         rendval' = [rendval EXCEPT ![p] = None],
         pc' = [pc EXCEPT ![p] = "ret"], UNCHANGED <<state, tag, hash, met>>
  PROVE  RendezInv' /\ RendezTyped'
<1>1. RendezTyped /\ CallsTyped /\ Meets /\ ReadyOnce
  BY TypeOKGroups DEF IInv, RendezInv
<1>2. p \notin hash
  BY UserIsAlone
<1>3. RendezTyped'
  BY <1>1 DEF RendezTyped
<1>4. \A r \in Proc : /\ pc'[r] = "blocked" <=> pc[r] = "blocked"
                      /\ pc'[r] = "meet" <=> pc[r] = "meet"
  BY <1>1 DEF CallsTyped
<1>5. \A r \in hash : rendval'[r] = rendval[r]
  BY <1>1, <1>2 DEF RendezTyped
<1>6. Meets'
  BY <1>1, <1>4 DEF Meets
<1>7. ReadyOnce'
  BY <1>1, <1>4, <1>5 DEF ReadyOnce, RendezTyped
<1> QED
  BY <1>3, <1>6, <1>7 DEF RendezInv

(* rendezvous: nobody does, and the process falls asleep. *)
LEMMA BlocksInv ==
  ASSUME IInv, NEW p \in Proc, pc[p] = "user", NEW t \in Tag \cup {Private},
         tag' = [tag EXCEPT ![p] = t],
         rendval' = [rendval EXCEPT ![p] = p],
         hash' = IF t = Private THEN hash ELSE hash \cup {p},
         state' = [state EXCEPT ![p] = "Rendezvous"],
         pc' = [pc EXCEPT ![p] = "blocked"], UNCHANGED met
  PROVE  RendezInv' /\ RendezTyped'
<1>1. RendezTyped /\ CallsTyped /\ Meets /\ ReadyOnce
  BY TypeOKGroups DEF IInv, RendezInv
<1>2. /\ p \notin hash /\ met[p] = None
      /\ \A r \in Proc : met[r] # p
  BY UserIsAlone
<1>3. RendezTyped'
  <2>1. tag' \in [Proc -> Tag \cup {Private}]
    BY <1>1 DEF RendezTyped
  <2>2. rendval' \in [Proc -> Proc \cup {None}]
    BY <1>1 DEF RendezTyped
  <2>3. state' \in [Proc -> {"Running", "Rendezvous", "Ready"}]
    BY <1>1 DEF RendezTyped
  <2>4. hash' \subseteq Proc
    BY <1>1 DEF RendezTyped
  <2> QED
    BY <1>1, <2>1, <2>2, <2>3, <2>4 DEF RendezTyped
<1>4. /\ pc'[p] = "blocked" /\ state'[p] = "Rendezvous" /\ tag'[p] = t /\ rendval'[p] = p
      /\ \A r \in Proc : r # p => /\ pc'[r] = pc[r] /\ state'[r] = state[r]
                                  /\ tag'[r] = tag[r] /\ rendval'[r] = rendval[r]
  BY <1>1 DEF CallsTyped, RendezTyped
<1>5. \A r \in hash' : r \in Proc /\ (r = p => t # Private) /\ (r # p => r \in hash)
  BY <1>1, <1>2 DEF RendezTyped
<1>6. \A r \in Proc : r \in hash' <=> r \in hash \/ (r = p /\ t # Private)
  OBVIOUS
<1>7. Meets'
  <2>1. \A r \in Proc : pc'[r] = "blocked" <=> state'[r] # "Running"
    BY <1>1, <1>4 DEF Meets
  <2>2. \A r \in Proc : pc'[r] = "meet" <=> met'[r] # None
    BY <1>1, <1>2, <1>4 DEF Meets
  <2>3. \A r \in hash' : tag'[r] # Private
    BY <1>1, <1>4, <1>5 DEF Meets
  <2>4. \A r, x \in Proc : met'[x] = r => tag'[r] # Private
    BY <1>1, <1>2, <1>4 DEF Meets
  <2> QED
    BY <2>1, <2>2, <2>3, <2>4 DEF Meets
<1>8. ReadyOnce'
  <2>1. ASSUME NEW r \in hash' PROVE pc'[r] = "blocked" /\ state'[r] = "Rendezvous" /\ rendval'[r] = r
    BY <1>1, <1>4, <1>5 DEF ReadyOnce
  <2>2. ASSUME NEW r \in Proc, pc'[r] = "blocked", state'[r] = "Rendezvous", tag'[r] # Private
        PROVE  r \in hash' \/ \E x \in Proc : met'[x] = r
    BY <1>1, <1>4, <1>6, <2>2 DEF ReadyOnce
  <2>3. ASSUME NEW r \in Proc, NEW x \in Proc, met'[x] = r
        PROVE  /\ pc'[r] = "blocked" /\ state'[r] = "Rendezvous" /\ r \notin hash'
               /\ \A y \in Proc : met'[y] = r => y = x
    <3>1. r # p /\ met[x] = r
      BY <1>2, <2>3
    <3> QED
      BY <1>1, <1>4, <1>6, <3>1 DEF ReadyOnce
  <2> QED
    BY <2>1, <2>2, <2>3 DEF ReadyOnce
<1> QED
  BY <1>3, <1>7, <1>8 DEF RendezInv

(* rendezvous. *)
LEMMA RendezvousInv ==
  ASSUME IInv, NEW p \in Proc, NEW t \in Tag \cup {Private}, Rendezvous(p, t)
  PROVE  IInv'
<1> USE DEF alarms, notes
<1>1. /\ pc[p] = "user"
      /\ UNCHANGED <<program, now, next_wakeup, alarms, elapsed, last, notes, request, timer, ringer,
                     posting>>
  BY DEF Rendezvous, Can
<1>2. NotesTyped /\ ClockTyped /\ WakeupsTyped /\ CallsTyped /\ AlarmsTyped
  BY TypeOKGroups DEF IInv
<1>3. RendezInv' /\ RendezTyped'
  <2>1. CASE \E q \in hash : /\ hash' = hash \ {q}
                             /\ rendval' = [rendval EXCEPT ![q] = p, ![p] = rendval[q]]
                             /\ met' = [met EXCEPT ![p] = q]
                             /\ Goto(p, "meet") /\ UNCHANGED <<state, tag>>
    BY <1>1, <2>1, MeetsInv DEF Goto
  <2>2. CASE /\ rendval' = [rendval EXCEPT ![p] = None]
             /\ Goto(p, "ret") /\ UNCHANGED <<state, tag, hash, met>>
    BY <1>1, <2>2, TurnsBackInv DEF Goto
  <2>3. CASE /\ tag' = [tag EXCEPT ![p] = t]
             /\ rendval' = [rendval EXCEPT ![p] = p]
             /\ hash' = IF t = Private THEN hash ELSE hash \cup {p}
             /\ state' = [state EXCEPT ![p] = "Rendezvous"]
             /\ Goto(p, "blocked") /\ UNCHANGED met
    BY <1>1, <2>3, BlocksInv DEF Goto
  <2> QED
    BY <2>1, <2>2, <2>3, Zenon DEF Rendezvous
<1>4. PICK to \in {"meet", "ret", "blocked"} : pc' = [pc EXCEPT ![p] = to]
  BY Zenon DEF Rendezvous, Goto
<1>5. /\ blocking' = blocking \/ blocking' = [blocking EXCEPT ![p][notified[p]] = TRUE]
      /\ slept' = slept \/ slept' = [slept EXCEPT ![p] = TRUE]
  BY Zenon DEF Rendezvous
<1>6. WakeupsTyped'
  <2>1. /\ blocking \in [Proc -> [Level -> BOOLEAN]] /\ TRUE \in BOOLEAN
        /\ notified[p] \in Level
    BY <1>2 DEF WakeupsTyped, NotesTyped
  <2>2. [blocking EXCEPT ![p][notified[p]] = TRUE] \in [Proc -> [Level -> BOOLEAN]]
    BY <2>1, OneLevel
  <2> QED
    BY <1>1, <1>2, <1>5, <2>2 DEF WakeupsTyped
<1>7. CallsTyped'
  <2>1. slept' \in [Proc -> BOOLEAN]
    BY <1>2, <1>5 DEF CallsTyped
  <2>2. pc' \in [Proc -> {"user", "register", "remove", "exec", "reap", "meet", "blocked", "ret"}]
    BY <1>2, <1>4 DEF CallsTyped
  <2> QED
    BY <1>1, <1>2, <2>1, <2>2 DEF CallsTyped
<1>8. TypeOK'
  BY <1>1, <1>2, <1>3, <1>6, <1>7, TypeOKGroups
  DEF AlarmsTyped, NotesTyped, ClockTyped, timer, ringer, posting
<1>9. \A q \in Proc : /\ pc'[q] = "register" <=> pc[q] = "register"
                      /\ pc'[q] = "remove" => pc[q] = "remove"
                      /\ pc[q] = "exec" => pc'[q] = "exec"
                      /\ StaysInExec(q)
  BY <1>1, <1>2, <1>4 DEF CallsTyped, StaysInExec
<1>10. Shrinks({})
  <2>1. now' >= now
    BY <1>1, <1>2, NeverIsLast DEF ClockTyped
  <2> QED
    BY <1>1, <1>9, <2>1, SameScans, SameShrinks
<1> QED
  BY <1>1, <1>3, <1>8, <1>9, <1>10, ShrinksInv, SameRequests DEF IInv

(* The one that waited is made ready by the one that took it out. *)
LEMMA MeetInv ==
  ASSUME IInv, NEW p \in Proc, Meet(p)
  PROVE  IInv'
<1> USE DEF alarms, wakeups, notes, call
<1>1. /\ pc[p] = "meet" /\ pc' = [pc EXCEPT ![p] = "ret"]
      /\ state' = [state EXCEPT ![met[p]] = "Ready"]
      /\ met' = [met EXCEPT ![p] = None]
      /\ UNCHANGED <<program, now, next_wakeup, alarms, wakeups, notes, tag, rendval, hash, call, timer,
                     ringer, posting>>
  BY DEF Meet, Goto
<1>2. /\ NotesTyped /\ ClockTyped /\ WakeupsTyped /\ CallsTyped /\ AlarmsTyped /\ RendezTyped
      /\ Meets /\ ReadyOnce
  BY TypeOKGroups DEF IInv, RendezInv
<1>3. PICK q \in Proc : met[p] = q
  BY <1>1, <1>2 DEF Meets, RendezTyped
<1>4. /\ pc[q] = "blocked" /\ state[q] = "Rendezvous" /\ q \notin hash /\ q # p
      /\ \A r \in Proc : met[r] = q => r = p
  BY <1>1, <1>2, <1>3 DEF ReadyOnce
<1>5. RendezTyped' /\ CallsTyped'
  <2>1. state' \in [Proc -> {"Running", "Rendezvous", "Ready"}]
    BY <1>1, <1>2, <1>3 DEF RendezTyped
  <2>2. met' \in [Proc -> Proc \cup {None}]
    BY <1>1, <1>2 DEF RendezTyped
  <2>3. pc' \in [Proc -> {"user", "register", "remove", "exec", "reap", "meet", "blocked", "ret"}]
    BY <1>1, <1>2 DEF CallsTyped
  <2> QED
    BY <1>1, <1>2, <2>1, <2>2, <2>3 DEF RendezTyped, CallsTyped
<1>6. TypeOK'
  BY <1>1, <1>2, <1>5, TypeOKGroups
  DEF AlarmsTyped, WakeupsTyped, NotesTyped, ClockTyped, timer, ringer, posting
<1>7. /\ pc'[p] = "ret" /\ \A r \in Proc : r # p => pc'[r] = pc[r]
      /\ met'[p] = None /\ \A r \in Proc : r # p => met'[r] = met[r]
      /\ state'[q] = "Ready" /\ \A r \in Proc : r # q => state'[r] = state[r]
  BY <1>1, <1>2, <1>3 DEF CallsTyped, RendezTyped
<1>8. Meets'
  <2>1. \A r \in Proc : pc'[r] = "blocked" <=> state'[r] # "Running"
    BY <1>1, <1>2, <1>4, <1>7 DEF Meets
  <2>2. \A r \in Proc : pc'[r] = "meet" <=> met'[r] # None
    BY <1>2, <1>7 DEF Meets
  <2>3. \A r, x \in Proc : met'[x] = r => met[x] = r
    BY <1>7, AwakeAssumption
  <2> QED
    BY <1>1, <1>2, <2>1, <2>2, <2>3 DEF Meets
<1>9. ReadyOnce'
  <2>1. ASSUME NEW r \in hash' PROVE pc'[r] = "blocked" /\ state'[r] = "Rendezvous" /\ rendval'[r] = r
    BY <1>1, <1>2, <1>4, <1>7 DEF ReadyOnce, RendezTyped
  <2>2. ASSUME NEW r \in Proc, pc'[r] = "blocked", state'[r] = "Rendezvous", tag'[r] # Private
        PROVE  r \in hash' \/ \E x \in Proc : met'[x] = r
    <3>1. r # q /\ r # p
      BY <1>7, <2>2
    <3>2. r \in hash \/ \E x \in Proc : met[x] = r
      BY <1>1, <1>2, <1>7, <2>2, <3>1 DEF ReadyOnce
    <3> QED
      BY <1>1, <1>3, <1>7, <3>1, <3>2
  <2>3. ASSUME NEW r \in Proc, NEW x \in Proc, met'[x] = r
        PROVE  /\ pc'[r] = "blocked" /\ state'[r] = "Rendezvous" /\ r \notin hash'
               /\ \A y \in Proc : met'[y] = r => y = x
    <3>1. x # p /\ met[x] = r /\ r # q
      BY <1>4, <1>7, <2>3, AwakeAssumption
    <3>2. /\ pc[r] = "blocked" /\ state[r] = "Rendezvous" /\ r \notin hash
          /\ \A y \in Proc : met[y] = r => y = x
      BY <1>2, <3>1 DEF ReadyOnce
    <3>3. \A y \in Proc : met'[y] = r => met[y] = r
      BY <1>7, AwakeAssumption
    <3> QED
      BY <1>1, <1>7, <3>1, <3>2, <3>3
  <2> QED
    BY <2>1, <2>2, <2>3 DEF ReadyOnce
<1>10. \A r \in Proc : /\ pc'[r] = "register" <=> pc[r] = "register"
                       /\ pc'[r] = "remove" => pc[r] = "remove"
                       /\ pc[r] = "exec" => pc'[r] = "exec"
                       /\ StaysInExec(r)
  BY <1>1, <1>7 DEF StaysInExec
<1>11. Shrinks({})
  <2>1. now' >= now
    BY <1>1, <1>2, NeverIsLast DEF ClockTyped
  <2> QED
    BY <1>1, <1>10, <2>1, SameScans, SameShrinks
<1> QED
  BY <1>1, <1>6, <1>8, <1>9, <1>10, <1>11, ShrinksInv, SameRequests DEF IInv, RendezInv

(* The process runs again. *)
LEMMA ResumeInv ==
  ASSUME IInv, NEW p \in Proc, Resume(p)
  PROVE  IInv'
<1> USE DEF alarms, wakeups, notes, call
<1>1. /\ pc[p] = "blocked" /\ state[p] = "Ready" /\ pc' = [pc EXCEPT ![p] = "ret"]
      /\ state' = [state EXCEPT ![p] = "Running"]
      /\ UNCHANGED <<program, now, next_wakeup, alarms, wakeups, notes, tag, rendval, hash, met, call, timer,
                     ringer, posting>>
  BY DEF Resume, Goto
<1>2. /\ NotesTyped /\ ClockTyped /\ WakeupsTyped /\ CallsTyped /\ AlarmsTyped /\ RendezTyped
      /\ Meets /\ ReadyOnce
  BY TypeOKGroups DEF IInv, RendezInv
<1>3. p \notin hash /\ \A q \in Proc : met[q] # p
  BY <1>1, <1>2 DEF ReadyOnce
<1>4. RendezTyped' /\ CallsTyped'
  <2>1. state' \in [Proc -> {"Running", "Rendezvous", "Ready"}]
    BY <1>1, <1>2 DEF RendezTyped
  <2>2. pc' \in [Proc -> {"user", "register", "remove", "exec", "reap", "meet", "blocked", "ret"}]
    BY <1>1, <1>2 DEF CallsTyped
  <2> QED
    BY <1>1, <1>2, <2>1, <2>2 DEF RendezTyped, CallsTyped
<1>5. TypeOK'
  BY <1>1, <1>2, <1>4, TypeOKGroups
  DEF AlarmsTyped, WakeupsTyped, NotesTyped, ClockTyped, timer, ringer, posting
<1>6. /\ pc'[p] = "ret" /\ \A r \in Proc : r # p => pc'[r] = pc[r]
      /\ state'[p] = "Running" /\ \A r \in Proc : r # p => state'[r] = state[r]
  BY <1>1, <1>2 DEF CallsTyped, RendezTyped
<1>7. Meets'
  BY <1>1, <1>2, <1>6 DEF Meets
<1>8. ReadyOnce'
  BY <1>1, <1>2, <1>3, <1>6 DEF ReadyOnce, RendezTyped
<1>9. \A r \in Proc : /\ pc'[r] = "register" <=> pc[r] = "register"
                      /\ pc'[r] = "remove" => pc[r] = "remove"
                      /\ pc[r] = "exec" => pc'[r] = "exec"
                      /\ StaysInExec(r)
  BY <1>1, <1>6 DEF StaysInExec
<1>10. Shrinks({})
  <2>1. now' >= now
    BY <1>1, <1>2, NeverIsLast DEF ClockTyped
  <2> QED
    BY <1>1, <1>9, <2>1, SameScans, SameShrinks
<1> QED
  BY <1>1, <1>5, <1>7, <1>8, <1>9, <1>10, ShrinksInv, SameRequests DEF IInv, RendezInv

(* proc_interrupt_finalize: a process in the table, or alone, is made      *)
(* ready, and one that somebody took out is left to it.                    *)
LEMMA PullInv ==
  ASSUME IInv, NEW p \in Proc, Pull(p), UNCHANGED <<pc, tag, met>>
  PROVE  RendezInv' /\ RendezTyped'
<1>1. RendezTyped /\ Meets /\ ReadyOnce
  BY TypeOKGroups DEF IInv, RendezInv
<1>2. CASE UNCHANGED <<rendval, hash, state>>
  BY <1>1, <1>2, SameRendez DEF RendezTyped, rendez
<1>3. CASE /\ state[p] = "Rendezvous"
           /\ rendval' = [rendval EXCEPT ![p] = None]
           /\ hash' = hash \ {p}
           /\ state' = [state EXCEPT ![p] = IF tag[p] = Private \/ p \in hash THEN "Ready"
                                                                            ELSE state[p]]
  <2>1. RendezTyped'
    <3>1. rendval' \in [Proc -> Proc \cup {None}]
      BY <1>1, <1>3 DEF RendezTyped
    <3>2. state' \in [Proc -> {"Running", "Rendezvous", "Ready"}]
      BY <1>1, <1>3 DEF RendezTyped
    <3> QED
      BY <1>1, <1>3, <3>1, <3>2 DEF RendezTyped
  <2>2. /\ \A r \in Proc : r # p => rendval'[r] = rendval[r] /\ state'[r] = state[r]
        /\ state'[p] \in {"Rendezvous", "Ready"}
        /\ tag[p] # Private /\ p \notin hash => state'[p] = "Rendezvous"
        /\ tag[p] = Private \/ p \in hash => state'[p] = "Ready"
    BY <1>1, <1>3 DEF RendezTyped
  <2>3. pc[p] = "blocked"
    BY <1>1, <1>3 DEF Meets
  <2>4. \A r \in Proc : met[r] = p => tag[p] # Private /\ p \notin hash
    BY <1>1 DEF Meets, ReadyOnce
  <2>5. Meets'
    <3>1. \A r \in Proc : pc'[r] = "blocked" <=> state'[r] # "Running"
      BY <1>1, <2>2, <2>3 DEF Meets
    <3> QED
      BY <1>1, <1>3, <3>1 DEF Meets
  <2>6. ReadyOnce'
    <3>1. ASSUME NEW r \in hash'
          PROVE  pc'[r] = "blocked" /\ state'[r] = "Rendezvous" /\ rendval'[r] = r
      BY <1>1, <1>3, <2>2 DEF ReadyOnce, RendezTyped
    <3>2. ASSUME NEW r \in Proc, pc'[r] = "blocked", state'[r] = "Rendezvous", tag'[r] # Private
          PROVE  r \in hash' \/ \E x \in Proc : met'[x] = r
      <4>1. state[r] = "Rendezvous" /\ (r = p => p \notin hash)
        BY <1>3, <2>2, <3>2
      <4> QED
        BY <1>1, <1>3, <3>2, <4>1 DEF ReadyOnce
    <3>3. ASSUME NEW r \in Proc, NEW x \in Proc, met'[x] = r
          PROVE  /\ pc'[r] = "blocked" /\ state'[r] = "Rendezvous" /\ r \notin hash'
                 /\ \A y \in Proc : met'[y] = r => y = x
      BY <1>1, <1>3, <2>2, <2>4, <3>3 DEF ReadyOnce
    <3> QED
      BY <3>1, <3>2, <3>3 DEF ReadyOnce
  <2> QED
    BY <2>1, <2>5, <2>6 DEF RendezInv
<1> QED
  BY <1>2, <1>3 DEF Pull

(* What awake_ringer is about to interrupt is a process. *)
LEMMA PendingHasOwner ==
  ASSUME IInv, NEW a \in Alarm, where[a] # "free"
  PROVE  owner[a] \in Proc /\ level[a] \in Level
<1>1. AlarmsTyped
  BY TypeOKGroups DEF IInv
<1> QED
  BY <1>1 DEF IInv, AlarmInv, Lists, AlarmsTyped

(* awake_ringer pulls a process out of its rendezvous. *)
LEMMA RingerPullInv == ASSUME IInv, RingerPull PROVE IInv'
<1> USE DEF wakeups, notes, call
<1>1. /\ rpc = "pull" /\ rpc' = "ring" /\ rwho' = None /\ Pull(owner[rwho])
      /\ UNCHANGED <<program, now, next_wakeup, where, owner, level, time, passed, wakeups, notes, tag, met,
                     pc, call, timer, ring, posting>>
  BY DEF RingerPull
<1>2. \/ done' = [done EXCEPT ![rwho] = (state[owner[rwho]] # "Rendezvous" \/ state'[owner[rwho]] = "Ready")]
      \/ UNCHANGED done
  BY DEF RingerPull
<1>3. NotesTyped /\ ClockTyped /\ WakeupsTyped /\ CallsTyped /\ AlarmsTyped
  BY TypeOKGroups DEF IInv
<1>4. rwho \in Alarm /\ owner[rwho] \in Proc
  <2>1. rwho \in Alarm /\ where[rwho] = "pending"
    BY <1>1 DEF IInv, AlarmInv, Lists, In
  <2> QED
    BY <2>1, PendingHasOwner
<1>5. RendezInv' /\ RendezTyped'
  BY <1>1, <1>4, PullInv
<1>6. AlarmsTyped'
  <2>1. done' \in [Alarm -> BOOLEAN]
    BY <1>2, <1>3, <1>4 DEF AlarmsTyped
  <2> QED
    BY <1>1, <1>3, <2>1 DEF AlarmsTyped
<1>7. TypeOK'
  BY <1>1, <1>3, <1>5, <1>6, TypeOKGroups
  DEF WakeupsTyped, NotesTyped, CallsTyped, ClockTyped, timer, posting
<1>8. Shrinks({})
  <2>1. now' >= now
    BY <1>1, <1>3, NeverIsLast DEF ClockTyped
  <2>2. Scans({})
    BY <1>1 DEF Scans, timer
  <2> QED
    BY <1>1, <2>1, <2>2, SameShrinks DEF StaysInExec
<1> QED
  BY <1>1, <1>5, <1>7, <1>8, ShrinksInv, SameRequests DEF IInv

(* postnote. *)
LEMMA PostnoteInv ==
  ASSUME IInv, NEW p \in Proc, Postnote(p)
  PROVE  IInv'
<1> USE DEF alarms, wakeups, call
<1>1. /\ note' = [note EXCEPT ![p] = TRUE] /\ nnote' = [nnote EXCEPT ![p] = 1]
      /\ poster' = p /\ ppc' = "look"
      /\ UNCHANGED <<program, now, next_wakeup, alarms, wakeups, notified, rendez, pc, call, timer, ringer>>
  BY DEF Postnote
<1>2. NotesTyped /\ ClockTyped
  BY TypeOKGroups DEF IInv
<1>3. NotesTyped'
  BY <1>1, <1>2 DEF NotesTyped
<1>4. ClockTyped'
  BY <1>1, <1>2 DEF ClockTyped, timer, ringer
<1>5. TypeOK'
  BY <1>1, <1>3, <1>4, TypeOKGroups
  DEF IInv, AlarmsTyped, WakeupsTyped, RendezTyped, CallsTyped, rendez
<1>6. Shrinks({})
  <2>1. now' >= now
    BY <1>1, <1>2, NeverIsLast DEF ClockTyped
  <2> QED
    BY <1>1, <2>1, SameScans, SameShrinks DEF StaysInExec
<1>7. Requests'
  BY <1>1 DEF IInv, Requests
<1> QED
  BY <1>1, <1>5, <1>6, <1>7, ShrinksInv, SameRendez DEF IInv

(* postnote's look at the state of the process, and its way to pull it out *)
(* of a rendezvous.                                                        *)
LEMMA PostnotePullInv == ASSUME IInv, PostnoteLook \/ PostnotePull PROVE IInv'
<1> USE DEF alarms, wakeups, notes, call
<1>1. /\ ppc # "idle"
      /\ UNCHANGED <<program, now, next_wakeup, alarms, wakeups, notes, pc, call, timer, ringer>>
  BY DEF PostnoteLook, PostnotePull
<1>2. \/ ppc' = "pull" /\ poster' = poster
      \/ ppc' = "idle" /\ poster' = None
  BY DEF PostnoteLook, PostnotePull
<1>3. poster \in Proc
  BY <1>1 DEF IInv, Requests
<1>4. ClockTyped /\ RendezTyped
  BY TypeOKGroups DEF IInv
<1>5. RendezInv' /\ RendezTyped'
  <2>1. CASE PostnoteLook
    BY <1>1, <1>4, <2>1, SameRendez DEF PostnoteLook, rendez, RendezTyped
  <2>2. CASE PostnotePull
    BY <1>3, <2>2, PullInv DEF PostnotePull
  <2> QED
    BY <2>1, <2>2
<1>6. ClockTyped'
  BY <1>1, <1>2, <1>4 DEF ClockTyped, timer, ringer
<1>7. TypeOK'
  BY <1>1, <1>5, <1>6, TypeOKGroups
  DEF IInv, AlarmsTyped, WakeupsTyped, NotesTyped, CallsTyped
<1>8. Shrinks({})
  <2>1. now' >= now
    BY <1>1, <1>4, NeverIsLast DEF ClockTyped
  <2> QED
    BY <1>1, <2>1, SameScans, SameShrinks DEF StaysInExec
<1>9. Requests'
  BY <1>1, <1>2, <1>3 DEF IInv, Requests
<1> QED
  BY <1>5, <1>7, <1>8, <1>9, ShrinksInv DEF IInv

-----------------------------------------------------------------------------
(* Steps of awake_timer and awake_ringer that leave the alarms alone. *)
LEMMA LooksInv ==
  ASSUME IInv, ClockTyped', Scans({}),
         UNCHANGED <<now, alarms, wakeups, notes, rendez, pc, call, posting>>
  PROVE  IInv'
<1> USE DEF alarms, wakeups, notes, call
<1>1. TypeOK'
  BY TypeOKGroups
  DEF IInv, AlarmsTyped, WakeupsTyped, NotesTyped, RendezTyped, CallsTyped, rendez
<1>2. now' >= now
  BY TypeOKGroups, NeverIsLast DEF IInv, ClockTyped
<1>3. Shrinks({})
  BY <1>2, SameShrinks DEF StaysInExec
<1> QED
  BY <1>1, <1>3, ShrinksInv, SameRendez, SameRequests DEF IInv

(* Outside of the scan nothing is left to look at. *)
LEMMA NothingToDo == ASSUME IInv, tpc # "scan" PROVE todo = {}
BY DEF IInv, AlarmInv, Lists

(* awake_tick, and awake_timer between two scans. *)
LEMMA TimerSleepsInv ==
  ASSUME IInv, AwakeTick \/ TimerUnlock \/ TimerWake \/ TimerRead \/ TimerStore
  PROVE  IInv'
<1>1. /\ todo = {} /\ todo' = {}
      /\ UNCHANGED <<program, now, alarms, wakeups, notes, rendez, pc, call, ring, rwho, posting>>
  BY NothingToDo DEF AwakeTick, TimerUnlock, TimerWake, TimerRead, TimerStore, ringer
<1>2. ClockTyped /\ AlarmsTyped
  BY TypeOKGroups DEF IInv
<1>3. Never \in 0..Never /\ First(Registry) \in 0..Never
  <2>1. Registry \in SUBSET Alarm
    BY DEF Registry, In
  <2>2. First(Registry) \in 0..Never
    BY <1>2, <2>1, FirstIsTime DEF ClockTyped, AlarmsTyped
  <2>3. Never \in 0..Never
    BY NeverIsLast
  <2> QED
    BY <2>2, <2>3
<1>4. next_wakeup' \in {next_wakeup, tnext} /\ tnext' \in {tnext, Never, First(Registry)}
  BY DEF AwakeTick, TimerUnlock, TimerWake, TimerRead, TimerStore
<1>5. ClockTyped'
  BY <1>1, <1>2, <1>3, <1>4 DEF ClockTyped, posting
<1>6. rpc' = rpc \/ rpc' = "check"
  BY DEF AwakeTick, TimerUnlock, TimerWake, TimerRead, TimerStore, ringer
<1>7. Scans({})
  BY <1>1, <1>6 DEF IInv, AlarmInv, HandlerAlarmsDeleted, Lists, Scans
<1> QED
  BY <1>1, <1>5, <1>7, LooksInv

(* The end of the ringer's list. *)
LEMMA RingerEndInv == ASSUME IInv, RingerEnd PROVE IInv'
<1>1. /\ rpc' \in {"asleep", "check"}
      /\ UNCHANGED <<program, now, next_wakeup, alarms, wakeups, notes, rendez, pc, call, timer, ring, rwho,
                     posting>>
  BY DEF RingerEnd
<1>2. ClockTyped'
  BY <1>1, TypeOKGroups DEF IInv, ClockTyped, timer, posting
<1>3. Scans({})
  BY <1>1 DEF Scans, timer
<1> QED
  BY <1>1, <1>2, <1>3, LooksInv

(* An alarm is freed by awake_timer or by awake_ringer. *)
LEMMA FreesOneInv ==
  ASSUME IInv, NEW a \in Alarm, where[a] # "new", Free({a}), ClockTyped', Scans({a}),
         \A p \in Proc, l \in Level : elapsed[p][l] # a,
         UNCHANGED <<now, wakeups, notes, rendez, pc, call, posting>>
  PROVE  IInv'
<1> USE DEF wakeups, notes, call
<1>1. AlarmsTyped' /\ Frees({a})
  BY FreeFrees
<1>2. TypeOK'
  BY <1>1, TypeOKGroups
  DEF IInv, WakeupsTyped, NotesTyped, RendezTyped, CallsTyped, rendez
<1>3. now' >= now
  BY TypeOKGroups, NeverIsLast DEF IInv, ClockTyped
<1>4. Takes({a}) /\ Notes({a})
  BY DEF Takes, Notes
<1>5. Shrinks({a})
  BY <1>1, <1>3, <1>4 DEF Shrinks, StaysInExec
<1> QED
  BY <1>2, <1>5, ShrinksInv, SameRendez, SameRequests DEF IInv

(* awake_dispatch; its panic is reached only of a process in exec. *)
LEMMA DispatchInv ==
  ASSUME IInv, NEW a \in Alarm, Dispatch(a)
  PROVE  IInv'
<1>1. /\ rpc = "ring" /\ a \in ring /\ ring' = ring \ {a}
      /\ UNCHANGED <<program, now, next_wakeup, wakeups, notes, rendez, pc, call, timer, posting>>
  BY DEF Dispatch
<1>2. ClockTyped /\ AlarmsTyped /\ NotesTyped
  BY TypeOKGroups DEF IInv
<1>3. a \in In("pending") /\ a \notin todo
  BY <1>1 DEF IInv, AlarmInv, Lists, Registry, In
<1>4. owner[a] \in Proc /\ level[a] \in Level
  BY <1>3, PendingHasOwner DEF In
<1>5. CASE rpc' = "ring" /\ UNCHANGED <<alarms, rwho>>
  <2>1. ClockTyped'
    BY <1>1, <1>2, <1>5 DEF ClockTyped, timer, posting
  <2>2. Scans({})
    BY <1>1, <1>5 DEF Scans, timer
  <2> QED
    BY <1>1, <1>5, <2>1, <2>2, LooksInv
<1>6. CASE elapsed[owner[a]][level[a]] # a /\ Free({a}) /\ UNCHANGED <<rpc, rwho>>
  <2>1. ClockTyped'
    BY <1>1, <1>2, <1>6 DEF ClockTyped, timer, posting
  <2>2. Scans({a})
    BY <1>1, <1>3, <1>6 DEF Scans, timer
  <2>3. \A p \in Proc, l \in Level : elapsed[p][l] # a
    BY <1>6, AwakeAssumption DEF IInv, AlarmInv, AlarmsInOrder
  <2> QED
    BY <1>1, <1>3, <1>6, <2>1, <2>2, <2>3, FreesOneInv DEF In
<1>7. CASE /\ elapsed[owner[a]][level[a]] = a /\ level[a] > notified[owner[a]]
           /\ rpc' = "panic" /\ rwho' = a /\ UNCHANGED alarms
  <2>1. level[a] = 1 /\ notified[owner[a]] = 0
    BY <1>2, <1>4, <1>7 DEF NotesTyped, Level
  <2>2. pc[owner[a]] = "exec"
    BY <1>4, <1>7, <2>1, AwakeAssumption DEF IInv, AlarmInv, HandlerAlarmsDeleted
  <2>3. ClockTyped'
    BY <1>1, <1>2, <1>7 DEF ClockTyped, timer, posting
  <2>4. Scans({})
    BY <1>1, <1>3, <1>7, <2>2 DEF Scans, timer
  <2> QED
    BY <1>1, <1>7, <2>3, <2>4, LooksInv
<1>8. CASE rpc' = "pull" /\ rwho' = a /\ UNCHANGED alarms
  <2>1. ClockTyped'
    BY <1>1, <1>2, <1>8 DEF ClockTyped, timer, posting
  <2>2. Scans({})
    BY <1>1, <1>3, <1>8 DEF Scans, timer
  <2> QED
    BY <1>1, <1>8, <2>1, <2>2, LooksInv
<1> QED
  BY <1>1, <1>5, <1>6, <1>7, <1>8, Zenon DEF Dispatch

-----------------------------------------------------------------------------
(* Alarms that elapsed go from list to list. *)
LEMMA PassesInv ==
  ASSUME IInv, TypeOK',
         \A a \in Alarm : \/ where'[a] = where[a]
                          \/ where[a] = "toawake" /\ where'[a] = "elapsed"
                          \/ where[a] = "elapsed" /\ where'[a] = "pending",
         ring' \subseteq In("pending")', rpc' \in {"pull", "panic"} => rwho' \in In("pending")',
         rpc' = "panic" => rpc = "panic" /\ rwho' = rwho,
         todo' = todo, todo # {} => tpc' = "scan",
         UNCHANGED <<now, owner, level, time, passed, wakeups, notes, rendez, pc, call, posting>>
  PROVE  IInv'
<1> USE DEF wakeups, notes, call
<1>1. AlarmsTyped /\ WakeupsTyped /\ CallsTyped /\ ClockTyped
  BY TypeOKGroups DEF IInv
<1>2. Registry' = Registry /\ In("new")' = In("new")
  BY DEF Registry, In
<1>3. Lists'
  <2>1. \A a \in passed : where'[a] \notin {"free", "new"}
    BY <1>1 DEF IInv, AlarmInv, Lists, AlarmsTyped
  <2>2. \A a \in Alarm : where'[a] = "free" <=> owner[a] = None
    BY DEF IInv, AlarmInv, Lists
  <2> QED
    BY <1>2, <2>1, <2>2 DEF IInv, AlarmInv, Lists
<1>4. News'
  BY <1>2 DEF IInv, AlarmInv, News
<1>5. HandlerAlarmsDeleted'
  BY <1>2 DEF IInv, AlarmInv, HandlerAlarmsDeleted
<1>6. AlarmsInOrder'
  <2>1. ASSUME NEW p \in Proc, NEW l \in Level, NEW a, a = elapsed[p][l], a # None
        PROVE  /\ owner[a] = p /\ level[a] = l /\ where'[a] \in {"toawake", "elapsed", "pending"}
               /\ a \in passed \/ time[a] > last[p][l]
    <3>1. a \in Alarm
      BY <1>1, <2>1 DEF WakeupsTyped
    <3> QED
      BY <2>1, <3>1 DEF IInv, AlarmInv, AlarmsInOrder
  <2>2. /\ \A a \in Registry : a \in passed \/ time[a] > last[owner[a]][level[a]]
        /\ \A a \in passed : time[a] <= now
    BY DEF IInv, AlarmInv, AlarmsInOrder
  <2> QED
    BY <1>2, <2>1, <2>2 DEF AlarmsInOrder
<1>7. Order'
  BY <1>2 DEF IInv, AlarmInv, Order
<1> QED
  BY <1>3, <1>4, <1>5, <1>6, <1>7, SameRendez, SameRequests DEF IInv, AlarmInv

(* awake_timer hands over what elapsed, and awake_ringer takes it. *)
LEMMA HandOverInv == ASSUME IInv, TimerPass \/ RingerCheck PROVE IInv'
<1> USE DEF wakeups, notes, call
<1>1. AlarmsTyped /\ ClockTyped
  BY TypeOKGroups DEF IInv
<1>2. /\ UNCHANGED <<program, now, next_wakeup, owner, level, done, time, passed, wakeups, notes, rendez, pc,
                     call, tnext, todo, rwho, posting>>
      /\ ring' \subseteq Alarm
  BY <1>1 DEF TimerPass, RingerCheck, timer, ringer, ClockTyped, In
<1>3. /\ where' \in [Alarm -> {"free", "new", "registry", "toawake", "elapsed", "pending"}]
      /\ \A a \in Alarm : \/ where'[a] = where[a]
                          \/ where[a] = "toawake" /\ where'[a] = "elapsed"
                          \/ where[a] = "elapsed" /\ where'[a] = "pending"
  <2>1. CASE TimerPass
    BY <1>1, <2>1 DEF TimerPass, AlarmsTyped
  <2>2. CASE RingerCheck
    BY <1>1, <2>2 DEF RingerCheck, AlarmsTyped
  <2> QED
    BY <2>1, <2>2
<1>4. TypeOK'
  <2>1. ClockTyped'
    BY <1>1, <1>2 DEF ClockTyped, posting
  <2>2. AlarmsTyped'
    BY <1>1, <1>2, <1>3 DEF AlarmsTyped
  <2> QED
    BY <1>2, <2>1, <2>2, TypeOKGroups
    DEF IInv, WakeupsTyped, NotesTyped, RendezTyped, CallsTyped, rendez
<1>5. /\ ring' \subseteq In("pending")'
      /\ rpc' \in {"pull", "panic"} => rwho' \in In("pending")'
      /\ rpc' = "panic" => rpc = "panic" /\ rwho' = rwho
      /\ todo # {} => tpc' = "scan"
  <2>1. CASE TimerPass
    <3>1. todo = {} /\ UNCHANGED ringer
      BY <2>1, NothingToDo DEF TimerPass
    <3>2. In("pending")' = In("pending")
      BY <1>1, <2>1 DEF TimerPass, AlarmsTyped, In
    <3> QED
      BY <3>1, <3>2 DEF ringer, IInv, AlarmInv, Lists, HandlerAlarmsDeleted
  <2>2. CASE RingerCheck
    <3>1. rpc' = "ring" /\ UNCHANGED timer
      BY <2>2 DEF RingerCheck
    <3>2. ring' \subseteq In("pending")'
      BY <1>1, <2>2 DEF RingerCheck, AlarmsTyped, In
    <3> QED
      BY <3>1, <3>2 DEF timer, IInv, AlarmInv, Lists
  <2> QED
    BY <2>1, <2>2
<1> QED
  BY <1>2, <1>3, <1>4, <1>5, PassesInv

(* The scan begins, with what is due. *)
LEMMA TimerCheckInv == ASSUME IInv, TimerCheck PROVE IInv'
<1> USE DEF alarms, wakeups, notes, call, ringer
<1>1. /\ tpc = "check" /\ tpc' = "scan" /\ next_wakeup' = Never
      /\ todo' = {a \in Registry : time[a] <= now}
      /\ UNCHANGED <<program, now, alarms, wakeups, notes, rendez, pc, call, tnext, ringer, posting>>
  BY DEF TimerCheck
<1>2. ClockTyped /\ AlarmsTyped
  BY TypeOKGroups DEF IInv
<1>3. ClockTyped'
  <2>1. Never \in 0..Never /\ todo' \subseteq Alarm
    BY <1>1, NeverIsLast DEF Registry, In
  <2> QED
    BY <1>1, <1>2, <2>1 DEF ClockTyped, posting
<1>4. TypeOK'
  BY <1>1, <1>3, TypeOKGroups
  DEF IInv, AlarmsTyped, WakeupsTyped, NotesTyped, RendezTyped, CallsTyped, rendez
<1>5. Registry' = Registry /\ In("new")' = In("new") /\ In("pending")' = In("pending")
  BY <1>1 DEF Registry, In
<1>6. Lists' /\ News' /\ HandlerAlarmsDeleted'
  <2>1. Lists'
    BY <1>1, <1>5 DEF IInv, AlarmInv, Lists
  <2>2. News'
    BY <1>1, <1>5 DEF IInv, AlarmInv, News
  <2>3. HandlerAlarmsDeleted'
    BY <1>1, <1>5 DEF IInv, AlarmInv, HandlerAlarmsDeleted
  <2> QED
    BY <2>1, <2>2, <2>3
<1>7. AlarmsInOrder'
  BY <1>1, <1>5 DEF IInv, AlarmInv, AlarmsInOrder
<1>8. Order'
  <2>1. ASSUME NEW a \in todo', NEW b \in Registry \ todo'
        PROVE  time[a] <= now /\ time[a] < time[b]
    <3>1. time[a] \in Nat /\ time[b] \in Nat /\ now \in Nat
      BY <1>1, <1>2, NeverIsLast DEF AlarmsTyped, ClockTyped, Registry, In
    <3> QED
      BY <1>1, <2>1, <3>1
  <2>2. \A a \in todo' : time[a] <= now
    BY <1>1
  <2> QED
    BY <1>1, <1>5, <2>1, <2>2 DEF IInv, AlarmInv, Order
<1> QED
  BY <1>1, <1>4, <1>6, <1>7, <1>8, SameRendez, SameRequests DEF IInv, AlarmInv

(* An alarm due is passed over. *)
LEMMA PassOverInv ==
  ASSUME IInv, NEW a \in todo, tpc' = tpc, todo' = todo \ {a}, passed' = passed \cup {a},
         UNCHANGED <<program, now, next_wakeup, where, owner, level, done, time, wakeups, notes, rendez, pc,
                     call, tnext, ringer, posting>>
  PROVE  IInv'
<1> USE DEF wakeups, notes, call, ringer
<1>1. ClockTyped /\ AlarmsTyped
  BY TypeOKGroups DEF IInv
<1>2. a \in Alarm /\ a \in Registry /\ time[a] <= now /\ where[a] = "registry"
  BY DEF IInv, AlarmInv, Lists, Order, Registry, In
<1>3. TypeOK'
  <2>1. ClockTyped'
    BY <1>1 DEF ClockTyped, posting
  <2>2. AlarmsTyped'
    BY <1>1, <1>2 DEF AlarmsTyped
  <2> QED
    BY <2>1, <2>2, TypeOKGroups
    DEF IInv, WakeupsTyped, NotesTyped, RendezTyped, CallsTyped, rendez
<1>4. Registry' = Registry /\ In("new")' = In("new") /\ In("pending")' = In("pending")
  BY DEF Registry, In
<1>5. Lists'
  BY <1>2, <1>4 DEF IInv, AlarmInv, Lists
<1>6. News' /\ HandlerAlarmsDeleted'
  BY <1>4 DEF IInv, AlarmInv, News, HandlerAlarmsDeleted
<1>7. AlarmsInOrder'
  BY <1>2, <1>4 DEF IInv, AlarmInv, AlarmsInOrder
<1>8. Order'
  <2>1. ASSUME NEW c \in todo'
        PROVE  time[c] <= now /\ \A b \in Registry \ (todo' \cup passed') : time[c] < time[b]
    <3>1. Registry \ (todo' \cup passed') \subseteq Registry \ (todo \cup passed)
      OBVIOUS
    <3> QED
      BY <3>1 DEF IInv, AlarmInv, Order
  <2> QED
    BY <1>4, <2>1 DEF IInv, AlarmInv, Order
<1> QED
  BY <1>3, <1>5, <1>6, <1>7, <1>8, SameRendez, SameRequests DEF IInv, AlarmInv

(* An alarm due elapses: of those of its process and level that were not   *)
(* passed over it is the earliest, since no two have the same time.        *)
LEMMA ElapsesInv ==
  ASSUME IInv, NEW a \in todo, \A b \in todo : time[a] <= time[b],
         NEW p, p = owner[a], NEW l, l = level[a], elapsed[p][l] = None,
         tpc' = tpc, todo' = todo \ {a},
         elapsed' = [elapsed EXCEPT ![p][l] = a],
         where' = [where EXCEPT ![a] = "toawake"],
         UNCHANGED <<program, now, next_wakeup, owner, level, done, time, passed, blocking, last, notes,
                     rendez, pc, call, tnext, ringer, posting>>
  PROVE  IInv'
<1> USE DEF notes, call, ringer
<1>1. ClockTyped /\ AlarmsTyped /\ WakeupsTyped /\ NotesTyped
  BY TypeOKGroups DEF IInv
<1>2. a \in Alarm /\ a \in Registry /\ time[a] <= now /\ where[a] = "registry"
  BY DEF IInv, AlarmInv, Lists, Order, Registry, In
<1>3. p \in Proc /\ l \in Level
  BY <1>2, PendingHasOwner
<1>4. elapsed' \in [Proc -> [Level -> Alarm \cup {None}]]
  <2>1. a \in Alarm \cup {None} /\ elapsed \in [Proc -> [Level -> Alarm \cup {None}]]
    BY <1>1, <1>2 DEF WakeupsTyped
  <2>2. [elapsed EXCEPT ![p][l] = a] \in [Proc -> [Level -> Alarm \cup {None}]]
    BY <1>3, <2>1, OneLevel
  <2> QED
    BY <2>2
<1>5. elapsed'[p][l] = a /\ \A q \in Proc, k \in Level : (q # p \/ k # l) => elapsed'[q][k] = elapsed[q][k]
  BY <1>1, <1>3 DEF WakeupsTyped
<1>6. where'[a] = "toawake" /\ \A b \in Alarm : b # a => where'[b] = where[b]
  BY <1>1, <1>2 DEF AlarmsTyped
<1>7. TypeOK'
  <2>1. ClockTyped'
    BY <1>1 DEF ClockTyped, posting
  <2>2. AlarmsTyped'
    BY <1>1, <1>2 DEF AlarmsTyped
  <2>3. WakeupsTyped'
    BY <1>1, <1>4 DEF WakeupsTyped
  <2> QED
    BY <2>1, <2>2, <2>3, TypeOKGroups DEF IInv, NotesTyped, RendezTyped, CallsTyped, rendez
<1>8. Registry' = Registry \ {a} /\ In("new")' = In("new") /\ In("pending")' = In("pending")
  BY <1>2, <1>6 DEF Registry, In
<1>9. Lists'
  <2>1. \A b \in Alarm : where'[b] = "free" <=> owner[b] = None
    BY <1>2, <1>6 DEF IInv, AlarmInv, Lists
  <2>2. \A b \in passed : where'[b] \notin {"free", "new"}
    BY <1>1, <1>6 DEF IInv, AlarmInv, Lists, AlarmsTyped
  <2> QED
    BY <1>8, <2>1, <2>2 DEF IInv, AlarmInv, Lists
<1>10. News'
  BY <1>8 DEF IInv, AlarmInv, News
<1>11. HandlerAlarmsDeleted'
  <2>1. ASSUME NEW q \in Proc, notified[q] = 0, pc[q] # "exec"
        PROVE  elapsed'[q][1] = None /\ \A b \in Registry' : ~(owner[b] = q /\ level[b] = 1)
    <3>1. elapsed[q][1] = None /\ \A b \in Registry : ~(owner[b] = q /\ level[b] = 1)
      BY <2>1 DEF IInv, AlarmInv, HandlerAlarmsDeleted
    <3>2. q # p \/ l # 1
      BY <1>2, <3>1
    <3> QED
      BY <1>5, <1>8, <3>1, <3>2 DEF Level
  <2>2. rpc = "panic" => pc[owner[rwho]] \in {"exec", "reap"}
    BY DEF IInv, AlarmInv, HandlerAlarmsDeleted
  <2> QED
    BY <2>1, <2>2 DEF HandlerAlarmsDeleted
<1>12. AlarmsInOrder'
  <2>1. ASSUME NEW q \in Proc, NEW k \in Level, NEW e, e = elapsed'[q][k], e # None
        PROVE  /\ owner[e] = q /\ level[e] = k /\ where'[e] \in {"toawake", "elapsed", "pending"}
               /\ e \in passed \/ time[e] > last[q][k]
    <3>1. CASE q = p /\ k = l
      <4>1. e = a
        BY <1>5, <2>1, <3>1
      <4>2. a \in passed \/ time[a] > last[p][l]
        BY <1>2 DEF IInv, AlarmInv, AlarmsInOrder
      <4> QED
        BY <1>6, <3>1, <4>1, <4>2
    <3>2. CASE q # p \/ k # l
      <4>1. e = elapsed[q][k] /\ e \in Alarm
        BY <1>1, <1>5, <2>1, <3>2 DEF WakeupsTyped
      <4>2. /\ owner[e] = q /\ level[e] = k /\ where[e] \in {"toawake", "elapsed", "pending"}
            /\ e \in passed \/ time[e] > last[q][k]
        BY <2>1, <4>1 DEF IInv, AlarmInv, AlarmsInOrder
      <4> QED
        BY <1>6, <4>1, <4>2
    <3> QED
      BY <3>1, <3>2
  <2>2. /\ \A b \in Registry' : b \in passed \/ time[b] > last[owner[b]][level[b]]
        /\ \A b \in passed : time[b] <= now
    BY <1>8 DEF IInv, AlarmInv, AlarmsInOrder
  <2> QED
    BY <2>1, <2>2 DEF AlarmsInOrder
<1>13. Order'
  <2>1. \A b, c \in Registry' : owner[b] = owner[c] /\ time[b] = time[c] => b = c
    BY <1>8 DEF IInv, AlarmInv, Order
  <2>2. ASSUME NEW q \in Proc, NEW k \in Level
        PROVE  last[q][k] <= now /\ (elapsed'[q][k] # None => time[elapsed'[q][k]] <= now)
    BY <1>2, <1>5 DEF IInv, AlarmInv, Order
  <2>3. ASSUME NEW c \in todo'
        PROVE  time[c] <= now /\ \A b \in Registry' \ (todo' \cup passed) : time[c] < time[b]
    <3>1. Registry' \ (todo' \cup passed) \subseteq Registry \ (todo \cup passed)
      BY <1>8
    <3> QED
      BY <3>1 DEF IInv, AlarmInv, Order
  <2>4. ASSUME NEW q \in Proc, NEW k \in Level, NEW b \in Registry' \ passed,
               elapsed'[q][k] # None, owner[b] = q, level[b] = k
        PROVE  time[b] > time[elapsed'[q][k]]
    <3>1. CASE q = p /\ k = l
      <4>1. b \in Registry /\ b # a /\ time[b] # time[a]
        BY <1>2, <1>8, <2>4, <3>1 DEF IInv, AlarmInv, Order
      <4>2. time[a] \in Nat /\ time[b] \in Nat
        BY <1>1, <1>2, <4>1, NeverIsLast DEF AlarmsTyped, Registry, In
      <4>3. CASE b \in todo
        BY <1>5, <3>1, <4>1, <4>2, <4>3
      <4>4. CASE b \notin todo
        <5>1. time[a] < time[b]
          BY <2>4, <4>1, <4>4 DEF IInv, AlarmInv, Order
        <5> QED
          BY <1>5, <3>1, <4>2, <5>1
      <4> QED
        BY <4>3, <4>4
    <3>2. CASE q # p \/ k # l
      BY <1>5, <1>8, <2>4, <3>2 DEF IInv, AlarmInv, Order
    <3> QED
      BY <3>1, <3>2
  <2> QED
    BY <2>1, <2>2, <2>3, <2>4 DEF Order
<1> QED
  BY <1>7, <1>9, <1>10, <1>11, <1>12, <1>13, SameRendez, SameRequests DEF IInv, AlarmInv

(* One step of the scan. *)
LEMMA TimerScanInv == ASSUME IInv, TimerScan PROVE IInv'
<1>1. ClockTyped /\ AlarmsTyped
  BY TypeOKGroups DEF IInv
<1>2. todo # {} /\ tpc = "scan"
  BY DEF TimerScan
<1>3. PICK a \in todo : a = Earliest(todo) /\ \A b \in todo : time[a] <= time[b]
  BY <1>1, <1>2, EarliestIsFirst DEF AlarmsTyped, ClockTyped
<1>4. a \in Alarm /\ where[a] = "registry"
  BY DEF IInv, AlarmInv, Lists, Registry, In
<1>5. /\ todo' = todo \ {a} /\ tpc' = tpc
      /\ UNCHANGED <<program, now, next_wakeup, blocking, last, notes, rendez, pc, call, tnext, ringer,
                     posting>>
  BY <1>3 DEF TimerScan
<1>6. CASE Free({a}) /\ UNCHANGED elapsed
  <2>1. ClockTyped'
    BY <1>1, <1>5 DEF ClockTyped, ringer, posting
  <2>2. Scans({a})
    <3>1. a \notin In("pending")
      BY <1>4 DEF In
    <3>2. /\ a \notin ring /\ (rpc \in {"pull", "panic"} => rwho \in In("pending") /\ rwho # a)
          /\ rpc = "panic" => pc[owner[rwho]] \in {"exec", "reap"}
      BY <3>1 DEF IInv, AlarmInv, Lists, HandlerAlarmsDeleted
    <3> QED
      BY <1>5, <3>2 DEF Scans, ringer
  <2>3. \A p \in Proc, k \in Level : elapsed[p][k] # a
    BY <1>4, AwakeAssumption DEF IInv, AlarmInv, AlarmsInOrder
  <2> QED
    BY <1>4, <1>5, <1>6, <2>1, <2>2, <2>3, FreesOneInv DEF wakeups
<1>7. CASE passed' = passed \cup {a} /\ UNCHANGED <<where, owner, level, done, time, elapsed>>
  BY <1>5, <1>7, PassOverInv DEF wakeups
<1>8. CASE /\ elapsed[owner[a]][level[a]] = None
           /\ elapsed' = [elapsed EXCEPT ![owner[a]][level[a]] = a]
           /\ where' = [where EXCEPT ![a] = "toawake"]
           /\ UNCHANGED <<owner, level, done, time, passed>>
  <2>1. PICK p, l : p = owner[a] /\ l = level[a]
    OBVIOUS
  <2> QED
    BY <1>3, <1>5, <1>8, <2>1, ElapsesInv
<1> QED
  BY <1>3, <1>6, <1>7, <1>8, Zenon DEF TimerScan

-----------------------------------------------------------------------------
(* alarm_new takes an alarm that is free. *)
LEMMA AlarmNewTakes ==
  ASSUME IInv, NEW p \in Proc, AlarmNew(p)
  PROVE  \E a \in In("free") :
           /\ where' = [where EXCEPT ![a] = "new"]
           /\ owner' = [owner EXCEPT ![a] = p]
           /\ level' = [level EXCEPT ![a] = notified[p]]
           /\ done' = [done EXCEPT ![a] = FALSE]
           /\ time' = [time EXCEPT ![a] = 0]
<1>1. In("free") # {}
  <2>1. IsFiniteSet(Alarm)
    BY NeverIsLast, FS_Interval DEF Alarm
  <2>2. Cardinality(Of(p)) \in Nat
    <3>1. Of(p) \subseteq Alarm
      BY DEF Of
    <3> QED
      BY <2>1, <3>1, FS_Subset, FS_CardinalityType
  <2>3. Cardinality(In("free")) > 2 * Cardinality(Of(p))
    BY DEF AlarmNew
  <2>4. In("free") = {} => Cardinality(In("free")) = 0
    BY FS_EmptySet
  <2> QED
    BY <2>2, <2>3, <2>4
<1>2. In("free") \in SUBSET Nat
  BY NeverIsLast DEF In, Alarm
<1>3. PICK a \in In("free") :
        a = CHOOSE x \in In("free") : \A y \in In("free") : x <= y
  <2>1. \E x \in In("free") : \A y \in In("free") : x <= y
    BY <1>1, <1>2, Smallest
  <2> QED
    BY <2>1
<1> QED
  BY <1>3 DEF AlarmNew

(* A new alarm of the process and the level it is at. *)
LEMMA AlarmNewInv ==
  ASSUME IInv, NEW p \in Proc, AlarmNew(p)
  PROVE  IInv'
<1> USE DEF wakeups, notes, call, timer, ringer
<1>1. PICK a \in In("free") : /\ where' = [where EXCEPT ![a] = "new"]
                              /\ owner' = [owner EXCEPT ![a] = p]
                              /\ level' = [level EXCEPT ![a] = notified[p]]
                              /\ done' = [done EXCEPT ![a] = FALSE]
                              /\ time' = [time EXCEPT ![a] = 0]
  BY AlarmNewTakes
<1>2. /\ pc[p] = "user" /\ pc' = [pc EXCEPT ![p] = "register"]
      /\ UNCHANGED <<program, now, next_wakeup, passed, wakeups, notes, rendez, call, timer, ringer, posting>>
  BY DEF AlarmNew, Can, Goto
<1>3. AlarmsTyped /\ WakeupsTyped /\ NotesTyped /\ CallsTyped /\ ClockTyped
  BY TypeOKGroups DEF IInv
<1>4. a \in Alarm /\ where[a] = "free" /\ notified[p] \in Level
  BY <1>3 DEF In, NotesTyped
<1>5. TypeOK'
  <2>1. AlarmsTyped'
    <3>1. /\ where' \in [Alarm -> {"free", "new", "registry", "toawake", "elapsed", "pending"}]
          /\ owner' \in [Alarm -> Proc \cup {None}]
      BY <1>1, <1>3 DEF AlarmsTyped
    <3>2. level' \in [Alarm -> Level] /\ done' \in [Alarm -> BOOLEAN]
      BY <1>1, <1>3, <1>4 DEF AlarmsTyped
    <3>3. time' \in [Alarm -> 0..Never]
      <4>1. 0 \in 0..Never
        BY NeverIsLast
      <4> QED
        BY <1>1, <1>3, <4>1 DEF AlarmsTyped
    <3> QED
      BY <1>2, <1>3, <3>1, <3>2, <3>3 DEF AlarmsTyped
  <2>2. CallsTyped'
    BY <1>2, <1>3 DEF CallsTyped
  <2> QED
    BY <1>2, <2>1, <2>2, TypeOKGroups
    DEF IInv, WakeupsTyped, NotesTyped, RendezTyped, ClockTyped, rendez, posting
<1>6. /\ where'[a] = "new" /\ owner'[a] = p /\ level'[a] = notified[p]
      /\ \A b \in Alarm : b # a => /\ where'[b] = where[b] /\ owner'[b] = owner[b]
                                   /\ level'[b] = level[b] /\ time'[b] = time[b]
  BY <1>1, <1>3, <1>4 DEF AlarmsTyped
<1>7. pc'[p] = "register" /\ \A q \in Proc : q # p => pc'[q] = pc[q]
  BY <1>2, <1>3 DEF CallsTyped
<1>8. /\ Registry' = Registry /\ In("new")' = In("new") \cup {a} /\ In("pending")' = In("pending")
      /\ a \notin Registry /\ a \notin In("new")
  BY <1>4, <1>6 DEF Registry, In
<1>9. a \notin passed /\ \A q \in Proc, l \in Level : elapsed[q][l] # a
  BY <1>4, AwakeAssumption DEF IInv, AlarmInv, Lists, AlarmsInOrder
<1>10. \A b \in Registry : b \in Alarm /\ owner'[b] = owner[b] /\ level'[b] = level[b] /\ time'[b] = time[b]
  BY <1>6, <1>8 DEF Registry, In
<1>11. Lists'
  <2>1. p # None
    BY AwakeAssumption
  <2>2. \A b \in Alarm : where'[b] = "free" <=> owner'[b] = None
    BY <1>6, <2>1 DEF IInv, AlarmInv, Lists
  <2>3. \A b \in passed : where'[b] \notin {"free", "new"}
    BY <1>3, <1>6, <1>9 DEF IInv, AlarmInv, Lists, AlarmsTyped
  <2> QED
    BY <1>2, <1>8, <2>2, <2>3 DEF IInv, AlarmInv, Lists
<1>12. News'
  <2>1. \A b \in In("new") : /\ owner'[b] = owner[b] /\ level'[b] = level[b]
                             /\ pc[owner[b]] = "register" /\ owner[b] # p /\ owner[b] \in Proc
                             /\ level[b] = notified[owner[b]]
    <3>1. \A b \in In("new") : b \in Alarm /\ owner[b] \in Proc /\ b # a
      BY <1>8, PendingHasOwner DEF In
    <3> QED
      BY <1>2, <1>6, <3>1 DEF IInv, AlarmInv, News
  <2>2. \A b \in In("new")' : pc'[owner'[b]] = "register" /\ level'[b] = notified'[owner'[b]]
    BY <1>2, <1>6, <1>7, <1>8, <2>1
  <2>3. \A b, c \in In("new")' : owner'[b] = owner'[c] => b = c
    BY <1>6, <1>8, <2>1 DEF IInv, AlarmInv, News
  <2>4. \A q \in Proc : pc'[q] = "register" => \E b \in In("new")' : owner'[b] = q
    BY <1>6, <1>7, <1>8, <2>1 DEF IInv, AlarmInv, News
  <2> QED
    BY <2>2, <2>3, <2>4 DEF News
<1>13. HandlerAlarmsDeleted'
  <2>1. ASSUME rpc = "panic" PROVE pc'[owner'[rwho]] \in {"exec", "reap"}
    <3>1. rwho \in Alarm /\ where[rwho] = "pending" /\ pc[owner[rwho]] \in {"exec", "reap"}
      BY <2>1 DEF IInv, AlarmInv, Lists, HandlerAlarmsDeleted, In
    <3>2. owner'[rwho] = owner[rwho] /\ owner[rwho] \in Proc
      BY <1>4, <1>6, <3>1, PendingHasOwner
    <3> QED
      BY <1>2, <1>7, <3>1, <3>2
  <2>2. ASSUME NEW q \in Proc, notified[q] = 0, pc'[q] # "exec"
        PROVE  elapsed[q][1] = None /\ \A b \in Registry : ~(owner[b] = q /\ level[b] = 1)
    BY <1>2, <1>7, <2>2 DEF IInv, AlarmInv, HandlerAlarmsDeleted
  <2> QED
    BY <1>2, <1>8, <1>10, <2>1, <2>2 DEF HandlerAlarmsDeleted
<1>14. ASSUME NEW q \in Proc, NEW l \in Level, NEW e, e = elapsed[q][l], e # None
       PROVE  /\ e \in Alarm /\ owner'[e] = owner[e] /\ level'[e] = level[e]
              /\ where'[e] = where[e] /\ time'[e] = time[e]
  <2>1. e \in Alarm /\ e # a
    BY <1>3, <1>9, <1>14 DEF WakeupsTyped
  <2> QED
    BY <1>6, <2>1
<1>15. AlarmsInOrder'
  <2>1. ASSUME NEW q \in Proc, NEW l \in Level, NEW e, e = elapsed'[q][l], e # None
        PROVE  /\ owner'[e] = q /\ level'[e] = l /\ where'[e] \in {"toawake", "elapsed", "pending"}
               /\ e \in passed' \/ time'[e] > last'[q][l]
    BY <1>2, <1>14, <2>1 DEF IInv, AlarmInv, AlarmsInOrder
  <2>2. \A b \in Registry' : b \in passed' \/ time'[b] > last'[owner'[b]][level'[b]]
    BY <1>2, <1>8, <1>10 DEF IInv, AlarmInv, AlarmsInOrder
  <2>3. \A b \in passed' : time'[b] <= now'
    BY <1>2, <1>3, <1>6, <1>9 DEF IInv, AlarmInv, AlarmsInOrder, AlarmsTyped
  <2> QED
    BY <2>1, <2>2, <2>3 DEF AlarmsInOrder
<1>16. Order'
  <2>1. \A b, c \in Registry' : owner'[b] = owner'[c] /\ time'[b] = time'[c] => b = c
    BY <1>8, <1>10 DEF IInv, AlarmInv, Order
  <2>2. ASSUME NEW q \in Proc, NEW l \in Level
        PROVE  last'[q][l] <= now' /\ (elapsed'[q][l] # None => time'[elapsed'[q][l]] <= now')
    BY <1>2, <1>14 DEF IInv, AlarmInv, Order
  <2>3. ASSUME NEW c \in todo'
        PROVE  time'[c] <= now' /\ \A b \in Registry' \ (todo' \cup passed') : time'[c] < time'[b]
    <3>1. c \in todo /\ c \in Registry
      BY <1>2 DEF IInv, AlarmInv, Lists
    <3> QED
      BY <1>2, <1>8, <1>10, <3>1 DEF IInv, AlarmInv, Order
  <2>4. ASSUME NEW q \in Proc, NEW l \in Level, NEW b \in Registry' \ passed',
               elapsed'[q][l] # None, owner'[b] = q, level'[b] = l
        PROVE  time'[b] > time'[elapsed'[q][l]]
    BY <1>2, <1>8, <1>10, <1>14, <2>4 DEF IInv, AlarmInv, Order
  <2> QED
    BY <2>1, <2>2, <2>3, <2>4 DEF Order
<1>17. \A q \in Proc : \/ pc'[q] = pc[q]
                       \/ /\ pc[q] \notin {"blocked", "meet"}
                          /\ pc'[q] \notin {"blocked", "meet"}
  BY <1>2, <1>7
<1>18. \A q \in Proc : pc'[q] = "remove" => pc[q] = "remove"
  BY <1>7
<1> QED
  BY <1>2, <1>5, <1>11, <1>12, <1>13, <1>15, <1>16, <1>17, <1>18, SameRendez, SameRequests
  DEF IInv, AlarmInv

(* What awake_register does with its alarm a: it comes at t, a tick of its *)
(* own later than now, and alarms forgotten before it are freed.           *)
Registers(p, a, t, gone) ==
  /\ owner[a] = p /\ t > now
  /\ gone = {b \in Registry : done[b] /\ time[b] <= t}
  /\ \A b \in Registry \ gone : owner[b] = p => time[b] # t
  /\ where' = [b \in Alarm |-> IF b = a THEN "registry" ELSE IF b \in gone THEN "free" ELSE where[b]]
  /\ owner' = [b \in Alarm |-> IF b \in gone THEN None ELSE owner[b]]
  /\ level' = [b \in Alarm |-> IF b \in gone THEN 0 ELSE level[b]]
  /\ done' = [b \in Alarm |-> done[b] /\ b \notin gone]
  /\ time' = [b \in Alarm |-> IF b = a THEN t ELSE IF b \in gone THEN 0 ELSE time[b]]
  /\ passed' = passed \ gone
  /\ LET left == (Registry \ gone) \cup {a} IN
     next_wakeup' = CHOOSE u \in 0..Never : /\ \E b \in left : u = time'[b]
                                            /\ \A c \in left : u <= time'[c]

(* awake_register finds its alarm and the tick. *)
LEMMA RegisterAt ==
  ASSUME IInv, NEW p \in Proc, NEW d \in Delays, AwakeRegister(p, d)
  PROVE  \E a \in In("new"), t \in 0..Never, gone \in SUBSET Registry : Registers(p, a, t, gone)
<1>1. AlarmsTyped /\ ClockTyped
  BY TypeOKGroups DEF IInv
<1>2. PICK a : a = CHOOSE x \in Of(p) : where[x] = "new"
  OBVIOUS
<1>3. a \in In("new") /\ owner[a] = p
  <2>1. pc[p] = "register"
    BY DEF AwakeRegister
  <2>2. \E x \in Of(p) : where[x] = "new"
    BY <2>1 DEF IInv, AlarmInv, News, Of, In
  <2>3. a \in Of(p) /\ where[a] = "new"
    BY <1>2, <2>2
  <2> QED
    BY <2>3 DEF Of, In
<1>4. PICK s : s = now + d + 1
  OBVIOUS
<1>5. s \in Nat /\ s > now /\ s + PoolSize <= Never /\ PoolSize \in Nat /\ now \in Nat /\ Never \in Nat
  BY <1>1, <1>4, NeverIsLast DEF ClockTyped
<1>6. PICK t : t = Slot(p, s)
  OBVIOUS
<1>7. t \in s..(s + PoolSize) /\ \A b \in Registry \cap Of(p) : ~done[b] => time[b] # t
  BY <1>1, <1>5, <1>6, SlotIsFree DEF AlarmsTyped
<1>8. t \in 0..Never /\ t > now
  BY <1>5, <1>7
<1>9. PICK gone : gone = {b \in Registry : done[b] /\ time[b] <= t}
  OBVIOUS
<1>10. gone \in SUBSET Registry
  BY <1>9
<1>11. ASSUME NEW b \in Registry \ gone, owner[b] = p PROVE time[b] # t
  <2>1. b \in Of(p) /\ b \in Alarm
    BY <1>11 DEF Of, Registry, In
  <2>2. CASE done[b]
    <3>1. ~(time[b] <= t)
      BY <1>9, <1>11, <2>2
    <3> QED
      BY <1>8, <3>1
  <2>3. CASE ~done[b]
    BY <1>7, <2>1, <2>3
  <2> QED
    BY <2>2, <2>3
<1>12. /\ where' = [b \in Alarm |-> IF b = a THEN "registry" ELSE IF b \in gone THEN "free" ELSE where[b]]
       /\ owner' = [b \in Alarm |-> IF b \in gone THEN None ELSE owner[b]]
       /\ level' = [b \in Alarm |-> IF b \in gone THEN 0 ELSE level[b]]
       /\ done' = [b \in Alarm |-> done[b] /\ b \notin gone]
       /\ time' = [b \in Alarm |-> IF b = a THEN t ELSE IF b \in gone THEN 0 ELSE time[b]]
       /\ passed' = passed \ gone
       /\ LET left == (Registry \ gone) \cup {a} IN
          next_wakeup' = CHOOSE u \in 0..Never : /\ \E b \in left : u = time'[b]
                                                 /\ \A c \in left : u <= time'[c]
  BY <1>2, <1>4, <1>6, <1>9 DEF AwakeRegister
<1>13. Registers(p, a, t, gone)
  BY <1>3, <1>8, <1>9, <1>11, <1>12 DEF Registers
<1> QED
  BY <1>3, <1>8, <1>10, <1>13

(* awake_register. *)
LEMMA AwakeRegisterInv ==
  ASSUME IInv, NEW p \in Proc, NEW d \in Delays, AwakeRegister(p, d)
  PROVE  IInv'
<1> USE DEF Registers, wakeups, notes, call, timer, ringer
<1>1. PICK a \in In("new"), t \in 0..Never, gone \in SUBSET Registry : Registers(p, a, t, gone)
  BY RegisterAt, Zenon
<1>2. /\ pc[p] = "register" /\ tpc # "scan" /\ pc' = [pc EXCEPT ![p] = "ret"]
      /\ UNCHANGED <<program, now, wakeups, notes, rendez, call, timer, ringer, posting>>
  BY DEF AwakeRegister, Goto, Unlocked
<1>3. AlarmsTyped /\ WakeupsTyped /\ NotesTyped /\ CallsTyped /\ ClockTyped
  BY TypeOKGroups DEF IInv
<1>4. a \in Alarm /\ where[a] = "new" /\ a \notin Registry /\ a \notin gone /\ todo = {}
  BY <1>1, <1>2, NothingToDo DEF In, Registry
<1>5. /\ where'[a] = "registry" /\ owner'[a] = p /\ level'[a] = level[a] /\ time'[a] = t
      /\ \A b \in gone : where'[b] = "free" /\ owner'[b] = None /\ b \in Alarm /\ where[b] = "registry"
      /\ \A b \in Alarm : b # a /\ b \notin gone =>
           /\ where'[b] = where[b] /\ owner'[b] = owner[b] /\ level'[b] = level[b] /\ time'[b] = time[b]
  BY <1>1, <1>4 DEF Registry, In
<1>6. AlarmsTyped'
  <2>1. /\ where' \in [Alarm -> {"free", "new", "registry", "toawake", "elapsed", "pending"}]
        /\ owner' \in [Alarm -> Proc \cup {None}] /\ done' \in [Alarm -> BOOLEAN]
    BY <1>1, <1>3 DEF AlarmsTyped
  <2>2. level' \in [Alarm -> Level]
    BY <1>1, <1>3 DEF AlarmsTyped, Level
  <2>3. time' \in [Alarm -> 0..Never]
    <3>1. 0 \in 0..Never
      BY NeverIsLast
    <3>2. \A b \in Alarm : time[b] \in 0..Never
      BY <1>3 DEF AlarmsTyped
    <3> QED
      BY <1>1, <3>1, <3>2
  <2> QED
    BY <1>1, <1>3, <2>1, <2>2, <2>3 DEF AlarmsTyped
<1>7. next_wakeup' \in 0..Never
  <2> DEFINE left == (Registry \ gone) \cup {a}
  <2>1. left \subseteq Alarm
    BY <1>4 DEF Registry, In
  <2>2. PICK T : T = {time'[b] : b \in left}
    OBVIOUS
  <2>3. T \in SUBSET Nat /\ T \subseteq 0..Never /\ T # {}
    BY <1>6, <2>1, <2>2, NeverIsLast DEF AlarmsTyped
  <2>4. PICK m \in T : \A n \in T : m <= n
    BY <2>3, Smallest
  <2>5. \E u \in 0..Never : (\E b \in left : u = time'[b]) /\ \A c \in left : u <= time'[c]
    BY <2>2, <2>3, <2>4
  <2>6. next_wakeup' = CHOOSE u \in 0..Never : /\ \E b \in left : u = time'[b]
                                               /\ \A c \in left : u <= time'[c]
    BY <1>1
  <2> HIDE DEF left
  <2> QED
    BY <2>5, <2>6
<1>8. TypeOK'
  <2>1. CallsTyped'
    BY <1>2, <1>3 DEF CallsTyped
  <2>2. ClockTyped'
    BY <1>2, <1>3, <1>7 DEF ClockTyped, posting
  <2> QED
    BY <1>2, <1>6, <2>1, <2>2, TypeOKGroups
    DEF IInv, WakeupsTyped, NotesTyped, RendezTyped, rendez
<1>9. /\ Registry' = (Registry \ gone) \cup {a} /\ In("new")' = In("new") \ {a}
      /\ In("pending")' = In("pending")
  <2>1. Registry' = (Registry \ gone) \cup {a}
    BY <1>4, <1>5 DEF Registry, In
  <2>2. In("new")' = In("new") \ {a}
    BY <1>4, <1>5 DEF In
  <2>3. In("pending")' = In("pending")
    BY <1>4, <1>5 DEF In
  <2> QED
    BY <2>1, <2>2, <2>3
<1>10. pc'[p] = "ret" /\ \A q \in Proc : q # p => pc'[q] = pc[q]
  BY <1>2, <1>3 DEF CallsTyped
<1>11. a \notin passed /\ passed' = passed \ gone
  BY <1>1, <1>4 DEF IInv, AlarmInv, Lists
<1>12. ASSUME NEW q \in Proc, NEW l \in Level, NEW e, e = elapsed[q][l], e # None
       PROVE  /\ e \in Alarm /\ e \notin gone /\ owner'[e] = owner[e] /\ level'[e] = level[e]
              /\ where'[e] = where[e] /\ time'[e] = time[e]
  <2>1. e \in Alarm
    BY <1>3, <1>12 DEF WakeupsTyped
  <2>2. where[e] \in {"toawake", "elapsed", "pending"}
    BY <1>12 DEF IInv, AlarmInv, AlarmsInOrder
  <2>3. e # a /\ e \notin gone
    BY <1>4, <1>5, <2>2
  <2> QED
    BY <1>5, <2>1, <2>3
<1>13. \A b \in Registry \ gone : /\ b \in Alarm /\ b # a /\ time'[b] = time[b]
                                  /\ owner'[b] = owner[b] /\ level'[b] = level[b]
  BY <1>4, <1>5 DEF Registry, In
<1>14. Lists'
  <2>1. p # None
    BY AwakeAssumption
  <2>2. \A b \in Alarm : where'[b] = "free" <=> owner'[b] = None
    BY <1>5, <2>1 DEF IInv, AlarmInv, Lists
  <2>3. \A b \in passed' : where'[b] \notin {"free", "new"}
    BY <1>3, <1>5, <1>11 DEF IInv, AlarmInv, Lists, AlarmsTyped
  <2> QED
    BY <1>2, <1>4, <1>9, <2>2, <2>3 DEF IInv, AlarmInv, Lists
<1>15. News'
  <2>1. \A b \in In("new")' : /\ b \in In("new") /\ owner'[b] = owner[b] /\ level'[b] = level[b]
                              /\ owner[b] # p /\ owner[b] \in Proc
    <3>1. \A b \in In("new") \ {a} : /\ b \in Alarm /\ b # a /\ b \notin gone
                                     /\ owner[b] \in Proc /\ owner[b] # p
      <4> SUFFICES ASSUME NEW b \in In("new") \ {a}
                   PROVE  b \in Alarm /\ b \notin gone /\ owner[b] \in Proc /\ owner[b] # p
        OBVIOUS
      <4>1. b \in Alarm /\ where[b] = "new"
        BY DEF In
      <4>2. owner[b] \in Proc
        BY <4>1, PendingHasOwner
      <4>3. owner[b] # p
        BY <1>1 DEF IInv, AlarmInv, News
      <4> QED
        BY <1>5, <4>1, <4>2, <4>3
    <3> QED
      BY <1>5, <1>9, <3>1
  <2>2. \A b \in In("new")' : pc'[owner'[b]] = "register" /\ level'[b] = notified'[owner'[b]]
    BY <1>2, <1>10, <2>1 DEF IInv, AlarmInv, News
  <2>3. \A b, c \in In("new")' : owner'[b] = owner'[c] => b = c
    BY <2>1 DEF IInv, AlarmInv, News
  <2>4. ASSUME NEW q \in Proc, pc'[q] = "register" PROVE \E b \in In("new")' : owner'[b] = q
    <3>1. q # p /\ pc[q] = "register"
      BY <1>10, <2>4
    <3>2. PICK b \in In("new") : owner[b] = q
      BY <3>1 DEF IInv, AlarmInv, News
    <3>3. b \in In("new")'
      BY <1>1, <1>9, <3>1, <3>2
    <3> QED
      BY <2>1, <3>2, <3>3
  <2> QED
    BY <2>2, <2>3, <2>4 DEF News
<1>16. HandlerAlarmsDeleted'
  <2>1. level[a] = notified[p]
    BY <1>1 DEF IInv, AlarmInv, News
  <2>2. ASSUME NEW q \in Proc, notified[q] = 0, pc'[q] # "exec"
        PROVE  elapsed[q][1] = None /\ \A b \in Registry' : ~(owner'[b] = q /\ level'[b] = 1)
    <3>1. elapsed[q][1] = None /\ \A b \in Registry : ~(owner[b] = q /\ level[b] = 1)
      BY <1>2, <1>10, <2>2 DEF IInv, AlarmInv, HandlerAlarmsDeleted
    <3> QED
      BY <1>5, <1>9, <1>13, <2>1, <2>2, <3>1
  <2>3. ASSUME rpc = "panic" PROVE pc'[owner'[rwho]] \in {"exec", "reap"}
    <3>1. rwho \in Alarm /\ where[rwho] = "pending" /\ pc[owner[rwho]] \in {"exec", "reap"}
      BY <2>3 DEF IInv, AlarmInv, Lists, HandlerAlarmsDeleted, In
    <3>2. owner'[rwho] = owner[rwho] /\ owner[rwho] \in Proc
      BY <1>4, <1>5, <3>1, PendingHasOwner
    <3> QED
      BY <1>2, <1>10, <3>1, <3>2
  <2> QED
    BY <1>2, <2>2, <2>3 DEF HandlerAlarmsDeleted
<1>17. /\ p \in Proc /\ level[a] \in Level /\ now \in Nat /\ t \in Nat
       /\ \A q \in Proc, l \in Level :
            /\ last[q][l] <= now /\ last[q][l] \in Nat
            /\ elapsed[q][l] # None => time[elapsed[q][l]] <= now /\ time[elapsed[q][l]] \in Nat
  <2>1. level[a] \in Level /\ now \in Nat /\ t \in Nat
    BY <1>3, <1>4, NeverIsLast DEF AlarmsTyped, ClockTyped
  <2>2. ASSUME NEW q \in Proc, NEW l \in Level
        PROVE  /\ last[q][l] <= now /\ last[q][l] \in Nat
               /\ elapsed[q][l] # None => time[elapsed[q][l]] <= now /\ time[elapsed[q][l]] \in Nat
    <3>1. last[q][l] <= now /\ (elapsed[q][l] # None => time[elapsed[q][l]] <= now)
      BY DEF IInv, AlarmInv, Order
    <3>2. last[q][l] \in Nat /\ (elapsed[q][l] # None => time[elapsed[q][l]] \in Nat)
      BY <1>3, NeverIsLast DEF WakeupsTyped, AlarmsTyped
    <3> QED
      BY <3>1, <3>2
  <2> QED
    BY <2>1, <2>2
<1>18. AlarmsInOrder'
  <2>1. ASSUME NEW q \in Proc, NEW l \in Level, NEW e, e = elapsed'[q][l], e # None
        PROVE  /\ owner'[e] = q /\ level'[e] = l /\ where'[e] \in {"toawake", "elapsed", "pending"}
               /\ e \in passed' \/ time'[e] > last'[q][l]
    BY <1>2, <1>11, <1>12, <2>1 DEF IInv, AlarmInv, AlarmsInOrder
  <2>2. ASSUME NEW b \in Registry' PROVE b \in passed' \/ time'[b] > last'[owner'[b]][level'[b]]
    <3>1. CASE b = a
      <4>1. last[p][level[a]] <= now /\ last[p][level[a]] \in Nat
        BY <1>17
      <4> QED
        BY <1>1, <1>2, <1>5, <1>17, <3>1, <4>1
    <3>2. CASE b # a
      BY <1>2, <1>9, <1>11, <1>13, <3>2 DEF IInv, AlarmInv, AlarmsInOrder
    <3> QED
      BY <3>1, <3>2
  <2>3. ASSUME NEW b \in passed' PROVE time'[b] <= now'
    <3>1. b \in passed /\ b \in Alarm /\ b # a /\ b \notin gone
      BY <1>3, <1>11 DEF AlarmsTyped
    <3> QED
      BY <1>2, <1>5, <3>1 DEF IInv, AlarmInv, AlarmsInOrder
  <2> QED
    BY <2>1, <2>2, <2>3 DEF AlarmsInOrder
<1>19. Order'
  <2>1. ASSUME NEW b \in Registry', NEW c \in Registry', owner'[b] = owner'[c], time'[b] = time'[c]
        PROVE  b = c
    <3>1. CASE b = a /\ c = a
      BY <3>1
    <3>2. CASE b = a /\ c # a
      <4>1. c \in Registry \ gone /\ owner[c] = p /\ time[c] = t
        BY <1>5, <1>9, <1>13, <2>1, <3>2
      <4> QED
        BY <1>1, <4>1
    <3>3. CASE b # a /\ c = a
      <4>1. b \in Registry \ gone /\ owner[b] = p /\ time[b] = t
        BY <1>5, <1>9, <1>13, <2>1, <3>3
      <4> QED
        BY <1>1, <4>1
    <3>4. CASE b # a /\ c # a
      <4>1. b \in Registry /\ c \in Registry /\ owner[b] = owner[c] /\ time[b] = time[c]
        BY <1>9, <1>13, <2>1, <3>4
      <4> QED
        BY <4>1 DEF IInv, AlarmInv, Order
    <3> QED
      BY <3>1, <3>2, <3>3, <3>4
  <2>2. ASSUME NEW q \in Proc, NEW l \in Level
        PROVE  last'[q][l] <= now' /\ (elapsed'[q][l] # None => time'[elapsed'[q][l]] <= now')
    BY <1>2, <1>12, <1>17
  <2>3. todo' = {}
    BY <1>2, <1>4
  <2>4. ASSUME NEW q \in Proc, NEW l \in Level, NEW b \in Registry' \ passed',
               elapsed'[q][l] # None, owner'[b] = q, level'[b] = l
        PROVE  time'[b] > time'[elapsed'[q][l]]
    <3>1. time'[elapsed'[q][l]] = time[elapsed[q][l]] /\ elapsed[q][l] # None
      BY <1>2, <1>12, <2>4
    <3>2. CASE b = a
      BY <1>1, <1>5, <1>17, <3>1, <3>2
    <3>3. CASE b # a
      <4>1. b \in Registry \ passed /\ owner[b] = q /\ level[b] = l /\ time'[b] = time[b]
        BY <1>9, <1>11, <1>13, <2>4, <3>3
      <4>2. time[b] > time[elapsed[q][l]]
        BY <3>1, <4>1 DEF IInv, AlarmInv, Order
      <4> QED
        BY <3>1, <4>1, <4>2
    <3> QED
      BY <3>2, <3>3
  <2> QED
    BY <2>1, <2>2, <2>3, <2>4 DEF Order
<1>20. \A q \in Proc : \/ pc'[q] = pc[q]
                       \/ /\ pc[q] \notin {"blocked", "meet"}
                          /\ pc'[q] \notin {"blocked", "meet"}
  BY <1>2, <1>10
<1>21. \A q \in Proc : pc'[q] = "remove" => pc[q] = "remove"
  BY <1>10
<1> QED
  BY <1>2, <1>8, <1>14, <1>15, <1>16, <1>18, <1>19, <1>20, <1>21, SameRendez, SameRequests
  DEF IInv, AlarmInv

-----------------------------------------------------------------------------
(* The invariant holds when the system starts. *)
LEMMA InitInv == ASSUME Init PROVE IInv
<1> USE DEF Init
<1>1. TypeOK
  <2>1. AlarmsTyped
    BY NeverIsLast DEF AlarmsTyped, Level
  <2>2. WakeupsTyped
    <3>1. 0 \in 0..Never
      BY NeverIsLast
    <3> QED
      BY <3>1 DEF WakeupsTyped, PerLevel
  <2>3. NotesTyped /\ CallsTyped
    BY DEF NotesTyped, CallsTyped, Level
  <2>4. RendezTyped
    BY DEF RendezTyped
  <2>5. ClockTyped
    BY NeverIsLast DEF ClockTyped
  <2> QED
    BY <2>1, <2>2, <2>3, <2>4, <2>5, TypeOKGroups
<1>2. Registry = {} /\ In("new") = {}
  BY DEF Registry, In
<1>3. Lists /\ News
  BY <1>2 DEF Lists, News
<1>4. /\ \A p \in Proc, l \in Level : elapsed[p][l] = None /\ last[p][l] = 0
      /\ 1 \in Level
  BY DEF PerLevel, Level
<1>5. HandlerAlarmsDeleted /\ AlarmsInOrder
  BY <1>2, <1>4 DEF HandlerAlarmsDeleted, AlarmsInOrder
<1>6. Order
  BY <1>2, <1>4 DEF Order
<1>7. Meets /\ ReadyOnce
  BY AwakeAssumption DEF Meets, ReadyOnce
<1>8. Requests
  BY DEF Requests
<1> QED
  BY <1>1, <1>3, <1>5, <1>6, <1>7, <1>8 DEF IInv, AlarmInv, RendezInv

(* Every step keeps it. *)
LEMMA NextInv == ASSUME IInv, [Next]_vars PROVE IInv'
<1>1. CASE Tick
  BY <1>1, TickInv
<1>2. CASE Timer
  BY <1>2, TimerCheckInv, TimerScanInv, HandOverInv, TimerSleepsInv DEF Timer
<1>3. CASE Ringer
  BY <1>3, HandOverInv, RingerPullInv, RingerEndInv, DispatchInv DEF Ringer
<1>4. CASE Postnotes
  BY <1>4, PostnoteInv, PostnotePullInv DEF Postnotes
<1>5. ASSUME NEW p \in Proc, ProcStep(p) PROVE IInv'
  BY <1>5, AwakeRegisterInv, RemoveAlarmInv, ClearsInv, OtherInv, MeetInv, ResumeInv, SyscallEndInv DEF ProcStep
<1>6. ASSUME NEW p \in Proc, ProcCall(p) PROVE IInv'
  BY <1>6, AlarmNewInv, OtherInv, ExecInv, ClearsInv, TrapNoteInv, AwakeRemoveInv, RendezvousInv
  DEF ProcCall
<1>7. CASE UNCHANGED vars
  BY <1>7, StutterInv
<1> QED
  BY <1>1, <1>2, <1>3, <1>4, <1>5, <1>6, <1>7 DEF Next

(* So it is an invariant of the specification. *)
LEMMA Invariance == Spec => []IInv
<1>1. Init => IInv
  BY InitInv
<1>2. IInv /\ [Next]_vars => IInv'
  BY NextInv
<1> QED
  BY <1>1, <1>2, PTL DEF Spec

(* The state of awake.c and of sysrendezvous stays in its types; above     *)
(* all, no more than one note waits and every time is one the clock can    *)
(* get past.                                                               *)
THEOREM AwakeTypeOK == Spec => []TypeOK
<1>1. IInv => TypeOK
  BY DEF IInv
<1> QED
  BY <1>1, Invariance, PTL

(* A process in a rendezvous is in the table, alone, or left to the one    *)
(* process that took it out: neither awake_ringer nor postnote makes ready *)
(* a process that another is about to make ready.                          *)
THEOREM AwakeReadyOnce == Spec => []ReadyOnce
<1>1. IInv => ReadyOnce
  BY DEF IInv, RendezInv
<1> QED
  BY <1>1, Invariance, PTL

(* The alarm awake_awakened reads is the process's own, and later than the *)
(* last it took, unless awake_timer passed over it.                        *)
THEOREM AwakeAlarmsInOrder == Spec => []AlarmsInOrder
<1>1. IInv => AlarmsInOrder
  BY DEF IInv, AlarmInv
<1> QED
  BY <1>1, Invariance, PTL

(* After noted() no alarm of the note handler is left in the registry or   *)
(* as elapsed, and the panic of awake_dispatch is reached only of a        *)
(* process that is in exec.                                                *)
THEOREM AwakeHandlerAlarmsDeleted == Spec => []HandlerAlarmsDeleted
<1>1. IInv => HandlerAlarmsDeleted
  BY DEF IInv, AlarmInv
<1> QED
  BY <1>1, Invariance, PTL

(* awake_awakened moves the time of the last wakeup forward, so that what  *)
(* awakened(2) once said to be past stays past, unless the alarm it takes  *)
(* was passed over by awake_timer.                                         *)
TakenForward ==
  [][\A p \in Proc, l \in Level :
       last'[p][l] # last[p][l] => last'[p][l] > last[p][l] \/ elapsed[p][l] \in passed]_vars

(* Only the end of a system call moves the time of the last wakeup, to     *)
(* that of the alarm it takes.                                             *)
LEMMA OnlyTaken ==
  ASSUME IInv, [Next]_vars, NEW p \in Proc, NEW l \in Level, last'[p][l] # last[p][l]
  PROVE  elapsed[p][l] # None /\ last'[p][l] = time[elapsed[p][l]]
<1> USE DEF wakeups
<1>1. PICK q \in Proc : SyscallEnd(q)
  <2>1. UNCHANGED last \/ \E q \in Proc : SyscallEnd(q)
    <3>1. CASE Tick \/ UNCHANGED vars
      BY <3>1 DEF Tick, vars
    <3>2. CASE Timer
      BY <3>2 DEF Timer, TimerCheck, TimerScan, TimerUnlock, TimerPass, TimerWake, TimerRead, TimerStore,
                  AwakeTick
    <3>3. CASE Ringer
      BY <3>3 DEF Ringer, RingerCheck, RingerPull, RingerEnd, Dispatch
    <3>4. CASE Postnotes
      BY <3>4 DEF Postnotes, Postnote, PostnoteLook, PostnotePull
    <3>5. CASE \E q \in Proc : ProcStep(q)
      BY <3>5 DEF ProcStep, AwakeRegister, RemoveAlarm, ExecGc, ExecWait, Meet, Resume
    <3>6. CASE \E q \in Proc : ProcCall(q)
      BY <3>6 DEF ProcCall, AlarmNew, Other, Exec, Noted, TrapNote, AwakeRemove, Rendezvous
    <3> QED
      BY <3>1, <3>2, <3>3, <3>4, <3>5, <3>6 DEF Next
  <2> QED
    BY <2>1
<1>2. WakeupsTyped /\ last' # last
  BY TypeOKGroups DEF IInv
<1>3. PICK k : /\ elapsed[q][k] # None
               /\ last' = [last EXCEPT ![q][k] = time[elapsed[q][k]]]
  <2>1. Awakened(q, notified'[q])
    BY <1>1, <1>2 DEF SyscallEnd
  <2> QED
    BY <1>2, <2>1 DEF Awakened
<1>4. p = q /\ l = k
  BY <1>2, <1>3 DEF WakeupsTyped
<1> QED
  BY <1>2, <1>3, <1>4 DEF WakeupsTyped

(* Wakeups are taken forward in time, but for those passed over. *)
THEOREM AwakeTakenForward == Spec => TakenForward
<1>1. ASSUME IInv, [Next]_vars, NEW p \in Proc, NEW l \in Level, last'[p][l] # last[p][l]
      PROVE  last'[p][l] > last[p][l] \/ elapsed[p][l] \in passed
  <2>1. elapsed[p][l] # None /\ last'[p][l] = time[elapsed[p][l]]
    BY <1>1, OnlyTaken
  <2> QED
    BY <1>1, <2>1 DEF IInv, AlarmInv, AlarmsInOrder
<1>2. IInv /\ [Next]_vars =>
        [\A p \in Proc, l \in Level :
           last'[p][l] # last[p][l] => last'[p][l] > last[p][l] \/ elapsed[p][l] \in passed]_vars
  BY <1>1
<1> QED
  BY <1>2, Invariance, PTL DEF Spec, TakenForward
=============================================================================
