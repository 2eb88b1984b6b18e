------------------------- MODULE SleepWakeupProofs -------------------------
(***************************************************************************)
(* r->p and p->r stay synchronized and no wakeup, note or alarm is lost,   *)
(* for any number of processes, rendezvous points, wakers, posters and     *)
(* processors.  Then the timer of tsleep: it does not touch a Rendez that  *)
(* tsleep has left, and a process in tsleep keeps it until it goes off.    *)
(***************************************************************************)
EXTENDS SleepWakeup, TLAPS

Sleeping == {"lockr", "lockp", "asleep", "check"}
ProcPCs == {"out", "timeradd", "stop", "timerdel"} \cup Sleeping

(* Where processes are, and what they sleep on: nobody else does.          *)
Places == /\ \A p \in Proc : pc[p] \in ProcPCs
          /\ \A a \in Actor \ Proc : pc[a] \notin ProcPCs \ {"out"}
          /\ \A p \in Proc : pr[p] # None => pc[p] = "asleep" /\ pr[p] = on[p]
          /\ \A p \in Proc : state[p] = "Running" <=> pc[p] # "asleep"
          /\ \A p \in Proc : pc[p] \in Sleeping \cup {"timeradd"} => on[p] \in Rendez
          /\ \A p, q \in Proc : on[p] = on[q] /\ on[p] # None => p = q

(* What is known between the two locks of sleep, wakeup and postnote.      *)
Locks == /\ \A p \in Proc : pc[p] = "lockp" => rl[on[p]] = p
         /\ \A a \in Actor : pc[a] = "wlockr" => on[a] \in Rendez
         /\ \A a \in Actor : pc[a] = "wlockp" =>
              on[a] \in Rendez /\ who[a] \in Proc /\ rl[on[a]] = a /\ rp[on[a]] = who[a]
         /\ \A a \in Actor : pc[a] = "ptry" =>
              on[a] \in Rendez /\ pl[who[a]] = a /\ pr[who[a]] = on[a]
         /\ \A a \in Actor : pc[a] \in {"defer", "plock", "ptry", "dispatch", "signaled", "tlock", "tdone"} =>
              who[a] \in Proc
         /\ \A c \in Cpu : pc[c] = "wlockr" => who[c] \in Proc

IInv == TypeOK /\ Synchronized /\ Places /\ Locks /\ NoLostWakeup

(* A sleeper that nobody woke yet is where wakeup looks for it.            *)
LEMMA AsleepOn ==
  ASSUME IInv, NEW p \in Proc, Asleep(p)
  PROVE  on[p] \in Rendez /\ rp[on[p]] = p /\ pr[p] = on[p]
BY DEF IInv, TypeOK, Synchronized, Places, Sleeping, Asleep

(* The end of wakeup, postnote and awake_dispatch: the process p that      *)
(* sleeps on r is woken by a.                                              *)
LEMMA WakeInv ==
  ASSUME IInv, TypeOK', NEW p \in Proc, NEW r \in Rendez, NEW a \in Actor \ Proc,
         NEW to \in {"out", "tdone", "signaled"},
         pr[p] = r, Wake(p, r), pc' = [pc EXCEPT ![a] = to],
         UNCHANGED <<flags, actor>>,
         \/ pc[a] = "wlockp" /\ on[a] = r
         \/ pc[a] = "ptry" /\ who[a] = p
         \/ pc[a] = "dispatch" /\ who[a] = p
  PROVE  Synchronized' /\ Places' /\ NoLostWakeup'
<1> USE SleepWakeupAssumption DEF flags, actor
<1>1. /\ rp' = [rp EXCEPT ![r] = None] /\ pr' = [pr EXCEPT ![p] = None]
      /\ state' = [state EXCEPT ![p] = "Ready"]
  BY DEF Wake
<1>2. /\ pc'[a] = to /\ \A b \in Actor : b # a => pc'[b] = pc[b]
      /\ \A q \in Proc : pc'[q] = pc[q]
  BY DEF IInv, TypeOK, Actor
<1>3. /\ rp'[r] = None /\ \A x \in Rendez : x # r => rp'[x] = rp[x]
      /\ pr'[p] = None /\ state'[p] = "Ready"
      /\ \A q \in Proc : q # p => pr'[q] = pr[q] /\ state'[q] = state[q]
  BY <1>1 DEF IInv, TypeOK
<1>4. rp[r] = p /\ state[p] = "Wakeme" /\ pc[p] = "asleep" /\ on[p] = r
  BY DEF IInv, Synchronized, Places
<1>5. Synchronized'
  <2>1. \A q \in Proc, x \in Rendez : rp'[x] = q <=> pr'[q] = x
    BY <1>3, <1>4 DEF IInv, TypeOK, Synchronized, Actor
  <2>2. \A q \in Proc : pr'[q] # None <=> state'[q] = "Wakeme"
    BY <1>3 DEF IInv, Synchronized
  <2>3. \A b \in Actor : pc'[b] # "panic"
    BY <1>2 DEF IInv, Synchronized
  <2> QED
    BY <2>1, <2>2, <2>3 DEF Synchronized
<1>6. Places'
  <2>1. \A b \in Actor \ Proc : pc'[b] \notin ProcPCs \ {"out"}
    BY <1>2 DEF IInv, Places, ProcPCs, Sleeping
  <2>2. \A q \in Proc : pr'[q] # None => pc'[q] = "asleep" /\ pr'[q] = on'[q]
    BY <1>2, <1>3 DEF IInv, Places
  <2>3. \A q \in Proc : state'[q] = "Running" <=> pc'[q] # "asleep"
    BY <1>2, <1>3, <1>4 DEF IInv, Places
  <2> QED
    BY <1>2, <2>1, <2>2, <2>3 DEF IInv, Places
<1>7. ASSUME NEW q \in Proc, Asleep(q)'
      PROVE  /\ cond'[on'[q]] => Waking(on[q])'
             /\ Interrupted(q)' => \E n \in Poster :
                                     who'[n] = q /\ pc'[n] \in {"defer", "plock", "ptry"}
             /\ alarm'[q] => \E c \in Ringer : who'[c] = q /\ pc'[c] = "dispatch"
  <2>1. q # p /\ Asleep(q)
    BY <1>2, <1>3, <1>7 DEF Asleep
  <2>2. on[q] # r
    BY <1>4, <2>1 DEF IInv, Places
  <2>3. Waking(on[q]) => Waking(on[q])'
    BY <1>2, <2>2 DEF Waking, Actor
  <2>4. /\ cond[on[q]] => Waking(on[q])
        /\ Interrupted(q) => \E n \in Poster :
                               who[n] = q /\ pc[n] \in {"defer", "plock", "ptry"}
        /\ alarm[q] => \E c \in Ringer : who[c] = q /\ pc[c] = "dispatch"
    BY <2>1 DEF IInv, NoLostWakeup
  <2>5. \A n \in Actor : who[n] = q /\ pc[n] \in {"defer", "plock", "ptry", "dispatch"} =>
                           who'[n] = q /\ pc'[n] = pc[n]
    BY <1>2, <2>1
  <2>6. Interrupted(q)' = Interrupted(q)
    BY DEF Interrupted
  <2> QED
    BY <2>3, <2>4, <2>5, <2>6 DEF Actor
<1>8. NoLostWakeup'
  BY <1>7 DEF NoLostWakeup, Waking
<1> QED
  BY <1>5, <1>6, <1>8

(* sleep is entered with a Rendez nobody else sleeps on. *)
LEMMA SleepInv ==
  ASSUME IInv, NEW p \in Proc, NEW r \in Rendez, Sleep(p, r)
  PROVE  IInv'
<1> USE SleepWakeupAssumption DEF Sleep, Choose, Goto, sleeper, flags, timers, actor, Actor
<1>1. TypeOK'
  BY DEF IInv, TypeOK, PCs, Locks, Places, Sleeping
<1>2. Synchronized'
  BY DEF IInv, TypeOK, Synchronized, Places, Locks, Sleeping
<1>3. Places'
  BY DEF IInv, TypeOK, Synchronized, Places, Locks, ProcPCs, Sleeping
<1>4. Locks'
  BY DEF IInv, TypeOK, Synchronized, Places, Locks, ProcPCs, Sleeping
<1>5. NoLostWakeup'
  BY DEF IInv, TypeOK, Synchronized, Places, Locks, NoLostWakeup, Asleep, Waking, Interrupted, ProcPCs, Sleeping
<1> QED
  BY <1>1, <1>2, <1>3, <1>4, <1>5 DEF IInv

(* So is tsleep, which sets up->trend first. *)
LEMMA TsleepInv ==
  ASSUME IInv, NEW p \in Proc, NEW r \in Rendez, Tsleep(p, r)
  PROVE  IInv'
<1> USE SleepWakeupAssumption DEF Tsleep, Choose, Goto, sleeper, flags, timers, actor, Actor
<1>1. TypeOK'
  BY DEF IInv, TypeOK, PCs, Locks, Places, Sleeping
<1>2. Synchronized'
  BY DEF IInv, TypeOK, Synchronized, Places, Locks, Sleeping
<1>3. Places'
  BY DEF IInv, TypeOK, Synchronized, Places, Locks, ProcPCs, Sleeping
<1>4. Locks'
  BY DEF IInv, TypeOK, Synchronized, Places, Locks, ProcPCs, Sleeping
<1>5. NoLostWakeup'
  BY DEF IInv, TypeOK, Synchronized, Places, Locks, NoLostWakeup, Asleep, Waking, Interrupted, ProcPCs, Sleeping
<1> QED
  BY <1>1, <1>2, <1>3, <1>4, <1>5 DEF IInv

(* timeradd touches the timer only. *)
LEMMA TimeraddInv ==
  ASSUME IInv, NEW p \in Proc, Timeradd(p)
  PROVE  IInv'
<1> USE SleepWakeupAssumption DEF Timeradd, Goto, sleeper, flags, timers, actor, Actor
<1>1. TypeOK'
  BY DEF IInv, TypeOK, PCs, Locks, Places, Sleeping
<1>2. Synchronized'
  BY DEF IInv, TypeOK, Synchronized, Places, Locks, Sleeping
<1>3. Places'
  BY DEF IInv, TypeOK, Synchronized, Places, Locks, ProcPCs, Sleeping
<1>4. Locks'
  BY DEF IInv, TypeOK, Synchronized, Places, Locks, ProcPCs, Sleeping
<1>5. NoLostWakeup'
  BY DEF IInv, TypeOK, Synchronized, Places, Locks, NoLostWakeup, Asleep, Waking, Interrupted, ProcPCs, Sleeping
<1> QED
  BY <1>1, <1>2, <1>3, <1>4, <1>5 DEF IInv

(* sleep takes r->l. *)
LEMMA SleepLockInv ==
  ASSUME IInv, NEW p \in Proc, SleepLock(p)
  PROVE  IInv'
<1> USE SleepWakeupAssumption DEF SleepLock, Goto, sleeper, flags, timers, actor, Actor
<1>1. TypeOK'
  BY DEF IInv, TypeOK, PCs, Locks, Places, Sleeping
<1>2. Synchronized'
  BY DEF IInv, TypeOK, Synchronized, Places, Locks, Sleeping
<1>3. Places'
  BY DEF IInv, TypeOK, Synchronized, Places, Locks, ProcPCs, Sleeping
<1>4. Locks'
  BY DEF IInv, TypeOK, Synchronized, Places, Locks, ProcPCs, Sleeping
<1>5. NoLostWakeup'
  BY DEF IInv, TypeOK, Synchronized, Places, Locks, NoLostWakeup, Asleep, Waking, Interrupted, ProcPCs, Sleeping
<1> QED
  BY <1>1, <1>2, <1>3, <1>4, <1>5 DEF IInv

(* With both locks sleep finds no reason to stay awake, and commits. *)
LEMMA SleepCommitInv ==
  ASSUME IInv, NEW p \in Proc, SleepCommit(p)
  PROVE  IInv'
<1> USE SleepWakeupAssumption DEF sleeper, flags, timers, actor, Actor
<1>1. CASE Happened(p) \/ Interrupted(p) \/ alarm[p]
  <2>1. /\ pc[p] = "lockp" /\ pl[p] = None
        /\ rl' = [rl EXCEPT ![on[p]] = None]
        /\ UNCHANGED <<flags, timers, pl, actor, timed>>
        /\ pc' = [pc EXCEPT ![p] = "check"]
        /\ UNCHANGED sleeper
    BY <1>1 DEF SleepCommit, Happened, Goto
  <2>2. TypeOK'
    BY <2>1 DEF IInv, TypeOK, PCs, Locks, Places, Sleeping
  <2>3. Synchronized'
    BY <2>1 DEF IInv, TypeOK, Synchronized, Places, Locks, Sleeping
  <2>4. Places'
    BY <2>1 DEF IInv, TypeOK, Places, Locks, ProcPCs, Sleeping
  <2>5. Locks'
    BY <2>1 DEF IInv, TypeOK, Places, Locks, ProcPCs, Sleeping
  <2>6. NoLostWakeup'
    BY <2>1 DEF IInv, TypeOK, Synchronized, Places, Locks, NoLostWakeup, Asleep, Waking, Interrupted
  <2> QED
    BY <2>2, <2>3, <2>4, <2>5, <2>6 DEF IInv
<1>2. CASE ~(Happened(p) \/ Interrupted(p) \/ alarm[p])
  <2>1. /\ pc[p] = "lockp" /\ pl[p] = None
        /\ rl' = [rl EXCEPT ![on[p]] = None]
        /\ UNCHANGED <<flags, timers, pl, actor, timed>>
        /\ rp' = [rp EXCEPT ![on[p]] = p]
        /\ pr' = [pr EXCEPT ![p] = on[p]]
        /\ state' = [state EXCEPT ![p] = "Wakeme"]
        /\ pc' = [pc EXCEPT ![p] = "asleep"]
        /\ ~cond[on[p]] /\ ~Interrupted(p) /\ ~alarm[p]
    BY <1>2 DEF SleepCommit, Happened, Goto
  <2>2. TypeOK'
    BY <2>1 DEF IInv, TypeOK, PCs, Locks, Places, Sleeping
  <2>3. Synchronized'
    BY <2>1 DEF IInv, TypeOK, Synchronized, Places, Locks, Sleeping
  <2>4. Places'
    BY <2>1 DEF IInv, TypeOK, Places, Locks, ProcPCs, Sleeping
  <2>5. Locks'
    BY <2>1 DEF IInv, TypeOK, Places, Locks, ProcPCs, Sleeping
  <2>6. NoLostWakeup'
    BY <2>1 DEF IInv, TypeOK, Synchronized, Places, Locks, NoLostWakeup, Asleep, Waking, Interrupted
  <2> QED
    BY <2>2, <2>3, <2>4, <2>5, <2>6 DEF IInv
<1> QED
  BY <1>1, <1>2

(* A process made ready runs again. *)
LEMMA ResumeInv ==
  ASSUME IInv, NEW p \in Proc, Resume(p)
  PROVE  IInv'
<1> USE SleepWakeupAssumption DEF Resume, Goto, sleeper, flags, timers, actor, Actor
<1>1. TypeOK'
  BY DEF IInv, TypeOK, PCs, Locks, Places, Sleeping
<1>2. Synchronized'
  BY DEF IInv, TypeOK, Synchronized, Places, Locks, Sleeping
<1>3. Places'
  BY DEF IInv, TypeOK, Synchronized, Places, Locks, ProcPCs, Sleeping
<1>4. Locks'
  BY DEF IInv, TypeOK, Synchronized, Places, Locks, ProcPCs, Sleeping
<1>5. NoLostWakeup'
  BY DEF IInv, TypeOK, Synchronized, Places, Locks, NoLostWakeup, Asleep, Waking, Interrupted, ProcPCs, Sleeping
<1> QED
  BY <1>1, <1>2, <1>3, <1>4, <1>5 DEF IInv

(* The tests after the sleep take the note or the alarm. *)
LEMMA SleepCheckInv ==
  ASSUME IInv, NEW p \in Proc, SleepCheck(p)
  PROVE  IInv'
<1> USE SleepWakeupAssumption DEF sleeper, flags, timers, actor, Actor
<1>1. CASE timed[p]
  <2>1. /\ pc[p] = "check"
        /\ note' = [note EXCEPT ![p] = note[p] /\ deferred[p]]
        /\ alarm' = [alarm EXCEPT ![p] = alarm[p] /\ note[p] /\ ~deferred[p]]
        /\ UNCHANGED <<sleeper, cond, deferred, timers, rl, pl, who, timed>>
        /\ pc' = [pc EXCEPT ![p] = "stop"]
        /\ UNCHANGED on
    BY <1>1 DEF SleepCheck, Leave, Interrupted, Goto
  <2>2. TypeOK'
    BY <2>1 DEF IInv, TypeOK, PCs, Locks, Places, Sleeping
  <2>3. Synchronized'
    BY <2>1 DEF IInv, TypeOK, Synchronized, Places, Locks, Sleeping
  <2>4. Places'
    BY <2>1 DEF IInv, TypeOK, Places, Locks, ProcPCs, Sleeping
  <2>5. Locks'
    BY <2>1 DEF IInv, TypeOK, Places, Locks, ProcPCs, Sleeping
  <2>6. NoLostWakeup'
    <3>1. /\ pc'[p] = "stop" /\ \A b \in Actor : b # p => pc'[b] = pc[b]
          /\ \A q \in Proc : q # p => note'[q] = note[q] /\ alarm'[q] = alarm[q]
      BY <2>1 DEF IInv, TypeOK
    <3>2. \A q \in Proc : Asleep(q)' => Asleep(q) /\ q # p
      BY <2>1, <3>1 DEF Asleep
    <3>3. \A b \in Actor \ Proc : pc'[b] = pc[b]
      BY <3>1
    <3> QED
      BY <2>1, <3>1, <3>2, <3>3 DEF IInv, NoLostWakeup, Waking, Interrupted
  <2> QED
    BY <2>2, <2>3, <2>4, <2>5, <2>6 DEF IInv
<1>2. CASE ~timed[p]
  <2>1. /\ pc[p] = "check"
        /\ note' = [note EXCEPT ![p] = note[p] /\ deferred[p]]
        /\ alarm' = [alarm EXCEPT ![p] = alarm[p] /\ note[p] /\ ~deferred[p]]
        /\ UNCHANGED <<sleeper, cond, deferred, timers, rl, pl, who, timed>>
        /\ pc' = [pc EXCEPT ![p] = "out"]
        /\ on' = [on EXCEPT ![p] = None]
    BY <1>2 DEF SleepCheck, Leave, Interrupted, Goto
  <2>2. TypeOK'
    BY <2>1 DEF IInv, TypeOK, PCs, Locks, Places, Sleeping
  <2>3. Synchronized'
    BY <2>1 DEF IInv, TypeOK, Synchronized, Places, Locks, Sleeping
  <2>4. Places'
    BY <2>1 DEF IInv, TypeOK, Places, Locks, ProcPCs, Sleeping
  <2>5. Locks'
    BY <2>1 DEF IInv, TypeOK, Places, Locks, ProcPCs, Sleeping
  <2>6. NoLostWakeup'
    <3>1. /\ pc'[p] = "out" /\ \A b \in Actor : b # p => pc'[b] = pc[b] /\ on'[b] = on[b]
          /\ \A q \in Proc : q # p => note'[q] = note[q] /\ alarm'[q] = alarm[q]
      BY <2>1 DEF IInv, TypeOK
    <3>2. \A q \in Proc : Asleep(q)' => Asleep(q) /\ q # p
      BY <2>1, <3>1 DEF Asleep
    <3>3. \A b \in Actor \ Proc : pc'[b] = pc[b] /\ on'[b] = on[b]
      BY <3>1
    <3> QED
      BY <2>1, <3>1, <3>2, <3>3 DEF IInv, NoLostWakeup, Waking, Interrupted
  <2> QED
    BY <2>2, <2>3, <2>4, <2>5, <2>6 DEF IInv
<1> QED
  BY <1>1, <1>2

(* stoptimer clears up->trend. *)
LEMMA StoptimerInv ==
  ASSUME IInv, NEW p \in Proc, Stoptimer(p)
  PROVE  IInv'
<1> USE SleepWakeupAssumption DEF sleeper, flags, timers, actor, Actor
<1>1. CASE trend[p] # None \/ timer[p]
  <2>1. /\ pc[p] = "stop"
        /\ trend' = [trend EXCEPT ![p] = None]
        /\ UNCHANGED <<sleeper, flags, timer, tl, rl, pl, who>>
        /\ pc' = [pc EXCEPT ![p] = "timerdel"]
        /\ UNCHANGED <<on, timed>>
    BY <1>1 DEF Stoptimer, Goto
  <2>2. TypeOK'
    BY <2>1 DEF IInv, TypeOK, PCs, Locks, Places, Sleeping
  <2>3. Synchronized'
    BY <2>1 DEF IInv, TypeOK, Synchronized, Places, Locks, Sleeping
  <2>4. Places'
    BY <2>1 DEF IInv, TypeOK, Places, Locks, ProcPCs, Sleeping
  <2>5. Locks'
    BY <2>1 DEF IInv, TypeOK, Places, Locks, ProcPCs, Sleeping
  <2>6. NoLostWakeup'
    BY <2>1 DEF IInv, TypeOK, Synchronized, Places, Locks, NoLostWakeup, Asleep, Waking, Interrupted
  <2> QED
    BY <2>2, <2>3, <2>4, <2>5, <2>6 DEF IInv
<1>2. CASE ~(trend[p] # None \/ timer[p])
  <2>1. /\ pc[p] = "stop"
        /\ trend' = [trend EXCEPT ![p] = None]
        /\ UNCHANGED <<sleeper, flags, timer, tl, rl, pl, who>>
        /\ pc' = [pc EXCEPT ![p] = "out"]
        /\ on' = [on EXCEPT ![p] = None]
        /\ timed' = [timed EXCEPT ![p] = FALSE]
    BY <1>2 DEF Stoptimer, Goto
  <2>2. TypeOK'
    BY <2>1 DEF IInv, TypeOK, PCs, Locks, Places, Sleeping
  <2>3. Synchronized'
    BY <2>1 DEF IInv, TypeOK, Synchronized, Places, Locks, Sleeping
  <2>4. Places'
    BY <2>1 DEF IInv, TypeOK, Places, Locks, ProcPCs, Sleeping
  <2>5. Locks'
    BY <2>1 DEF IInv, TypeOK, Places, Locks, ProcPCs, Sleeping
  <2>6. NoLostWakeup'
    BY <2>1 DEF IInv, TypeOK, Synchronized, Places, Locks, NoLostWakeup, Asleep, Waking, Interrupted
  <2> QED
    BY <2>2, <2>3, <2>4, <2>5, <2>6 DEF IInv
<1> QED
  BY <1>1, <1>2

(* timerdel touches the timer only. *)
LEMMA TimerdelInv ==
  ASSUME IInv, NEW p \in Proc, Timerdel(p)
  PROVE  IInv'
<1> USE SleepWakeupAssumption DEF Timerdel, Goto, sleeper, flags, timers, actor, Actor
<1>1. TypeOK'
  BY DEF IInv, TypeOK, PCs, Locks, Places, Sleeping
<1>2. Synchronized'
  BY DEF IInv, TypeOK, Synchronized, Places, Locks, Sleeping
<1>3. Places'
  BY DEF IInv, TypeOK, Synchronized, Places, Locks, ProcPCs, Sleeping
<1>4. Locks'
  BY DEF IInv, TypeOK, Synchronized, Places, Locks, ProcPCs, Sleeping
<1>5. NoLostWakeup'
  BY DEF IInv, TypeOK, Synchronized, Places, Locks, NoLostWakeup, Asleep, Waking, Interrupted, ProcPCs, Sleeping
<1> QED
  BY <1>1, <1>2, <1>3, <1>4, <1>5 DEF IInv

(* notedefer is called by a process that does not sleep. *)
LEMMA NotedeferInv ==
  ASSUME IInv, NEW p \in Proc, Notedefer(p)
  PROVE  IInv'
<1> USE SleepWakeupAssumption DEF sleeper, flags, timers, actor, Actor
<1>1. CASE note[p]
  <2>1. /\ pc[p] = "out"
        /\ UNCHANGED <<sleeper, cond, alarm, timers, rl, pl, pc, actor, timed>>
        /\ note' = [note EXCEPT ![p] = FALSE]
        /\ UNCHANGED deferred
    BY <1>1 DEF Notedefer, Goto
  <2>2. TypeOK'
    BY <2>1 DEF IInv, TypeOK, PCs, Locks, Places, Sleeping
  <2>3. Synchronized'
    BY <2>1 DEF IInv, TypeOK, Synchronized, Places, Locks, Sleeping
  <2>4. Places'
    BY <2>1 DEF IInv, TypeOK, Places, Locks, ProcPCs, Sleeping
  <2>5. Locks'
    BY <2>1 DEF IInv, TypeOK, Places, Locks, ProcPCs, Sleeping
  <2>6. NoLostWakeup'
    BY <2>1 DEF IInv, TypeOK, Synchronized, Places, Locks, NoLostWakeup, Asleep, Waking, Interrupted
  <2> QED
    BY <2>2, <2>3, <2>4, <2>5, <2>6 DEF IInv
<1>2. CASE ~note[p]
  <2>1. /\ pc[p] = "out"
        /\ UNCHANGED <<sleeper, cond, alarm, timers, rl, pl, pc, actor, timed>>
        /\ deferred' = [deferred EXCEPT ![p] = TRUE]
        /\ UNCHANGED note
    BY <1>2 DEF Notedefer, Goto
  <2>2. TypeOK'
    BY <2>1 DEF IInv, TypeOK, PCs, Locks, Places, Sleeping
  <2>3. Synchronized'
    BY <2>1 DEF IInv, TypeOK, Synchronized, Places, Locks, Sleeping
  <2>4. Places'
    BY <2>1 DEF IInv, TypeOK, Places, Locks, ProcPCs, Sleeping
  <2>5. Locks'
    BY <2>1 DEF IInv, TypeOK, Places, Locks, ProcPCs, Sleeping
  <2>6. NoLostWakeup'
    BY <2>1 DEF IInv, TypeOK, Synchronized, Places, Locks, NoLostWakeup, Asleep, Waking, Interrupted
  <2> QED
    BY <2>2, <2>3, <2>4, <2>5, <2>6 DEF IInv
<1> QED
  BY <1>1, <1>2

(* So is noteallow. *)
LEMMA NoteallowInv ==
  ASSUME IInv, NEW p \in Proc, Noteallow(p)
  PROVE  IInv'
<1> USE SleepWakeupAssumption DEF Noteallow, Goto, sleeper, flags, timers, actor, Actor
<1>1. TypeOK'
  BY DEF IInv, TypeOK, PCs, Locks, Places, Sleeping
<1>2. Synchronized'
  BY DEF IInv, TypeOK, Synchronized, Places, Locks, Sleeping
<1>3. Places'
  BY DEF IInv, TypeOK, Synchronized, Places, Locks, ProcPCs, Sleeping
<1>4. Locks'
  BY DEF IInv, TypeOK, Synchronized, Places, Locks, ProcPCs, Sleeping
<1>5. NoLostWakeup'
  BY DEF IInv, TypeOK, Synchronized, Places, Locks, NoLostWakeup, Asleep, Waking, Interrupted, ProcPCs, Sleeping
<1> QED
  BY <1>1, <1>2, <1>3, <1>4, <1>5 DEF IInv

(* A condition that becomes false wakes nobody. *)
LEMMA ConsumeInv ==
  ASSUME IInv, NEW p \in Proc, NEW r \in Rendez, Consume(p, r)
  PROVE  IInv'
<1> USE SleepWakeupAssumption DEF Consume, Goto, sleeper, flags, timers, actor, Actor
<1>1. TypeOK'
  BY DEF IInv, TypeOK, PCs, Locks, Places, Sleeping
<1>2. Synchronized'
  BY DEF IInv, TypeOK, Synchronized, Places, Locks, Sleeping
<1>3. Places'
  BY DEF IInv, TypeOK, Synchronized, Places, Locks, ProcPCs, Sleeping
<1>4. Locks'
  BY DEF IInv, TypeOK, Synchronized, Places, Locks, ProcPCs, Sleeping
<1>5. NoLostWakeup'
  BY DEF IInv, TypeOK, Synchronized, Places, Locks, NoLostWakeup, Asleep, Waking, Interrupted, ProcPCs, Sleeping
<1> QED
  BY <1>1, <1>2, <1>3, <1>4, <1>5 DEF IInv

(* Notes are delivered to a process that does not sleep. *)
LEMMA TrapInv ==
  ASSUME IInv, NEW p \in Proc, Trap(p)
  PROVE  IInv'
<1> USE SleepWakeupAssumption DEF Trap, Goto, sleeper, flags, timers, actor, Actor
<1>1. TypeOK'
  BY DEF IInv, TypeOK, PCs, Locks, Places, Sleeping
<1>2. Synchronized'
  BY DEF IInv, TypeOK, Synchronized, Places, Locks, Sleeping
<1>3. Places'
  BY DEF IInv, TypeOK, Synchronized, Places, Locks, ProcPCs, Sleeping
<1>4. Locks'
  BY DEF IInv, TypeOK, Synchronized, Places, Locks, ProcPCs, Sleeping
<1>5. NoLostWakeup'
  BY DEF IInv, TypeOK, Synchronized, Places, Locks, NoLostWakeup, Asleep, Waking, Interrupted, ProcPCs, Sleeping
<1> QED
  BY <1>1, <1>2, <1>3, <1>4, <1>5 DEF IInv

(* Whoever makes a condition true is about to call wakeup. *)
LEMMA SetConditionInv ==
  ASSUME IInv, NEW a \in Waker, NEW r \in Rendez, SetCondition(a, r)
  PROVE  IInv'
<1> USE SleepWakeupAssumption DEF SetCondition, Goto, sleeper, flags, timers, actor, Actor
<1>1. TypeOK'
  BY DEF IInv, TypeOK, PCs, Locks, Places, Sleeping
<1>2. Synchronized'
  BY DEF IInv, TypeOK, Synchronized, Places, Locks, Sleeping
<1>3. Places'
  BY DEF IInv, TypeOK, Synchronized, Places, Locks, ProcPCs, Sleeping
<1>4. Locks'
  BY DEF IInv, TypeOK, Synchronized, Places, Locks, ProcPCs, Sleeping
<1>5. NoLostWakeup'
  BY DEF IInv, TypeOK, Synchronized, Places, Locks, NoLostWakeup, Asleep, Waking, Interrupted, ProcPCs, Sleeping
<1> QED
  BY <1>1, <1>2, <1>3, <1>4, <1>5 DEF IInv

(* wakeup takes r->l, and finds a sleeper or none. *)
LEMMA WakeupLockInv ==
  ASSUME IInv, NEW a \in Waker \cup Cpu, WakeupLock(a)
  PROVE  IInv'
<1> USE SleepWakeupAssumption DEF sleeper, flags, timers, actor, Actor
<1>1. CASE rp[on[a]] = None
  <2>1. /\ pc[a] = "wlockr" /\ rl[on[a]] = None
        /\ UNCHANGED <<sleeper, flags, timers, pl, on, timed>>
        /\ pc' = [pc EXCEPT ![a] = IF a \in Cpu THEN "tdone" ELSE "out"]
        /\ UNCHANGED <<rl, who>>
    BY <1>1 DEF WakeupLock, Woken, Goto
  <2>2. TypeOK'
    BY <2>1 DEF IInv, TypeOK, PCs, Locks, Places, Sleeping
  <2>3. Synchronized'
    BY <2>1 DEF IInv, TypeOK, Synchronized, Places, Locks, Sleeping
  <2>4. Places'
    BY <2>1 DEF IInv, TypeOK, Places, Locks, ProcPCs, Sleeping
  <2>5. Locks'
    <3>1. /\ pc'[a] \in {"out", "tdone"} /\ (pc'[a] = "tdone" => a \in Cpu)
          /\ \A b \in Actor : b # a => pc'[b] = pc[b]
      BY <2>1 DEF IInv, TypeOK
    <3> QED
      BY <2>1, <3>1 DEF IInv, Locks
  <2>6. NoLostWakeup'
    <3>1. \A b \in Actor : b # a => pc'[b] = pc[b]
      BY <2>1 DEF IInv, TypeOK
    <3>2. \A p \in Proc : Asleep(p)' => Asleep(p) /\ on[p] # on[a]
      BY <1>1, <2>1, <3>1, AsleepOn DEF Asleep
    <3>3. \A p \in Proc : on[p] # on[a] /\ Waking(on[p]) => Waking(on[p])'
      BY <2>1, <3>1 DEF Waking
    <3>4. \A b \in Actor : pc[b] \in {"defer", "plock", "ptry", "dispatch"} => pc'[b] = pc[b]
      BY <2>1, <3>1
    <3> QED
      BY <2>1, <3>2, <3>3, <3>4 DEF IInv, NoLostWakeup, Waking, Interrupted
  <2> QED
    BY <2>2, <2>3, <2>4, <2>5, <2>6 DEF IInv
<1>2. CASE rp[on[a]] # None
  <2>1. /\ pc[a] = "wlockr" /\ rl[on[a]] = None
        /\ UNCHANGED <<sleeper, flags, timers, pl, on, timed>>
        /\ rl' = [rl EXCEPT ![on[a]] = a]
        /\ who' = [who EXCEPT ![a] = rp[on[a]]]
        /\ pc' = [pc EXCEPT ![a] = "wlockp"]
    BY <1>2 DEF WakeupLock, Woken, Goto
  <2>2. TypeOK'
    BY <2>1 DEF IInv, TypeOK, PCs, Locks, Places, Sleeping
  <2>3. Synchronized'
    BY <2>1 DEF IInv, TypeOK, Synchronized, Places, Locks, Sleeping
  <2>4. Places'
    BY <2>1 DEF IInv, TypeOK, Places, Locks, ProcPCs, Sleeping
  <2>5. Locks'
    <3>1. /\ pc'[a] = "wlockp" /\ rl'[on[a]] = a /\ on[a] \in Rendez
          /\ who'[a] = rp[on[a]] /\ who'[a] \in Proc
          /\ \A b \in Actor : b # a => pc'[b] = pc[b] /\ who'[b] = who[b]
          /\ \A x \in Rendez : x # on[a] => rl'[x] = rl[x]
      BY <1>2, <2>1 DEF IInv, TypeOK, Locks
    <3>2. \A p \in Proc : p # a
      OBVIOUS
    <3> QED
      BY <2>1, <3>1, <3>2 DEF IInv, Places, Locks, Sleeping
  <2>6. NoLostWakeup'
    BY <2>1 DEF IInv, TypeOK, Synchronized, Places, Locks, NoLostWakeup, Asleep, Waking, Interrupted
  <2> QED
    BY <2>2, <2>3, <2>4, <2>5, <2>6 DEF IInv
<1> QED
  BY <1>1, <1>2

(* With both locks wakeup finds its sleeper where it was. *)
LEMMA WakeupReadyInv ==
  ASSUME IInv, NEW a \in Waker \cup Cpu, WakeupReady(a)
  PROVE  IInv'
<1> USE SleepWakeupAssumption DEF Actor
<1> DEFINE p == who[a]
           r == on[a]
           to == IF a \in Cpu THEN "tdone" ELSE "out"
<1>1. /\ pc[a] = "wlockp" /\ p \in Proc /\ r \in Rendez /\ pl[p] = None
      /\ rl[r] = a /\ rp[r] = p /\ pr[p] = r /\ state[p] = "Wakeme" /\ a \notin Proc
  BY DEF WakeupReady, IInv, Locks, Synchronized
<1>2. /\ Wake(p, r) /\ rl' = [rl EXCEPT ![r] = None] /\ pc' = [pc EXCEPT ![a] = to]
      /\ UNCHANGED <<flags, timers, pl, actor, timed>>
  BY <1>1 DEF WakeupReady, Woken, Goto
<1> HIDE DEF p, r
<1>3. TypeOK'
  BY <1>1, <1>2 DEF IInv, TypeOK, PCs, Wake, flags, timers, actor
<1>4. Synchronized' /\ Places' /\ NoLostWakeup'
  BY <1>1, <1>2, <1>3, WakeInv DEF p, r
<1>5. Locks'
  BY <1>1, <1>2 DEF IInv, TypeOK, Synchronized, Places, Locks, ProcPCs, Wake, actor, p, r
<1> QED
  BY <1>3, <1>4, <1>5 DEF IInv

(* Whoever posts a note goes on to look for the sleeper. *)
LEMMA PostnoteInv ==
  ASSUME IInv, NEW a \in Poster, NEW p \in Proc, Postnote(a, p)
  PROVE  IInv'
<1> USE SleepWakeupAssumption DEF Postnote, Goto, sleeper, flags, timers, actor, Actor
<1>1. TypeOK'
  BY DEF IInv, TypeOK, PCs, Locks, Places, Sleeping
<1>2. Synchronized'
  BY DEF IInv, TypeOK, Synchronized, Places, Locks, Sleeping
<1>3. Places'
  BY DEF IInv, TypeOK, Synchronized, Places, Locks, ProcPCs, Sleeping
<1>4. Locks'
  BY DEF IInv, TypeOK, Synchronized, Places, Locks, ProcPCs, Sleeping
<1>5. NoLostWakeup'
  <2>1. /\ pc'[a] = "defer" /\ who'[a] = p /\ pc[a] = "out"
        /\ \A b \in Actor : b # a => pc'[b] = pc[b] /\ who'[b] = who[b]
        /\ \A q \in Proc : q # p => note'[q] = note[q]
    BY DEF IInv, TypeOK
  <2>2. \A q \in Proc : /\ Asleep(q)' => Asleep(q)
                        /\ Waking(on[q]) => Waking(on[q])'
    BY <2>1 DEF Asleep, Waking
  <2>3. \A b \in Actor : pc[b] \in {"defer", "plock", "ptry", "dispatch"} =>
                           pc'[b] = pc[b] /\ who'[b] = who[b]
    BY <2>1
  <2> HIDE DEF Actor
  <2>4. \A q \in Proc : Asleep(q)' /\ Interrupted(q)' =>
          \E n \in Poster : who'[n] = q /\ pc'[n] \in {"defer", "plock", "ptry"}
    <3> SUFFICES ASSUME NEW q \in Proc, Asleep(q)', Interrupted(q)'
                 PROVE  \E n \in Poster : who'[n] = q /\ pc'[n] \in {"defer", "plock", "ptry"}
      OBVIOUS
    <3>1. CASE q = p
      BY <2>1, <3>1
    <3>2. CASE q # p
      <4>1. Asleep(q) /\ Interrupted(q)
        BY <2>1, <2>2, <3>2 DEF Interrupted
      <4> QED
        BY <2>3, <4>1 DEF IInv, NoLostWakeup, Actor
    <3> QED
      BY <3>1, <3>2
  <2> QED
    BY <2>2, <2>3, <2>4 DEF IInv, NoLostWakeup, Waking, Actor
<1> QED
  BY <1>1, <1>2, <1>3, <1>4, <1>5 DEF IInv

(* postnote leaves alone only a process whose notes are deferred. *)
LEMMA PostnoteDeferredInv ==
  ASSUME IInv, NEW a \in Poster, NEW user \in BOOLEAN, PostnoteDeferred(a, user)
  PROVE  IInv'
<1> USE SleepWakeupAssumption DEF sleeper, flags, timers, actor, Actor
<1>1. CASE deferred[who[a]] /\ user
  <2>1. /\ pc[a] = "defer"
        /\ UNCHANGED <<sleeper, cond, note, alarm, timers, rl, pl, actor, timed>>
        /\ pc' = [pc EXCEPT ![a] = "out"]
        /\ UNCHANGED deferred
        /\ deferred[who[a]]
    BY <1>1 DEF PostnoteDeferred, Goto
  <2>2. TypeOK'
    BY <2>1 DEF IInv, TypeOK, PCs, Locks, Places, Sleeping
  <2>3. Synchronized'
    BY <2>1 DEF IInv, TypeOK, Synchronized, Places, Locks, Sleeping
  <2>4. Places'
    BY <2>1 DEF IInv, TypeOK, Places, Locks, ProcPCs, Sleeping
  <2>5. Locks'
    BY <2>1 DEF IInv, TypeOK, Places, Locks, ProcPCs, Sleeping
  <2>6. NoLostWakeup'
    BY <2>1 DEF IInv, TypeOK, Synchronized, Places, Locks, NoLostWakeup, Asleep, Waking, Interrupted
  <2> QED
    BY <2>2, <2>3, <2>4, <2>5, <2>6 DEF IInv
<1>2. CASE ~(deferred[who[a]] /\ user)
  <2>1. /\ pc[a] = "defer"
        /\ UNCHANGED <<sleeper, cond, note, alarm, timers, rl, pl, actor, timed>>
        /\ pc' = [pc EXCEPT ![a] = "plock"]
        /\ deferred' = [deferred EXCEPT ![who[a]] = FALSE]
    BY <1>2 DEF PostnoteDeferred, Goto
  <2>2. TypeOK'
    BY <2>1 DEF IInv, TypeOK, PCs, Locks, Places, Sleeping
  <2>3. Synchronized'
    BY <2>1 DEF IInv, TypeOK, Synchronized, Places, Locks, Sleeping
  <2>4. Places'
    BY <2>1 DEF IInv, TypeOK, Places, Locks, ProcPCs, Sleeping
  <2>5. Locks'
    BY <2>1 DEF IInv, TypeOK, Places, Locks, ProcPCs, Sleeping
  <2>6. NoLostWakeup'
    BY <2>1 DEF IInv, TypeOK, Synchronized, Places, Locks, NoLostWakeup, Asleep, Waking, Interrupted
  <2> QED
    BY <2>2, <2>3, <2>4, <2>5, <2>6 DEF IInv
<1> QED
  BY <1>1, <1>2

(* postnote takes p->rlock, and finds a Rendez or none. *)
LEMMA PostnoteLockInv ==
  ASSUME IInv, NEW a \in Poster, PostnoteLock(a)
  PROVE  IInv'
<1> USE SleepWakeupAssumption DEF sleeper, flags, timers, actor, Actor
<1>1. CASE pr[who[a]] = None
  <2>1. /\ pc[a] = "plock" /\ pl[who[a]] = None
        /\ UNCHANGED <<sleeper, flags, timers, rl, who, timed>>
        /\ pc' = [pc EXCEPT ![a] = "out"]
        /\ UNCHANGED <<pl, on>>
    BY <1>1 DEF PostnoteLock, Goto
  <2>2. TypeOK'
    BY <2>1 DEF IInv, TypeOK, PCs, Locks, Places, Sleeping
  <2>3. Synchronized'
    BY <2>1 DEF IInv, TypeOK, Synchronized, Places, Locks, Sleeping
  <2>4. Places'
    BY <2>1 DEF IInv, TypeOK, Places, Locks, ProcPCs, Sleeping
  <2>5. Locks'
    BY <2>1 DEF IInv, TypeOK, Places, Locks, ProcPCs, Sleeping
  <2>6. NoLostWakeup'
    <3>1. /\ pc'[a] = "out" /\ \A b \in Actor : b # a => pc'[b] = pc[b]
      BY <2>1 DEF IInv, TypeOK
    <3>2. \A p \in Proc : Asleep(p)' => Asleep(p) /\ p # who[a]
      BY <1>1, <2>1, <3>1, AsleepOn DEF IInv, TypeOK, Asleep
    <3>3. \A p \in Proc : Waking(on[p]) => Waking(on[p])'
      BY <2>1, <3>1 DEF Waking
    <3>4. \A b \in Actor : pc[b] = "dispatch" => pc'[b] = pc[b]
      BY <2>1, <3>1
    <3> QED
      BY <2>1, <3>1, <3>2, <3>3, <3>4 DEF IInv, NoLostWakeup, Waking, Interrupted
  <2> QED
    BY <2>2, <2>3, <2>4, <2>5, <2>6 DEF IInv
<1>2. CASE pr[who[a]] # None
  <2>1. /\ pc[a] = "plock" /\ pl[who[a]] = None
        /\ UNCHANGED <<sleeper, flags, timers, rl, who, timed>>
        /\ pl' = [pl EXCEPT ![who[a]] = a]
        /\ on' = [on EXCEPT ![a] = pr[who[a]]]
        /\ pc' = [pc EXCEPT ![a] = "ptry"]
    BY <1>2 DEF PostnoteLock, Goto
  <2>2. TypeOK'
    BY <2>1 DEF IInv, TypeOK, PCs, Locks, Places, Sleeping
  <2>3. Synchronized'
    BY <2>1 DEF IInv, TypeOK, Synchronized, Places, Locks, Sleeping
  <2>4. Places'
    BY <2>1 DEF IInv, TypeOK, Places, Locks, ProcPCs, Sleeping
  <2>5. Locks'
    <3>1. /\ pc'[a] = "ptry" /\ who[a] \in Proc /\ pl'[who[a]] = a
          /\ on'[a] = pr[who[a]] /\ on'[a] \in Rendez
          /\ \A b \in Actor : b # a => pc'[b] = pc[b] /\ on'[b] = on[b]
          /\ \A x \in Proc : x # who[a] => pl'[x] = pl[x]
      BY <1>2, <2>1 DEF IInv, TypeOK, Locks
    <3>2. \A p \in Proc : p # a
      OBVIOUS
    <3> QED
      BY <2>1, <3>1, <3>2 DEF IInv, Locks
  <2>6. NoLostWakeup'
    BY <2>1 DEF IInv, TypeOK, Synchronized, Places, Locks, NoLostWakeup, Asleep, Waking, Interrupted
  <2> QED
    BY <2>2, <2>3, <2>4, <2>5, <2>6 DEF IInv
<1> QED
  BY <1>1, <1>2

(* postnote wakes the process, or gives p->rlock up and tries again. *)
LEMMA PostnoteTryInv ==
  ASSUME IInv, NEW a \in Poster, PostnoteTry(a)
  PROVE  IInv'
<1> USE SleepWakeupAssumption DEF Actor
<1> DEFINE p == who[a]
           r == on[a]
<1>1. /\ pc[a] = "ptry" /\ p \in Proc /\ r \in Rendez /\ pl[p] = a /\ pr[p] = r
      /\ rp[r] = p /\ state[p] = "Wakeme" /\ a \notin Proc
  BY DEF PostnoteTry, IInv, Locks, Synchronized
<1>2. CASE rl[r] # None
  <2>1. /\ pc' = [pc EXCEPT ![a] = "plock"] /\ pl' = [pl EXCEPT ![p] = None]
        /\ UNCHANGED <<sleeper, flags, timers, rl, actor, timed>>
    BY <1>2 DEF PostnoteTry, Goto
  <2> USE DEF sleeper, flags, timers, actor
  <2> HIDE DEF p, r
  <2>2. TypeOK'
    BY <1>1, <2>1 DEF IInv, TypeOK, PCs
  <2>3. Synchronized' /\ Places'
    <3>1. /\ pc'[a] = "plock" /\ \A b \in Actor : b # a => pc'[b] = pc[b]
          /\ \A q \in Proc : pc'[q] = pc[q]
      BY <1>1, <2>1 DEF IInv, TypeOK
    <3> QED
      BY <1>1, <2>1, <3>1 DEF IInv, Synchronized, Places, ProcPCs, Sleeping
  <2>4. Locks'
    BY <1>1, <2>1 DEF IInv, TypeOK, Places, Locks, ProcPCs, p, r
  <2>5. NoLostWakeup'
    BY <1>1, <2>1 DEF IInv, TypeOK, NoLostWakeup, Asleep, Waking, Interrupted
  <2> QED
    BY <2>2, <2>3, <2>4, <2>5 DEF IInv
<1>3. CASE rl[r] = None
  <2>1. /\ Wake(p, r) /\ pl' = [pl EXCEPT ![p] = None] /\ pc' = [pc EXCEPT ![a] = "out"]
        /\ UNCHANGED <<flags, timers, rl, actor, timed>>
    BY <1>1, <1>3 DEF PostnoteTry, Goto
  <2> HIDE DEF p, r
  <2>2. TypeOK'
    BY <1>1, <2>1 DEF IInv, TypeOK, PCs, Wake, flags, timers, actor
  <2>3. Synchronized' /\ Places' /\ NoLostWakeup'
    BY <1>1, <2>1, <2>2, WakeInv DEF p, r
  <2>4. Locks'
    BY <1>1, <1>3, <2>1 DEF IInv, TypeOK, Synchronized, Places, Locks, ProcPCs, Wake, actor, p, r
  <2> QED
    BY <2>2, <2>3, <2>4 DEF IInv
<1> QED
  BY <1>2, <1>3

(* An alarm that elapses is given to awake_ringer. *)
LEMMA ElapseInv ==
  ASSUME IInv, NEW a \in Ringer, NEW p \in Proc, Elapse(a, p)
  PROVE  IInv'
<1> USE SleepWakeupAssumption DEF Elapse, Goto, sleeper, flags, timers, actor, Actor
<1>1. TypeOK'
  BY DEF IInv, TypeOK, PCs, Locks, Places, Sleeping
<1>2. Synchronized'
  BY DEF IInv, TypeOK, Synchronized, Places, Locks, Sleeping
<1>3. Places'
  BY DEF IInv, TypeOK, Synchronized, Places, Locks, ProcPCs, Sleeping
<1>4. Locks'
  BY DEF IInv, TypeOK, Synchronized, Places, Locks, ProcPCs, Sleeping
<1>5. NoLostWakeup'
  BY DEF IInv, TypeOK, Synchronized, Places, Locks, NoLostWakeup, Asleep, Waking, Interrupted, ProcPCs, Sleeping
<1> QED
  BY <1>1, <1>2, <1>3, <1>4, <1>5 DEF IInv

(* awake_dispatch wakes the process when it gets both locks. *)
LEMMA DispatchInv ==
  ASSUME IInv, NEW a \in Ringer, Dispatch(a)
  PROVE  IInv'
<1> USE SleepWakeupAssumption DEF Actor
<1> DEFINE p == who[a]
           r == pr[p]
<1>1. /\ pc[a] = "dispatch" /\ p \in Proc /\ r \in Rendez /\ pl[p] = None
      /\ rl[r] = None /\ rp[r] = p /\ state[p] = "Wakeme" /\ a \notin Proc
  BY DEF Dispatch, IInv, TypeOK, Locks, Synchronized
<1>2. /\ Wake(p, r) /\ pc' = [pc EXCEPT ![a] = "signaled"]
      /\ UNCHANGED <<flags, timers, rl, pl, actor, timed>>
  BY <1>1 DEF Dispatch, Goto
<1>3. pr[p] = r
  OBVIOUS
<1> HIDE DEF r
<1>4. TypeOK'
  BY <1>1, <1>2 DEF IInv, TypeOK, PCs, Wake, flags, timers, actor
<1>5. Synchronized' /\ Places' /\ NoLostWakeup'
  BY <1>1, <1>2, <1>3, <1>4, WakeInv
<1>6. Locks'
  BY <1>1, <1>2, <1>3 DEF IInv, TypeOK, Synchronized, Places, Locks, ProcPCs, Wake, actor
<1> QED
  BY <1>4, <1>5, <1>6 DEF IInv

(* awake_dispatch is done when the alarm was taken. *)
LEMMA DispatchFreeInv ==
  ASSUME IInv, NEW a \in Ringer, DispatchFree(a)
  PROVE  IInv'
<1> USE SleepWakeupAssumption DEF DispatchFree, Goto, sleeper, flags, timers, actor, Actor
<1>1. TypeOK'
  BY DEF IInv, TypeOK, PCs, Locks, Places, Sleeping
<1>2. Synchronized'
  BY DEF IInv, TypeOK, Synchronized, Places, Locks, Sleeping
<1>3. Places'
  BY DEF IInv, TypeOK, Synchronized, Places, Locks, ProcPCs, Sleeping
<1>4. Locks'
  BY DEF IInv, TypeOK, Synchronized, Places, Locks, ProcPCs, Sleeping
<1>5. NoLostWakeup'
  BY DEF IInv, TypeOK, Synchronized, Places, Locks, NoLostWakeup, Asleep, Waking, Interrupted, ProcPCs, Sleeping
<1> QED
  BY <1>1, <1>2, <1>3, <1>4, <1>5 DEF IInv

(* timerintr takes the timer off its list. *)
LEMMA TimerintrInv ==
  ASSUME IInv, NEW a \in Cpu, NEW p \in Proc, Timerintr(a, p)
  PROVE  IInv'
<1> USE SleepWakeupAssumption DEF Timerintr, Goto, sleeper, flags, timers, actor, Actor
<1>1. TypeOK'
  BY DEF IInv, TypeOK, PCs, Locks, Places, Sleeping
<1>2. Synchronized'
  BY DEF IInv, TypeOK, Synchronized, Places, Locks, Sleeping
<1>3. Places'
  BY DEF IInv, TypeOK, Synchronized, Places, Locks, ProcPCs, Sleeping
<1>4. Locks'
  BY DEF IInv, TypeOK, Synchronized, Places, Locks, ProcPCs, Sleeping
<1>5. NoLostWakeup'
  BY DEF IInv, TypeOK, Synchronized, Places, Locks, NoLostWakeup, Asleep, Waking, Interrupted, ProcPCs, Sleeping
<1> QED
  BY <1>1, <1>2, <1>3, <1>4, <1>5 DEF IInv

(* twakeup takes the lock of the timer, and finds a Rendez or none. *)
LEMMA TwakeupLockInv ==
  ASSUME IInv, NEW a \in Cpu, TwakeupLock(a)
  PROVE  IInv'
<1> USE SleepWakeupAssumption DEF sleeper, flags, timers, actor, Actor
<1>1. CASE trend[who[a]] = None
  <2>1. /\ pc[a] = "tlock" /\ tl[who[a]] = None
        /\ UNCHANGED <<sleeper, flags, trend, timer, rl, pl, who, timed>>
        /\ pc' = [pc EXCEPT ![a] = "out"]
        /\ UNCHANGED <<tl, on>>
    BY <1>1 DEF TwakeupLock, Goto
  <2>2. TypeOK'
    BY <2>1 DEF IInv, TypeOK, PCs, Locks, Places, Sleeping
  <2>3. Synchronized'
    BY <2>1 DEF IInv, TypeOK, Synchronized, Places, Locks, Sleeping
  <2>4. Places'
    BY <2>1 DEF IInv, TypeOK, Places, Locks, ProcPCs, Sleeping
  <2>5. Locks'
    BY <2>1 DEF IInv, TypeOK, Places, Locks, ProcPCs, Sleeping
  <2>6. NoLostWakeup'
    BY <2>1 DEF IInv, TypeOK, Synchronized, Places, Locks, NoLostWakeup, Asleep, Waking, Interrupted
  <2> QED
    BY <2>2, <2>3, <2>4, <2>5, <2>6 DEF IInv
<1>2. CASE trend[who[a]] # None
  <2>1. /\ pc[a] = "tlock" /\ tl[who[a]] = None
        /\ UNCHANGED <<sleeper, flags, trend, timer, rl, pl, who, timed>>
        /\ tl' = [tl EXCEPT ![who[a]] = a]
        /\ on' = [on EXCEPT ![a] = trend[who[a]]]
        /\ pc' = [pc EXCEPT ![a] = "wlockr"]
    BY <1>2 DEF TwakeupLock, Goto
  <2>2. TypeOK'
    BY <2>1 DEF IInv, TypeOK, PCs, Locks, Places, Sleeping
  <2>3. Synchronized'
    BY <2>1 DEF IInv, TypeOK, Synchronized, Places, Locks, Sleeping
  <2>4. Places'
    BY <2>1 DEF IInv, TypeOK, Places, Locks, ProcPCs, Sleeping
  <2>5. Locks'
    <3>1. /\ pc'[a] = "wlockr" /\ on'[a] \in Rendez /\ who[a] \in Proc
          /\ \A b \in Actor : b # a => pc'[b] = pc[b] /\ on'[b] = on[b]
      BY <1>2, <2>1 DEF IInv, TypeOK, Locks
    <3>2. \A p \in Proc : p # a
      OBVIOUS
    <3> QED
      BY <2>1, <3>1, <3>2 DEF IInv, Locks
  <2>6. NoLostWakeup'
    BY <2>1 DEF IInv, TypeOK, Synchronized, Places, Locks, NoLostWakeup, Asleep, Waking, Interrupted
  <2> QED
    BY <2>2, <2>3, <2>4, <2>5, <2>6 DEF IInv
<1> QED
  BY <1>1, <1>2

(* twakeup clears p->trend. *)
LEMMA TwakeupDoneInv ==
  ASSUME IInv, NEW a \in Cpu, TwakeupDone(a)
  PROVE  IInv'
<1> USE SleepWakeupAssumption DEF TwakeupDone, Goto, sleeper, flags, timers, actor, Actor
<1>1. TypeOK'
  BY DEF IInv, TypeOK, PCs, Locks, Places, Sleeping
<1>2. Synchronized'
  BY DEF IInv, TypeOK, Synchronized, Places, Locks, Sleeping
<1>3. Places'
  BY DEF IInv, TypeOK, Synchronized, Places, Locks, ProcPCs, Sleeping
<1>4. Locks'
  BY DEF IInv, TypeOK, Synchronized, Places, Locks, ProcPCs, Sleeping
<1>5. NoLostWakeup'
  BY DEF IInv, TypeOK, Synchronized, Places, Locks, NoLostWakeup, Asleep, Waking, Interrupted, ProcPCs, Sleeping
<1> QED
  BY <1>1, <1>2, <1>3, <1>4, <1>5 DEF IInv

(* At the start nobody sleeps. *)
LEMMA InitInv == Init => IInv
<1> SUFFICES ASSUME Init PROVE IInv
  OBVIOUS
<1> USE SleepWakeupAssumption DEF Init
<1>1. TypeOK
  BY DEF TypeOK, PCs, Actor
<1>2. Synchronized /\ Places /\ Locks
  BY DEF Synchronized, Places, Locks, ProcPCs, Sleeping, Actor
<1>3. NoLostWakeup
  BY DEF NoLostWakeup, Asleep, Actor
<1> QED
  BY <1>1, <1>2, <1>3 DEF IInv

(* Every step keeps the invariant. *)
LEMMA NextInv == IInv /\ [Next]_vars => IInv'
<1> SUFFICES ASSUME IInv, [Next]_vars PROVE IInv'
  OBVIOUS
<1>1. CASE UNCHANGED vars
  <2> USE <1>1 DEF vars, sleeper, flags, timers, actor
  <2>1. TypeOK' /\ Synchronized' /\ Places' /\ Locks'
    BY DEF IInv, TypeOK, Synchronized, Places, Locks
  <2>2. NoLostWakeup'
    BY DEF IInv, NoLostWakeup, Asleep, Waking, Interrupted
  <2> QED
    BY <2>1, <2>2 DEF IInv
<1>2. ASSUME NEW p \in Proc, ProcStep(p) PROVE IInv'
  BY <1>2, TimeraddInv, SleepLockInv, SleepCommitInv, ResumeInv, SleepCheckInv,
     StoptimerInv, TimerdelInv DEF ProcStep
<1>3. ASSUME NEW a \in Actor \ Proc, ActorStep(a) PROVE IInv'
  BY <1>3, WakeupLockInv, WakeupReadyInv, PostnoteDeferredInv, PostnoteLockInv,
     PostnoteTryInv, DispatchInv, DispatchFreeInv, TwakeupLockInv, TwakeupDoneInv DEF ActorStep
<1>4. ASSUME Environment PROVE IInv'
  BY <1>4, NotedeferInv, NoteallowInv, TrapInv, SleepInv, TsleepInv, ConsumeInv,
     SetConditionInv, PostnoteInv, ElapseInv, TimerintrInv DEF Environment
<1> QED
  BY <1>1, <1>2, <1>3, <1>4 DEF Next

(* The invariant holds of every behaviour. *)
THEOREM Invariance == Spec => []IInv
  BY InitInv, NextInv, PTL DEF Spec

(* sleep, wakeup, postnote and awake_dispatch keep r->p and p->r           *)
(* synchronized: none of their panics is reached, whatever the order they  *)
(* take the two locks in.                                                  *)
THEOREM SleepSynchronized == Spec => []Synchronized
<1>1. IInv => Synchronized
  BY DEF IInv
<1> QED
  BY <1>1, Invariance, PTL

(* A process never sleeps on a condition that is true, or with a note or   *)
(* an alarm to take, without somebody on the way to wake it.               *)
THEOREM SleepNoLostWakeup == Spec => []NoLostWakeup
<1>1. IInv => NoLostWakeup
  BY DEF IInv
<1> QED
  BY <1>1, Invariance, PTL
-----------------------------------------------------------------------------
(* The timer of tsleep: where a processor in twakeup is. *)
InTwakeup == {"wlockr", "wlockp", "tdone"}

(* p->trend is the Rendez of the tsleep that p is in, until stoptimer.     *)
TsleepHas(p) == /\ trend[p] # None => timed[p] /\ trend[p] = on[p]
                /\ timed[p] => pc[p] # "out"
                /\ pc[p] = "timerdel" => trend[p] = None

(* Whoever's timer is locked cannot leave tsleep. *)
Held(p) == tl[p] # None => timed[p] /\ (trend[p] # None \/ pc[p] = "timerdel")

(* The processor in twakeup has the lock of the timer of the process it    *)
(* deals with, also after wakeup has looked up who sleeps on the Rendez.   *)
Holder(c) == pc[c] \in InTwakeup => /\ who[c] \in Proc /\ tl[who[c]] = c
                                    /\ on[c] \in Rendez /\ on[who[c]] = on[c]

(* The timer is on its list, or in the hands of a processor. *)
Kept(p) == pc[p] \in {"lockr", "lockp", "asleep"} /\ trend[p] # None =>
             timer[p] \/ \E c \in Cpu : who[c] = p /\ pc[c] \in InTwakeup \cup {"tlock"}

TInv == /\ \A p \in Proc : TsleepHas(p) /\ Held(p) /\ Kept(p)
        /\ \A c \in Cpu : Holder(c)

(* At the start there are no timers. *)
LEMMA InitTInv == Init => TInv
BY SleepWakeupAssumption DEF Init, TInv, TsleepHas, Held, Kept, Holder, InTwakeup, Actor

(* Steps of processes. *)
LEMMA ProcTInv ==
  ASSUME IInv, TInv, NEW p \in Proc, ProcStep(p)
  PROVE  TInv'
<1> USE SleepWakeupAssumption
    DEF Goto, sleeper, flags, timers, actor, Actor, TInv, TsleepHas, Held, Kept, Holder, InTwakeup
<1>1. CASE Timeradd(p)
  BY <1>1 DEF Timeradd, IInv, TypeOK, Places, ProcPCs, Sleeping
<1>2. CASE SleepLock(p)
  BY <1>2 DEF SleepLock, IInv, TypeOK, Places, ProcPCs, Sleeping
<1>3. CASE SleepCommit(p)
  BY <1>3 DEF SleepCommit, IInv, TypeOK, Places, ProcPCs, Sleeping
<1>4. CASE Resume(p)
  BY <1>4 DEF Resume, IInv, TypeOK, Places, ProcPCs, Sleeping
<1>5. CASE SleepCheck(p)
  BY <1>5 DEF SleepCheck, Leave, IInv, TypeOK, Places, ProcPCs, Sleeping
<1>6. CASE Stoptimer(p)
  BY <1>6 DEF Stoptimer, IInv, TypeOK, Places, ProcPCs, Sleeping
<1>7. CASE Timerdel(p)
  BY <1>7 DEF Timerdel, IInv, TypeOK, Places, ProcPCs, Sleeping
<1> QED
  BY <1>1, <1>2, <1>3, <1>4, <1>5, <1>6, <1>7 DEF ProcStep

(* A step inside twakeup that leaves the timers alone. *)
LEMMA TwakeupGoesOn ==
  ASSUME TInv, UNCHANGED <<trend, timer, tl, timed, on>>, \A p \in Proc : pc'[p] = pc[p],
         \A c \in Cpu : /\ who'[c] = who[c]
                        /\ pc'[c] = pc[c] \/ (pc[c] \in InTwakeup /\ pc'[c] \in InTwakeup)
  PROVE  TInv'
<1>1. \A p \in Proc : TsleepHas(p)' /\ Held(p)'
  BY DEF TInv, TsleepHas, Held
<1>2. \A p \in Proc : Kept(p)'
  <2> SUFFICES ASSUME NEW p \in Proc, pc[p] \in {"lockr", "lockp", "asleep"}, trend[p] # None, ~timer[p]
               PROVE  \E c \in Cpu : who'[c] = p /\ pc'[c] \in InTwakeup \cup {"tlock"}
    BY DEF Kept
  <2>1. PICK c \in Cpu : who[c] = p /\ pc[c] \in InTwakeup \cup {"tlock"}
    BY DEF TInv, Kept
  <2> QED
    BY <2>1
<1>3. \A c \in Cpu : Holder(c)'
  BY DEF TInv, Holder
<1> QED
  BY <1>1, <1>2, <1>3 DEF TInv

(* wakeup of the Rendez of a timer finds the process of that timer, if     *)
(* any: nobody else sleeps on it.                                          *)
LEMMA WakeupTInv ==
  ASSUME IInv, TInv, NEW a \in Waker \cup Cpu, WakeupLock(a) \/ WakeupReady(a)
  PROVE  TInv'
<1> USE SleepWakeupAssumption DEF Goto, timers, actor, Actor
<1>1. a \notin Proc
  OBVIOUS
<1>2. CASE WakeupLock(a) /\ rp[on[a]] = None
  <2>1. /\ pc[a] = "wlockr" /\ pc' = [pc EXCEPT ![a] = IF a \in Cpu THEN "tdone" ELSE "out"]
        /\ UNCHANGED <<on, who, trend, timer, tl, timed>>
    BY <1>2 DEF WakeupLock, Woken
  <2> QED
    BY <1>1, <2>1, TwakeupGoesOn DEF IInv, TypeOK, InTwakeup
<1>3. CASE WakeupLock(a) /\ rp[on[a]] # None
  <2>1. /\ pc[a] = "wlockr" /\ who' = [who EXCEPT ![a] = rp[on[a]]]
        /\ pc' = [pc EXCEPT ![a] = "wlockp"]
        /\ UNCHANGED <<on, trend, timer, tl, timed>>
    BY <1>3 DEF WakeupLock
  <2>2. rp[on[a]] \in Proc /\ on[rp[on[a]]] = on[a] /\ on[a] \in Rendez
    BY <1>3, <2>1 DEF IInv, TypeOK, Synchronized, Places, Locks
  <2>3. a \in Cpu => rp[on[a]] = who[a]
    BY <2>1, <2>2 DEF IInv, Places, TInv, Holder, InTwakeup
  <2> QED
    BY <1>1, <2>1, <2>3, TwakeupGoesOn DEF IInv, TypeOK, InTwakeup
<1>4. CASE WakeupReady(a)
  <2>1. /\ pc[a] = "wlockp"
        /\ \/ pc' = [pc EXCEPT ![a] = "panic"]
           \/ pc' = [pc EXCEPT ![a] = IF a \in Cpu THEN "tdone" ELSE "out"]
        /\ UNCHANGED <<on, who, trend, timer, tl, timed>>
    BY <1>4 DEF WakeupReady, Woken
  <2>2. pc' # [pc EXCEPT ![a] = "panic"]
    BY <1>4, WakeupReadyInv DEF IInv, TypeOK, Synchronized
  <2> QED
    BY <1>1, <2>1, <2>2, TwakeupGoesOn DEF IInv, TypeOK, InTwakeup
<1> QED
  BY <1>2, <1>3, <1>4

(* Steps of the others. *)
LEMMA ActorTInv ==
  ASSUME IInv, TInv, NEW a \in Actor \ Proc, ActorStep(a)
  PROVE  TInv'
<1> USE SleepWakeupAssumption
    DEF Goto, sleeper, flags, timers, actor, Actor, TInv, TsleepHas, Held, Kept, Holder, InTwakeup
<1>1. CASE a \in Waker \cup Cpu /\ (WakeupLock(a) \/ WakeupReady(a))
  BY <1>1, WakeupTInv
<1>2. ASSUME NEW user \in BOOLEAN, PostnoteDeferred(a, user) PROVE TInv'
  BY <1>2 DEF PostnoteDeferred, IInv, TypeOK
<1>3. CASE PostnoteLock(a)
  BY <1>3 DEF PostnoteLock, IInv, TypeOK
<1>4. CASE PostnoteTry(a)
  BY <1>4 DEF PostnoteTry, Wake, IInv, TypeOK
<1>5. CASE Dispatch(a)
  BY <1>5 DEF Dispatch, Wake, IInv, TypeOK
<1>6. CASE DispatchFree(a)
  BY <1>6 DEF DispatchFree, IInv, TypeOK
<1>7. CASE a \in Cpu /\ TwakeupLock(a)
  BY <1>7 DEF TwakeupLock, IInv, TypeOK, Locks, Places
<1>8. CASE a \in Cpu /\ TwakeupDone(a)
  BY <1>8 DEF TwakeupDone, IInv, TypeOK
<1> QED
  BY <1>1, <1>2, <1>3, <1>4, <1>5, <1>6, <1>7, <1>8 DEF ActorStep

(* What is asked for from outside. *)
LEMMA EnvironmentTInv ==
  ASSUME IInv, TInv, Environment
  PROVE  TInv'
<1> USE SleepWakeupAssumption
    DEF Goto, sleeper, flags, timers, actor, Actor, TInv, TsleepHas, Held, Kept, Holder, InTwakeup
<1>1. ASSUME NEW p \in Proc, Notedefer(p) \/ Noteallow(p) \/ Trap(p) PROVE TInv'
  BY <1>1 DEF Notedefer, Noteallow, Trap
<1>2. ASSUME NEW p \in Proc, NEW r \in Rendez, Sleep(p, r) PROVE TInv'
  BY <1>2 DEF Sleep, Choose, IInv, TypeOK
<1>3. ASSUME NEW p \in Proc, NEW r \in Rendez, Tsleep(p, r) PROVE TInv'
  BY <1>3 DEF Tsleep, Choose, IInv, TypeOK
<1>4. ASSUME NEW p \in Proc, NEW r \in Rendez, Consume(p, r) PROVE TInv'
  BY <1>4 DEF Consume
<1>5. ASSUME NEW w \in Waker, NEW r \in Rendez, SetCondition(w, r) PROVE TInv'
  BY <1>5 DEF SetCondition, IInv, TypeOK
<1>6. ASSUME NEW n \in Poster, NEW p \in Proc, Postnote(n, p) PROVE TInv'
  BY <1>6 DEF Postnote, IInv, TypeOK
<1>7. ASSUME NEW n \in Ringer, NEW p \in Proc, Elapse(n, p) PROVE TInv'
  BY <1>7 DEF Elapse, IInv, TypeOK
<1>8. ASSUME NEW c \in Cpu, NEW p \in Proc, Timerintr(c, p) PROVE TInv'
  BY <1>8 DEF Timerintr, IInv, TypeOK
<1> QED
  BY <1>1, <1>2, <1>3, <1>4, <1>5, <1>6, <1>7, <1>8 DEF Environment

(* What is known of timers holds of every behaviour. *)
THEOREM TimerInvariance == Spec => []TInv
<1>1. IInv /\ TInv /\ [Next]_vars => TInv'
  <2> SUFFICES ASSUME IInv, TInv, [Next]_vars PROVE TInv'
    OBVIOUS
  <2>1. CASE UNCHANGED vars
    BY <2>1 DEF vars, timers, actor, TInv, TsleepHas, Held, Kept, Holder
  <2> QED
    BY <2>1, ProcTInv, ActorTInv, EnvironmentTInv DEF Next
<1> QED
  BY <1>1, InitTInv, Invariance, PTL DEF Spec

(* A timer that went off does not touch the Rendez of a tsleep that has    *)
(* returned: stoptimer waits for twakeup.                                  *)
THEOREM SleepNoStaleRendez == Spec => []NoStaleRendez
<1>1. TInv => NoStaleRendez
  BY SleepWakeupAssumption DEF TInv, Holder, Held, NoStaleRendez, InTwakeup, Actor
<1> QED
  BY <1>1, TimerInvariance, PTL

(* A process asleep in tsleep has its timer, or a processor that is in     *)
(* twakeup for it, unless twakeup is done with it.                         *)
THEOREM SleepTimeoutKept == Spec => []TimeoutKept
<1>1. TInv => TimeoutKept
  BY DEF TInv, Kept, TimeoutKept, Asleep, InTwakeup
<1> QED
  BY <1>1, TimerInvariance, PTL

(* Every variable keeps its type. *)
THEOREM SleepTypeOK == Spec => []TypeOK
<1>1. IInv => TypeOK
  BY DEF IInv
<1> QED
  BY <1>1, Invariance, PTL
=============================================================================
