---------------------------- MODULE SleepWakeup ----------------------------
(***************************************************************************)
(* sleep, wakeup, postnote and tsleep of the kernel,                       *)
(* sys/src/kern/port/proc.c:673-928 and 1000-1024, with the timer of       *)
(* tsleep (portclock.c) and the part of awake.c that interrupts a sleeper. *)
(*                                                                         *)
(* The spin locks r->l and p->rlock are modelled: sleep and wakeup take    *)
(* r->l first, postnote p->rlock.  The last lock taken and what is done    *)
(* with it are one step.  Processes may move from one processor to         *)
(* another, so a timer interrupt runs concurrently with the process whose  *)
(* timer it is.                                                            *)
(***************************************************************************)
EXTENDS Integers, FiniteSets

CONSTANTS Proc,     \* processes that sleep
          Rendez,   \* what they sleep on
          Waker,    \* who makes a condition true and calls wakeup
          Poster,   \* who calls postnote
          Ringer,   \* awake_ringer's dispatches
          Cpu,      \* processors in timerintr
          Ops,      \* what processes call: "sleep", "tsleep", "notedefer"
          None

Actor == Proc \cup Waker \cup Poster \cup Ringer \cup Cpu

ASSUME SleepWakeupAssumption ==
  /\ Ops \subseteq {"sleep", "tsleep", "notedefer"}
  /\ None \notin Actor \cup Rendez
  /\ Proc \cap (Waker \cup Poster \cup Ringer \cup Cpu) = {}
  /\ Cpu \cap Waker = {}

VARIABLES cond,      \* the condition f(arg) waited for on each Rendez
          rp,        \* Rendez.p
          pr,        \* Proc.r
          state,     \* Proc.state: Running, Wakeme, Ready
          note,      \* Proc.notepending
          deferred,  \* Proc.notedeferred
          alarm,     \* Proc.wakeups[].elapsed, in an interruptible system call
          trend,     \* Proc.trend
          timer,     \* Proc.tt != nil: the timer is in a list
          rl, pl, tl,  \* holders of r->l, p->rlock and of the lock of the Timer
          pc,        \* where each actor is
          on,        \* the Rendez it is dealing with
          who,       \* the process it is dealing with
          timed      \* the process is in tsleep

sleeper == <<rp, pr, state>>
flags == <<cond, note, deferred, alarm>>
timers == <<trend, timer, tl>>
actor == <<on, who>>
vars == <<sleeper, flags, timers, rl, pl, pc, actor, timed>>

(* Of processes: timeradd, lockr, lockp: before those calls; asleep: in    *)
(* sched(); check: the tests after it; stop, timerdel: in stoptimer.       *)
(* Of the others: wlockr, wlockp: the two locks of wakeup; defer, plock,   *)
(* ptry: postnote before the test of notedeferred, lock(&p->rlock),        *)
(* canlock(&r->l); dispatch, signaled: in awake_dispatch; tlock, tdone: in *)
(* twakeup before ilock and after wakeup.                                  *)
PCs == {"out", "timeradd", "lockr", "lockp", "asleep", "check", "stop", "timerdel",
        "wlockr", "wlockp", "defer", "plock", "ptry", "dispatch", "signaled",
        "tlock", "tdone", "panic"}

Init == /\ cond = [r \in Rendez |-> FALSE]
        /\ rp = [r \in Rendez |-> None]
        /\ pr = [p \in Proc |-> None]
        /\ state = [p \in Proc |-> "Running"]
        /\ note = [p \in Proc |-> FALSE]
        /\ deferred = [p \in Proc |-> FALSE]
        /\ alarm = [p \in Proc |-> FALSE]
        /\ trend = [p \in Proc |-> None]
        /\ timer = [p \in Proc |-> FALSE]
        /\ rl = [r \in Rendez |-> None]
        /\ pl = [p \in Proc |-> None]
        /\ tl = [p \in Proc |-> None]
        /\ pc = [a \in Actor |-> "out"]
        /\ on = [a \in Actor |-> None]
        /\ who = [a \in Actor |-> None]
        /\ timed = [p \in Proc |-> FALSE]

Goto(a, to) == pc' = [pc EXCEPT ![a] = to]
Interrupted(p) == note[p] /\ ~deferred[p]
-----------------------------------------------------------------------------
(* A Rendez has one sleeper at a time: its users see to that. *)
Choose(p, r) == /\ pc[p] = "out"
                /\ \A q \in Proc : on[q] # r
                /\ on' = [on EXCEPT ![p] = r]

Sleep(p, r) == /\ "sleep" \in Ops /\ Choose(p, r)
               /\ Goto(p, "lockr")
               /\ UNCHANGED <<sleeper, flags, timers, rl, pl, who, timed>>

Tsleep(p, r) == /\ "tsleep" \in Ops /\ Choose(p, r)
                /\ trend' = [trend EXCEPT ![p] = r]
                /\ timed' = [timed EXCEPT ![p] = TRUE]
                /\ Goto(p, "timeradd")
                /\ UNCHANGED <<sleeper, flags, timer, tl, rl, pl, who>>

(* mutant: the timer gets on no list *)
TimeraddForgets(p) == /\ pc[p] = "timeradd" /\ tl[p] = None
                      /\ Goto(p, "lockr")
                      /\ UNCHANGED <<sleeper, flags, trend, timer, tl, rl, pl, actor, timed>>
Timeradd(p) == /\ pc[p] = "timeradd" /\ tl[p] = None
               /\ timer' = [timer EXCEPT ![p] = TRUE]
               /\ Goto(p, "lockr")
               /\ UNCHANGED <<sleeper, flags, trend, tl, rl, pl, actor, timed>>

SleepLock(p) == /\ pc[p] = "lockr" /\ rl[on[p]] = None
                /\ rl' = [rl EXCEPT ![on[p]] = p]
                /\ Goto(p, "lockp")
                /\ UNCHANGED <<sleeper, flags, timers, pl, actor, timed>>

(* f(arg), or tfn of tsleep *)
(* mutant: only the timer is asked *)
HappenedTimer(p) == timed[p] /\ trend[p] = None
Happened(p) == cond[on[p]] \/ (timed[p] /\ trend[p] = None)

(* mutant: notes are not looked at with the locks held *)
SleepCommitBlind(p) ==
  /\ pc[p] = "lockp" /\ pl[p] = None
  /\ IF Happened(p)
     THEN Goto(p, "check") /\ UNCHANGED sleeper
     ELSE /\ rp' = [rp EXCEPT ![on[p]] = p]
          /\ pr' = [pr EXCEPT ![p] = on[p]]
          /\ state' = [state EXCEPT ![p] = "Wakeme"]
          /\ Goto(p, "asleep")
  /\ rl' = [rl EXCEPT ![on[p]] = None]
  /\ UNCHANGED <<flags, timers, pl, actor, timed>>
(* With both locks: never mind, or commit to sleep.  The locks are         *)
(* released before the processor is given up.                              *)
SleepCommit(p) ==
  /\ pc[p] = "lockp" /\ pl[p] = None
  /\ IF Happened(p) \/ Interrupted(p) \/ alarm[p]
     THEN Goto(p, "check") /\ UNCHANGED sleeper
     ELSE /\ rp' = [rp EXCEPT ![on[p]] = p]
          /\ pr' = [pr EXCEPT ![p] = on[p]]
          /\ state' = [state EXCEPT ![p] = "Wakeme"]
          /\ Goto(p, "asleep")
  /\ rl' = [rl EXCEPT ![on[p]] = None]
  /\ UNCHANGED <<flags, timers, pl, actor, timed>>

(* The scheduler takes p->rlock to make it Running. *)
Resume(p) == /\ pc[p] = "asleep" /\ state[p] = "Ready" /\ pl[p] = None
             /\ state' = [state EXCEPT ![p] = "Running"]
             /\ Goto(p, "check")
             /\ UNCHANGED <<rp, pr, flags, timers, rl, pl, actor, timed>>

(* A note, else an alarm, is an error(Eintr): both leave tsleep through    *)
(* stoptimer, as the normal return does.                                   *)
Leave(p) == IF timed[p] THEN Goto(p, "stop") /\ UNCHANGED on
                        ELSE Goto(p, "out") /\ on' = [on EXCEPT ![p] = None]
SleepCheck(p) ==
  /\ pc[p] = "check"
  /\ note' = [note EXCEPT ![p] = @ /\ deferred[p]]
  /\ alarm' = [alarm EXCEPT ![p] = @ /\ Interrupted(p)]
  /\ Leave(p)
  /\ UNCHANGED <<sleeper, cond, deferred, timers, rl, pl, who, timed>>

(* mutant: a timer that is running is not waited for *)
StoptimerNoWait(p) == /\ pc[p] = "stop"
                      /\ trend' = [trend EXCEPT ![p] = None]
                      /\ timer' = [timer EXCEPT ![p] = FALSE]
                      /\ timed' = [timed EXCEPT ![p] = FALSE]
                      /\ on' = [on EXCEPT ![p] = None]
                      /\ Goto(p, "out")
                      /\ UNCHANGED <<sleeper, flags, tl, rl, pl, who>>
Stoptimer(p) ==
  /\ pc[p] = "stop"
  /\ IF trend[p] # None \/ timer[p]
     THEN Goto(p, "timerdel") /\ UNCHANGED <<on, timed>>
     ELSE /\ on' = [on EXCEPT ![p] = None]
          /\ timed' = [timed EXCEPT ![p] = FALSE]
          /\ Goto(p, "out")
  /\ trend' = [trend EXCEPT ![p] = None]
  /\ UNCHANGED <<sleeper, flags, timer, tl, rl, pl, who>>

Timerdel(p) == /\ pc[p] = "timerdel" /\ tl[p] = None
               /\ timer' = [timer EXCEPT ![p] = FALSE]
               /\ on' = [on EXCEPT ![p] = None]
               /\ timed' = [timed EXCEPT ![p] = FALSE]
               /\ Goto(p, "out")
               /\ UNCHANGED <<sleeper, flags, trend, tl, rl, pl, who>>

(* notedefer raises Eintr when a note is there already. *)
Notedefer(p) == /\ "notedefer" \in Ops /\ pc[p] = "out" /\ ~deferred[p]
                /\ IF note[p] THEN note' = [note EXCEPT ![p] = FALSE] /\ UNCHANGED deferred
                              ELSE deferred' = [deferred EXCEPT ![p] = TRUE] /\ UNCHANGED note
                /\ UNCHANGED <<sleeper, cond, alarm, timers, rl, pl, pc, actor, timed>>

Noteallow(p) == /\ pc[p] = "out" /\ deferred[p]
                /\ deferred' = [deferred EXCEPT ![p] = FALSE]
                /\ UNCHANGED <<sleeper, cond, note, alarm, timers, rl, pl, pc, actor, timed>>

(* What was waited for is used up; a note is delivered, or an alarm taken, *)
(* on the way out of the kernel.                                           *)
Consume(p, r) == /\ pc[p] = "out" /\ cond[r]
                 /\ cond' = [cond EXCEPT ![r] = FALSE]
                 /\ UNCHANGED <<sleeper, note, deferred, alarm, timers, rl, pl, pc, actor, timed>>
Trap(p) == /\ pc[p] = "out" /\ (Interrupted(p) \/ alarm[p])
           /\ note' = [note EXCEPT ![p] = @ /\ deferred[p]]
           /\ alarm' = [alarm EXCEPT ![p] = FALSE]
           /\ UNCHANGED <<sleeper, cond, deferred, timers, rl, pl, pc, actor, timed>>
-----------------------------------------------------------------------------
SetCondition(w, r) == /\ pc[w] = "out"
                      /\ cond' = [cond EXCEPT ![r] = TRUE]
                      /\ on' = [on EXCEPT ![w] = r]
                      /\ Goto(w, "wlockr")
                      /\ UNCHANGED <<sleeper, note, deferred, alarm, timers, rl, pl, who, timed>>

(* wakeup, called by a Waker or by twakeup on a Cpu: lock(&r->l) *)
Woken(a) == Goto(a, IF a \in Cpu THEN "tdone" ELSE "out")
WakeupLock(a) ==
  /\ pc[a] = "wlockr" /\ rl[on[a]] = None
  /\ IF rp[on[a]] = None
     THEN Woken(a) /\ UNCHANGED <<rl, who>>
     ELSE /\ rl' = [rl EXCEPT ![on[a]] = a]
          /\ who' = [who EXCEPT ![a] = rp[on[a]]]
          /\ Goto(a, "wlockp")
  /\ UNCHANGED <<sleeper, flags, timers, pl, on, timed>>

Wake(p, r) == /\ rp' = [rp EXCEPT ![r] = None]
              /\ pr' = [pr EXCEPT ![p] = None]
              /\ state' = [state EXCEPT ![p] = "Ready"]

(* lock(&p->rlock) and the rest of wakeup *)
WakeupReady(a) == LET p == who[a] r == on[a] IN
  /\ pc[a] = "wlockp" /\ pl[p] = None
  /\ IF state[p] # "Wakeme" \/ pr[p] # r
     THEN Goto(a, "panic") /\ UNCHANGED <<sleeper, rl>>
     ELSE Wake(p, r) /\ rl' = [rl EXCEPT ![r] = None] /\ Woken(a)
  /\ UNCHANGED <<flags, timers, pl, actor, timed>>
-----------------------------------------------------------------------------
Postnote(n, p) == /\ pc[n] = "out"
                  /\ note' = [note EXCEPT ![p] = TRUE]
                  /\ who' = [who EXCEPT ![n] = p]
                  /\ Goto(n, "defer")
                  /\ UNCHANGED <<sleeper, cond, deferred, alarm, timers, rl, pl, on, timed>>

(* flag == NUser: a deferred process is left alone; other flags undefer it *)
PostnoteDeferred(n, user) ==
  /\ pc[n] = "defer"
  /\ IF deferred[who[n]] /\ user
     THEN Goto(n, "out") /\ UNCHANGED deferred
     ELSE Goto(n, "plock") /\ deferred' = [deferred EXCEPT ![who[n]] = FALSE]
  /\ UNCHANGED <<sleeper, cond, note, alarm, timers, rl, pl, actor, timed>>

PostnoteLock(n) == LET p == who[n] IN
  /\ pc[n] = "plock" /\ pl[p] = None
  /\ IF pr[p] = None
     THEN Goto(n, "out") /\ UNCHANGED <<pl, on>>
     ELSE /\ pl' = [pl EXCEPT ![p] = n]
          /\ on' = [on EXCEPT ![n] = pr[p]]
          /\ Goto(n, "ptry")
  /\ UNCHANGED <<sleeper, flags, timers, rl, who, timed>>

(* mutant: the sleeper is woken without r->l *)
PostnoteTryForces(n) == LET p == who[n] r == on[n] IN
  /\ pc[n] = "ptry"
  /\ Wake(p, r)
  /\ pl' = [pl EXCEPT ![p] = None]
  /\ Goto(n, "out")
  /\ UNCHANGED <<flags, timers, rl, actor, timed>>
PostnoteTry(n) == LET p == who[n] r == on[n] IN
  /\ pc[n] = "ptry"
  /\ \/ /\ rl[r] # None
        /\ Goto(n, "plock")
        /\ pl' = [pl EXCEPT ![p] = None]
        /\ UNCHANGED sleeper
     \/ /\ rl[r] = None /\ (state[p] # "Wakeme" \/ rp[r] # p)
        /\ Goto(n, "panic")
        /\ UNCHANGED <<sleeper, pl>>
     \/ /\ rl[r] = None /\ state[p] = "Wakeme" /\ rp[r] = p
        /\ Wake(p, r)
        /\ pl' = [pl EXCEPT ![p] = None]
        /\ Goto(n, "out")
  /\ UNCHANGED <<flags, timers, rl, actor, timed>>
-----------------------------------------------------------------------------
(* awake_timer gives an elapsed alarm to awake_ringer. *)
Elapse(a, p) == /\ pc[a] = "out" /\ ~alarm[p]
                /\ alarm' = [alarm EXCEPT ![p] = TRUE]
                /\ who' = [who EXCEPT ![a] = p]
                /\ Goto(a, "dispatch")
                /\ UNCHANGED <<sleeper, cond, note, deferred, timers, rl, pl, on, timed>>

(* awake_dispatch: both locks are only tried, and it is called again until *)
(* the process, found not running, has taken the alarm.                    *)
Dispatch(a) == LET p == who[a] r == pr[p] IN
  /\ pc[a] = "dispatch" /\ pl[p] = None /\ alarm[p]
  /\ ~Interrupted(p) /\ r # None /\ rl[r] = None
  /\ IF state[p] # "Wakeme" \/ rp[r] # p
     THEN Goto(a, "panic") /\ UNCHANGED sleeper
     ELSE Wake(p, r) /\ Goto(a, "signaled")
  /\ UNCHANGED <<flags, timers, rl, pl, actor, timed>>
DispatchFree(a) == /\ pc[a] \in {"dispatch", "signaled"}
                   /\ ~alarm[who[a]] /\ pl[who[a]] = None /\ state[who[a]] # "Running"
                   /\ Goto(a, "out")
                   /\ UNCHANGED <<sleeper, flags, timers, rl, pl, actor, timed>>
-----------------------------------------------------------------------------
(* timerintr takes the timer off the list and calls twakeup: wakeup(trend) *)
(* and then trend = nil, under the lock of the timer.                      *)
Timerintr(c, p) == /\ pc[c] = "out" /\ timer[p]
                   /\ timer' = [timer EXCEPT ![p] = FALSE]
                   /\ who' = [who EXCEPT ![c] = p]
                   /\ Goto(c, "tlock")
                   /\ UNCHANGED <<sleeper, flags, trend, tl, rl, pl, on, timed>>

TwakeupLock(c) == LET p == who[c] IN
  /\ pc[c] = "tlock" /\ tl[p] = None
  /\ IF trend[p] = None
     THEN Goto(c, "out") /\ UNCHANGED <<tl, on>>
     ELSE /\ tl' = [tl EXCEPT ![p] = c]
          /\ on' = [on EXCEPT ![c] = trend[p]]
          /\ Goto(c, "wlockr")
  /\ UNCHANGED <<sleeper, flags, trend, timer, rl, pl, who, timed>>

TwakeupDone(c) == LET p == who[c] IN
  /\ pc[c] = "tdone"
  /\ trend' = [trend EXCEPT ![p] = None]
  /\ tl' = [tl EXCEPT ![p] = None]
  /\ Goto(c, "out")
  /\ UNCHANGED <<sleeper, flags, timer, rl, pl, actor, timed>>

(* What goes on without being asked to. *)
ProcStep(p) == \/ Timeradd(p) \/ SleepLock(p) \/ SleepCommit(p) \/ Resume(p)
               \/ SleepCheck(p) \/ Stoptimer(p) \/ Timerdel(p)
ActorStep(a) == \/ a \in Waker \cup Cpu /\ (WakeupLock(a) \/ WakeupReady(a))
                \/ /\ a \in Poster
                   /\ \/ \E user \in BOOLEAN : PostnoteDeferred(a, user)
                      \/ PostnoteLock(a) \/ PostnoteTry(a)
                \/ a \in Ringer /\ (Dispatch(a) \/ DispatchFree(a))
                \/ a \in Cpu /\ (TwakeupLock(a) \/ TwakeupDone(a))

Environment == \/ \E p \in Proc : Notedefer(p) \/ Noteallow(p) \/ Trap(p)
               \/ \E p \in Proc, r \in Rendez : Sleep(p, r) \/ Tsleep(p, r) \/ Consume(p, r)
               \/ \E w \in Waker, r \in Rendez : SetCondition(w, r)
               \/ \E n \in Poster, p \in Proc : Postnote(n, p)
               \/ \E a \in Ringer, p \in Proc : Elapse(a, p)
               \/ \E c \in Cpu, p \in Proc : Timerintr(c, p)

Next == \/ Environment
        \/ \E p \in Proc : ProcStep(p)
        \/ \E a \in Actor \ Proc : ActorStep(a)

Spec == Init /\ [][Next]_vars

(* Ready processes run, and processors that spin on a lock that is free    *)
(* again and again get it (hence SF).                                      *)
FairSpec == /\ Spec
            /\ \A p \in Proc : SF_vars(ProcStep(p))
            /\ \A a \in Actor \ Proc : SF_vars(ActorStep(a))
-----------------------------------------------------------------------------
TypeOK == /\ cond \in [Rendez -> BOOLEAN]
          /\ rp \in [Rendez -> Proc \cup {None}]
          /\ pr \in [Proc -> Rendez \cup {None}]
          /\ state \in [Proc -> {"Running", "Wakeme", "Ready"}]
          /\ note \in [Proc -> BOOLEAN] /\ deferred \in [Proc -> BOOLEAN]
          /\ alarm \in [Proc -> BOOLEAN]
          /\ trend \in [Proc -> Rendez \cup {None}] /\ timer \in [Proc -> BOOLEAN]
          /\ rl \in [Rendez -> Actor \cup {None}]
          /\ pl \in [Proc -> Actor \cup {None}] /\ tl \in [Proc -> Cpu \cup {None}]
          /\ pc \in [Actor -> PCs]
          /\ on \in [Actor -> Rendez \cup {None}]
          /\ who \in [Actor -> Proc \cup {None}]
          /\ timed \in [Proc -> BOOLEAN]

(* "we lock both the process and the rendezvous to keep r->p and p->r      *)
(* synchronized" (proc.c:678-679): so the panics are never reached.        *)
Synchronized == /\ \A p \in Proc, r \in Rendez : rp[r] = p <=> pr[p] = r
                /\ \A p \in Proc : pr[p] # None <=> state[p] = "Wakeme"
                /\ \A a \in Actor : pc[a] # "panic"

Asleep(p) == pc[p] = "asleep" /\ state[p] = "Wakeme"
Waking(r) == \E a \in Waker \cup Cpu : on[a] = r /\ pc[a] \in {"wlockr", "wlockp"}

(* A process does not sleep on a condition that is true, or with a note or *)
(* an alarm to take, unless somebody is on the way to wake it.             *)
NoLostWakeup == \A p \in Proc : Asleep(p) =>
  /\ cond[on[p]] => Waking(on[p])
  /\ Interrupted(p) => \E n \in Poster : who[n] = p /\ pc[n] \in {"defer", "plock", "ptry"}
  /\ alarm[p] => \E a \in Ringer : who[a] = p /\ pc[a] = "dispatch"

(* The Rendez of tsleep may be gone when tsleep has returned: a timer that *)
(* went off does not touch it any more.                                    *)
NoStaleRendez == \A c \in Cpu : pc[c] \in {"wlockr", "wlockp"} =>
                   \E p \in Proc : tl[p] = c /\ timed[p] /\ on[p] = on[c]

(* A process asleep in tsleep has a timer, or a timer interrupt, that will *)
(* wake it, unless twakeup found nobody to wake just before the process    *)
(* committed to sleep, and has set p->trend = nil since (proc.c:785-789).  *)
TimeoutKept == \A p \in Proc : Asleep(p) /\ timed[p] /\ trend[p] # None =>
                 timer[p] \/ \E c \in Cpu : who[c] = p /\ pc[c] \in {"tlock", "wlockr", "wlockp", "tdone"}

(* Whoever sleeps on a condition that is true runs again. *)
SleeperWoken == \A p \in Proc : pc[p] = "asleep" /\ cond[on[p]] ~> pc[p] # "asleep"

(* A note that is not deferred ends a sleep. *)
NoteInterrupts == \A p \in Proc : pc[p] = "asleep" /\ Interrupted(p) ~> pc[p] # "asleep"
=============================================================================
