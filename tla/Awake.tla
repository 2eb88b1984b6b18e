------------------------------- MODULE Awake -------------------------------
(***************************************************************************)
(* Timed wakeups, sys/src/kern/port/awake.c, and the system call they were *)
(* made to interrupt, rendezvous(2) (sysproc.c:701-768), with the end of a *)
(* system call and of a note handler (amd64/syscall.c), and postnote's and *)
(* awake's way to pull a process out of a rendezvous (proc.c:930-998).     *)
(*                                                                         *)
(* A process registers alarms; awake_timer moves those whose time has come *)
(* to awake_ringer, which interrupts the process in a rendezvous; the      *)
(* process takes the alarm at the end of a system call.  wakeups[0] is for *)
(* the program and wakeups[1] for its note handler.                        *)
(*                                                                         *)
(* What is done under rl, el or rgrp->l is one step, but for the scan of   *)
(* awake_timer, one step per alarm, because elapsed is taken without a     *)
(* lock.  Lists are sets: the registry is kept in order of time, and no    *)
(* order is looked at in the others.  sys->ticks is bounded; sys->nmach is *)
(* 1.  Sleeping processes (p->r) are in SleepWakeup, eqlock in KQLock.     *)
(***************************************************************************)
EXTENDS Integers, FiniteSets

CONSTANTS Proc,
          Tag,       \* rendezvous tags
          Private,   \* the tag ~0, which no other process can meet
          PoolSize,  \* awkpool.size
          Delays,    \* ticks asked for
          MaxTime,   \* bound: the clock stops there
          Programs,  \* what processes may call: functions from Proc
          None

Alarm == 1..PoolSize
Level == {0, 1}
MaxDelay == CHOOSE d \in Delays : \A e \in Delays : e <= d
Never == MaxTime + MaxDelay + PoolSize + 2  \* ~0

Calls == {"awake", "forgive", "rendezvous", "sleep", "other", "exec", "note"}

ASSUME AwakeAssumption ==
  /\ Programs \subseteq [Proc -> SUBSET Calls]
  /\ PoolSize \in Nat /\ MaxTime \in Nat
  /\ Delays \subseteq Nat /\ \E d \in Delays : \A e \in Delays : e <= d
  /\ None \notin Proc \cup Alarm \cup Tag /\ Private \notin Tag

VARIABLES program,    \* what each process may call, note: has a note handler; never changes
          now, next_wakeup,
          where,      \* free, or the list an alarm is in
          owner, level, done, time,   \* AwakeAlarm.p, notified, done, time
          passed,     \* history: the alarms awake_timer passed over, due
          elapsed, blocking, last,    \* ProcWakeup, for each process and level:
                                      \* elapsed, blockingsc # 0, time of last
          notified, note, nnote,      \* Proc.notified, notepending, nnote
          pc, state,  \* where each process is; Proc.state: Running, Rendezvous, Ready
          tag, rendval, hash,         \* Proc.rendtag, rendval; the processes in rgrp
          met,        \* the process a rendezvous is about to make ready
          request,    \* the alarm awake_remove is about to mark
          slept,      \* the system call the process is in has fallen asleep
          tpc, tnext, todo,  \* awake_timer; todo: the alarms it has still to look at
          rpc, ring, rwho,  \* awake_ringer; its list still to go; the alarm it rings
          ppc, poster \* postnote: idle, looking at a process, pulling it

alarms == <<where, owner, level, done, time, passed>>
wakeups == <<elapsed, blocking, last>>
notes == <<notified, note, nnote>>
rendez == <<state, tag, rendval, hash, met>>
call == <<request, slept>>
timer == <<tpc, tnext, todo>>
posting == <<ppc, poster>>
ringer == <<rpc, ring, rwho>>
vars == <<program, now, next_wakeup, alarms, wakeups, notes, rendez, pc, call, timer, ringer, posting>>

PerLevel(x) == [p \in Proc |-> [l \in Level |-> x]]

Init == /\ program \in Programs
        /\ now = 0 /\ next_wakeup = Never
        /\ where = [a \in Alarm |-> "free"]
        /\ owner = [a \in Alarm |-> None]
        /\ level = [a \in Alarm |-> 0]
        /\ done = [a \in Alarm |-> FALSE]
        /\ time = [a \in Alarm |-> 0]
        /\ passed = {}
        /\ elapsed = PerLevel(None) /\ blocking = PerLevel(FALSE) /\ last = PerLevel(0)
        /\ notified = [p \in Proc |-> 0]
        /\ note = [p \in Proc |-> FALSE] /\ nnote = [p \in Proc |-> 0]
        /\ pc = [p \in Proc |-> "user"]
        /\ state = [p \in Proc |-> "Running"]
        /\ tag = [p \in Proc |-> Private]
        /\ rendval = [p \in Proc |-> None]
        /\ hash = {}
        /\ met = [p \in Proc |-> None]
        /\ request = [p \in Proc |-> None] /\ slept = [p \in Proc |-> FALSE]
        /\ tpc = "next" /\ tnext = Never /\ todo = {}
        /\ rpc = "check" /\ ring = {} /\ rwho = None
        /\ ppc = "idle" /\ poster = None

Goto(p, to) == pc' = [pc EXCEPT ![p] = to]
Can(p, c) == pc[p] = "user" /\ c \in program[p]
In(list) == {a \in Alarm : where[a] = list}
Of(p) == {a \in Alarm : owner[a] = p}
Registry == In("registry")
Unlocked == tpc # "scan"   \* rl
Earliest(S) == CHOOSE a \in S : \A b \in S : time[a] <= time[b]
First(S) == IF S = {} THEN next_wakeup ELSE time[Earliest(S)]

(* What else a free alarm holds is not looked at. *)
Free(S) == /\ where' = [a \in Alarm |-> IF a \in S THEN "free" ELSE where[a]]
           /\ owner' = [a \in Alarm |-> IF a \in S THEN None ELSE owner[a]]
           /\ level' = [a \in Alarm |-> IF a \in S THEN 0 ELSE level[a]]
           /\ done' = [a \in Alarm |-> done[a] /\ a \notin S]
           /\ time' = [a \in Alarm |-> IF a \in S THEN 0 ELSE time[a]]
           /\ passed' = passed \ S
-----------------------------------------------------------------------------
(* alarm_new waits for more free alarms than twice what the process has.   *)
AlarmNew(p) ==
  /\ Can(p, "awake") /\ now < MaxTime
  /\ Cardinality(In("free")) > 2 * Cardinality(Of(p))
  /\ LET a == CHOOSE x \in In("free") : \A y \in In("free") : x <= y IN
     /\ where' = [where EXCEPT ![a] = "new"]
     /\ owner' = [owner EXCEPT ![a] = p]
     /\ level' = [level EXCEPT ![a] = notified[p]]
     /\ done' = [done EXCEPT ![a] = FALSE]
     /\ time' = [time EXCEPT ![a] = 0]
  /\ Goto(p, "register")
  /\ UNCHANGED <<program, now, next_wakeup, passed, wakeups, notes, rendez, call, timer, ringer, posting>>

(* mutant: two alarms of a process may have the same time *)
SlotSameTick(p, t) == t
(* The first tick not before t at which p has no alarm yet. *)
Slot(p, t) == LET taken == {time[a] : a \in {b \in Registry \cap Of(p) : ~done[b]}}
              IN CHOOSE u \in t..(t + PoolSize) : u \notin taken /\ \A v \in t..(u - 1) : v \in taken

(* awake_register: alarms forgotten since that come before the new one are *)
(* freed on the way.                                                       *)
AwakeRegister(p, d) ==
  /\ pc[p] = "register" /\ Unlocked
  /\ LET a == CHOOSE x \in Of(p) : where[x] = "new"
         t == Slot(p, now + d + 1)
         gone == {b \in Registry : done[b] /\ time[b] <= t}
         left == (Registry \ gone) \cup {a} IN
     /\ where' = [b \in Alarm |-> IF b = a THEN "registry" ELSE IF b \in gone THEN "free" ELSE where[b]]
     /\ owner' = [b \in Alarm |-> IF b \in gone THEN None ELSE owner[b]]
     /\ level' = [b \in Alarm |-> IF b \in gone THEN 0 ELSE level[b]]
     /\ done' = [b \in Alarm |-> done[b] /\ b \notin gone]
     /\ time' = [b \in Alarm |-> IF b = a THEN t ELSE IF b \in gone THEN 0 ELSE time[b]]
     /\ passed' = passed \ gone
     /\ next_wakeup' = CHOOSE u \in 0..Never : /\ \E b \in left : u = time'[b]
                                               /\ \A c \in left : u <= time'[c]
  /\ Goto(p, "ret")
  /\ UNCHANGED <<program, now, wakeups, notes, rendez, call, timer, ringer, posting>>

(* awake_remove: the alarm of a wakeup that did not happen yet is taken    *)
(* back if it elapsed, else marked for whoever finds it in the registry,   *)
(* even if it has been freed since it was looked at.  Tokens are compared  *)
(* as unsigned numbers, ~time being the token, so that as long as last is  *)
(* 0 every one of them counts as that of a wakeup that happened.           *)
IsFuture(p, a) == LET l == last[p][notified[p]] IN l # 0 /\ time[a] > l
AwakeRemove(p, a) ==
  /\ Can(p, "forgive") /\ owner[a] = p
  /\ IF IsFuture(p, a) THEN request' = [request EXCEPT ![p] = a] /\ Goto(p, "remove")
                       ELSE Goto(p, "ret") /\ UNCHANGED request
  /\ UNCHANGED <<program, now, next_wakeup, alarms, wakeups, notes, rendez, slept, timer, ringer, posting>>
RemoveAlarm(p) ==
  /\ pc[p] = "remove" /\ Unlocked
  /\ LET a == request[p] IN
     IF elapsed[p][notified[p]] = a
     THEN elapsed' = [elapsed EXCEPT ![p][notified[p]] = None] /\ UNCHANGED done
     ELSE done' = [done EXCEPT ![a] = TRUE] /\ UNCHANGED elapsed
  /\ request' = [request EXCEPT ![p] = None]
  /\ Goto(p, "ret")
  /\ UNCHANGED <<program, now, next_wakeup, where, owner, level, time, passed, blocking, last, notes,
                 rendez, slept, timer, ringer, posting>>

(* A system call that does not block. *)
Other(p) == /\ Can(p, "other")
            /\ Goto(p, "ret")
            /\ UNCHANGED <<program, now, next_wakeup, alarms, wakeups, notes, rendez, call, timer, ringer, posting>>

(* awake_gc_note and awake_gc_proc. *)
Gc(p, gone, ls) ==
  /\ Unlocked
  /\ elapsed' = [elapsed EXCEPT ![p] = [l \in Level |-> IF l \in ls THEN None ELSE @[l]]]
  /\ blocking' = [blocking EXCEPT ![p] = [l \in Level |-> IF l \in ls THEN FALSE ELSE @[l]]]
  /\ Free(gone)
  /\ next_wakeup' = First(Registry \ gone)
(* exec, with up->debug, leaves the note handler before it clears the      *)
(* alarms, and waits then for those that awake_ringer still has.           *)
Exec(p) == /\ Can(p, "exec")
           /\ nnote' = [nnote EXCEPT ![p] = 0]
           /\ notified' = [notified EXCEPT ![p] = 0]
           /\ Goto(p, "exec")
           /\ UNCHANGED <<program, now, next_wakeup, alarms, wakeups, note, rendez, call, timer, ringer, posting>>
ExecGc(p) == /\ pc[p] = "exec"
             /\ Gc(p, Registry \cap Of(p), Level)
             /\ Goto(p, "reap")
             /\ UNCHANGED <<program, now, last, notes, rendez, call, timer, ringer, posting>>
ExecWait(p) == /\ pc[p] = "reap" /\ Of(p) = {}
               /\ Goto(p, "ret")
               /\ UNCHANGED <<program, now, next_wakeup, alarms, wakeups, notes, rendez, call, timer,
                              ringer, posting>>
-----------------------------------------------------------------------------
(* sysrendezvous.  Values are the processes that pass them, None is ~0.    *)
(* A process waiting with the same tag gets our value, and is made ready   *)
(* when rgrp->l is released; else we fall asleep, if no alarm elapsed.     *)
Rendezvous(p, t) ==
  /\ Can(p, IF t = Private THEN "sleep" ELSE "rendezvous")
  /\ \/ \E q \in hash : /\ tag[q] = t
                       /\ hash' = hash \ {q}
                       /\ rendval' = [rendval EXCEPT ![q] = p, ![p] = rendval[q]]
                       /\ met' = [met EXCEPT ![p] = q]
                       /\ Goto(p, "meet")
                       /\ UNCHANGED <<state, tag, blocking, slept>>
     \/ /\ \A q \in hash : tag[q] # t
        /\ blocking' = [blocking EXCEPT ![p][notified[p]] = TRUE]
        /\ slept' = [slept EXCEPT ![p] = TRUE]
        /\ IF elapsed[p][notified[p]] # None
           THEN /\ rendval' = [rendval EXCEPT ![p] = None]
                /\ Goto(p, "ret")
                /\ UNCHANGED <<state, tag, hash>>
           ELSE /\ tag' = [tag EXCEPT ![p] = t]
                /\ rendval' = [rendval EXCEPT ![p] = p]
                /\ hash' = IF t = Private THEN hash ELSE hash \cup {p}
                /\ state' = [state EXCEPT ![p] = "Rendezvous"]
                /\ Goto(p, "blocked")
        /\ UNCHANGED met
  /\ UNCHANGED <<program, now, next_wakeup, alarms, elapsed, last, notes, request, timer, ringer, posting>>

Meet(p) == /\ pc[p] = "meet"
           /\ state' = [state EXCEPT ![met[p]] = "Ready"]
           /\ met' = [met EXCEPT ![p] = None]
           /\ Goto(p, "ret")
           /\ UNCHANGED <<program, now, next_wakeup, alarms, wakeups, notes, tag, rendval, hash, call,
                          timer, ringer, posting>>

(* The scheduler takes p->rlock, which awake_dispatch has while it rings.  *)
Resume(p) == /\ pc[p] = "blocked" /\ state[p] = "Ready"
             /\ ~(rpc = "pull" /\ owner[rwho] = p)
             /\ state' = [state EXCEPT ![p] = "Running"]
             /\ Goto(p, "ret")
             /\ UNCHANGED <<program, now, next_wakeup, alarms, wakeups, notes, tag, rendval, hash, met, call,
                            timer, ringer, posting>>

(* mutant: the hash table is not searched *)
PullAny(p) == IF state[p] = "Rendezvous"
              THEN /\ rendval' = [rendval EXCEPT ![p] = None]
                   /\ hash' = hash \ {p}
                   /\ state' = [state EXCEPT ![p] = "Ready"]
              ELSE UNCHANGED <<rendval, hash, state>>
(* proc_interrupt_finalize, once it saw p in a rendezvous: the value is    *)
(* lost even if somebody took the process out of the table already.        *)
Pull(p) == IF state[p] = "Rendezvous"
           THEN /\ rendval' = [rendval EXCEPT ![p] = None]
                /\ hash' = hash \ {p}
                /\ state' = [state EXCEPT ![p] = IF tag[p] = Private \/ p \in hash THEN "Ready" ELSE @]
           ELSE UNCHANGED <<rendval, hash, state>>

(* awake_awakened: the process takes the alarm that elapsed. *)
Awakened(p, l) ==
  IF blocking[p][l] /\ elapsed[p][l] # None
  THEN /\ elapsed' = [elapsed EXCEPT ![p][l] = None]
       /\ last' = [last EXCEPT ![p][l] = time[elapsed[p][l]]]
       /\ blocking' = [blocking EXCEPT ![p][l] = FALSE]
  ELSE UNCHANGED wakeups

(* The end of a system call: a note is delivered, unless the process is in *)
(* its handler, and if there is no other the alarm is taken.               *)
SyscallEnd(p) ==
  /\ pc[p] = "ret"
  /\ note' = [note EXCEPT ![p] = @ /\ nnote[p] = 0]
  /\ IF nnote[p] > 0 /\ notified[p] = 0
     THEN /\ notified' = [notified EXCEPT ![p] = 1]
          /\ nnote' = [nnote EXCEPT ![p] = @ - 1]
     ELSE UNCHANGED <<notified, nnote>>
  /\ IF nnote'[p] = 0 THEN Awakened(p, notified'[p]) ELSE UNCHANGED wakeups
  /\ slept' = [slept EXCEPT ![p] = FALSE]
  /\ rendval' = [rendval EXCEPT ![p] = None]
  /\ Goto(p, "user")
  /\ UNCHANGED <<program, now, next_wakeup, alarms, state, tag, hash, met, request, timer, ringer, posting>>

(* On the way back from a trap in user mode notes are delivered, too.      *)
TrapNote(p) == /\ pc[p] = "user" /\ nnote[p] > 0
               /\ note' = [note EXCEPT ![p] = FALSE]
               /\ notified' = [notified EXCEPT ![p] = 1]
               /\ nnote' = [nnote EXCEPT ![p] = IF notified[p] = 0 THEN @ - 1 ELSE @]
               /\ UNCHANGED <<program, now, next_wakeup, alarms, wakeups, rendez, pc, call, timer, ringer, posting>>

(* noted: awake_gc_note, and then the end of the system call.  Called with *)
(* NRSTR outside a handler it fails an assertion of awake_gc_note; left    *)
(* out.                                                                    *)
(* mutant: what elapsed in the handler is kept *)
NotedKeeps(p) == /\ pc[p] = "user" /\ notified[p] = 1 /\ Unlocked
                 /\ Free({a \in Registry \cap Of(p) : level[a] = 1})
                 /\ next_wakeup' = First({a \in Registry : ~(owner[a] = p /\ level[a] = 1)})
                 /\ notified' = [notified EXCEPT ![p] = 0]
                 /\ Goto(p, "ret")
                 /\ UNCHANGED <<program, now, wakeups, note, nnote, rendez, call, timer, ringer, posting>>
Noted(p) == /\ pc[p] = "user" /\ notified[p] = 1
            /\ Gc(p, {a \in Registry \cap Of(p) : level[a] = 1}, {1})
            /\ notified' = [notified EXCEPT ![p] = 0]
            /\ Goto(p, "ret")
            /\ UNCHANGED <<program, now, last, note, nnote, rendez, call, timer, ringer, posting>>
-----------------------------------------------------------------------------
Tick == /\ now < MaxTime
        /\ now' = now + 1
        /\ UNCHANGED <<program, next_wakeup, alarms, wakeups, notes, rendez, pc, call, timer, ringer, posting>>

(* awake_tick, at every eighth tick *)
AwakeTick == /\ next_wakeup < now /\ tpc = "asleep"
             /\ tpc' = "check"
             /\ UNCHANGED <<program, now, next_wakeup, alarms, wakeups, notes, rendez, pc, call, tnext, todo,
                            ringer, posting>>

TimerCheck == /\ tpc = "check"
              /\ next_wakeup' = Never
              /\ todo' = {a \in Registry : time[a] <= now}
              /\ tpc' = "scan"
              /\ UNCHANGED <<program, now, alarms, wakeups, notes, rendez, pc, call, tnext, ringer, posting>>

(* One alarm that is due.  It stays in the registry if the process still   *)
(* has another to take.                                                    *)
TimerScan ==
  /\ tpc = "scan" /\ todo # {}
  /\ LET a == Earliest(todo) p == owner[a] IN
     /\ todo' = todo \ {a}
     /\ \/ done[a] /\ Free({a}) /\ UNCHANGED elapsed
        \/ /\ ~done[a] /\ elapsed[p][level[a]] # None
           /\ passed' = passed \cup {a}
           /\ UNCHANGED <<where, owner, level, done, time, elapsed>>
        \/ /\ ~done[a] /\ elapsed[p][level[a]] = None
           /\ elapsed' = [elapsed EXCEPT ![p][level[a]] = a]
           /\ where' = [where EXCEPT ![a] = "toawake"]
           /\ UNCHANGED <<owner, level, done, time, passed>>
  /\ UNCHANGED <<program, now, next_wakeup, blocking, last, notes, rendez, pc, call, tpc, tnext, ringer, posting>>

TimerUnlock == /\ tpc = "scan" /\ todo = {}
               /\ tpc' = IF In("toawake") = {} THEN "next" ELSE "pass"
               /\ UNCHANGED <<program, now, next_wakeup, alarms, wakeups, notes, rendez, pc, call, tnext, todo,
                              ringer, posting>>

TimerPass == /\ tpc = "pass"
             /\ where' = [a \in Alarm |-> IF where[a] = "toawake" THEN "elapsed" ELSE where[a]]
             /\ tpc' = "wake"
             /\ UNCHANGED <<program, now, next_wakeup, owner, level, done, time, passed, wakeups, notes,
                            rendez, pc, call, tnext, todo, ringer, posting>>

TimerWake == /\ tpc = "wake"
             /\ rpc' = IF rpc = "asleep" THEN "check" ELSE rpc
             /\ tpc' = "next"
             /\ UNCHANGED <<program, now, next_wakeup, alarms, wakeups, notes, rendez, pc, call, tnext, todo,
                            ring, rwho, posting>>

(* next_wakeup is set from the registry without its lock. *)
TimerRead == /\ tpc = "next"
             /\ tnext' = IF Registry = {} THEN Never ELSE First(Registry)
             /\ tpc' = IF Registry = {} THEN "asleep" ELSE "store"
             /\ UNCHANGED <<program, now, next_wakeup, alarms, wakeups, notes, rendez, pc, call, todo,
                            ringer, posting>>
TimerStore == /\ tpc = "store"
              /\ next_wakeup' = tnext
              /\ tnext' = Never
              /\ tpc' = "asleep"
              /\ UNCHANGED <<program, now, alarms, wakeups, notes, rendez, pc, call, todo, ringer, posting>>
-----------------------------------------------------------------------------
(* mutant: what is pending is not looked at again *)
RingerCheckOnce ==
  /\ rpc = "check"
  /\ where' = [a \in Alarm |-> IF where[a] = "elapsed" THEN "pending" ELSE where[a]]
  /\ ring' = In("elapsed")
  /\ rpc' = "ring"
  /\ UNCHANGED <<program, now, next_wakeup, owner, level, done, time, passed, wakeups, notes, rendez,
                 pc, call, timer, rwho, posting>>
(* awake_ringer: what elapsed is added to what is pending. *)
RingerCheck ==
  /\ rpc = "check"
  /\ where' = [a \in Alarm |-> IF where[a] = "elapsed" THEN "pending" ELSE where[a]]
  /\ ring' = In("elapsed") \cup In("pending")
  /\ rpc' = "ring"
  /\ UNCHANGED <<program, now, next_wakeup, owner, level, done, time, passed, wakeups, notes, rendez,
                 pc, call, timer, rwho, posting>>

(* awake_dispatch, with p->rlock: a process found on a processor is left   *)
(* alone; otherwise the alarm is freed if it was taken, and rings if the   *)
(* process is in a system call it may interrupt.                           *)
Dispatch(a) == LET p == owner[a] l == level[a] IN
  /\ rpc = "ring" /\ a \in ring
  /\ \/ /\ pc[p] # "blocked" \/ state[p] = "Ready"
        /\ ring' = ring \ {a}
        /\ UNCHANGED <<alarms, rpc, rwho>>
     \/ /\ elapsed[p][l] # a
        /\ ring' = ring \ {a}
        /\ Free({a})
        /\ UNCHANGED <<rpc, rwho>>
     \/ /\ elapsed[p][l] = a
        /\ IF ~done[a] /\ l > notified[p]
           THEN rpc' = "panic" /\ rwho' = a
           ELSE IF ~done[a] /\ ~note[p] /\ blocking[p][l] /\ state[p] = "Rendezvous"
           THEN rpc' = "pull" /\ rwho' = a
           ELSE UNCHANGED <<rpc, rwho>>
        /\ ring' = ring \ {a}
        /\ UNCHANGED alarms
  /\ UNCHANGED <<program, now, next_wakeup, wakeups, notes, rendez, pc, call, timer, posting>>

(* If the process met somebody meanwhile, what proc_interrupt_finalize     *)
(* answers depends on where it saw that.                                   *)
RingerPull == LET p == owner[rwho] IN
  /\ rpc = "pull"
  /\ Pull(p)
  /\ \/ done' = [done EXCEPT ![rwho] = (state[p] # "Rendezvous" \/ state'[p] = "Ready")]
     \/ state[p] # "Rendezvous" /\ UNCHANGED done
  /\ rpc' = "ring"
  /\ rwho' = None
  /\ UNCHANGED <<program, now, next_wakeup, where, owner, level, time, passed, wakeups, notes, tag, met,
                 pc, call, timer, ring, posting>>

(* With nothing pending it sleeps, whatever came meanwhile; else it looks  *)
(* again after 30 milliseconds.                                            *)
RingerEnd == /\ rpc = "ring" /\ ring = {}
             /\ rpc' = IF In("pending") = {} THEN "asleep" ELSE "check"
             /\ UNCHANGED <<program, now, next_wakeup, alarms, wakeups, notes, rendez, pc, call, timer, ring,
                            rwho, posting>>
-----------------------------------------------------------------------------
(* mutant: no limit to the notes that wait *)
PostnoteUnbounded(p) ==
  /\ "note" \in program[p] /\ ppc = "idle"
  /\ note' = [note EXCEPT ![p] = TRUE]
  /\ nnote' = [nnote EXCEPT ![p] = @ + 1]
  /\ poster' = p /\ ppc' = "look"
  /\ UNCHANGED <<program, now, next_wakeup, alarms, wakeups, notified, rendez, pc, call, timer, ringer>>
(* postnote, with p->debug, to a process that does not sleep.  Bound: at   *)
(* most one note waits (NNOTE is 5).                                       *)
Postnote(p) ==
  /\ "note" \in program[p] /\ nnote[p] = 0 /\ ppc = "idle"
  /\ pc[p] \notin {"exec", "reap"}
  /\ note' = [note EXCEPT ![p] = TRUE]
  /\ nnote' = [nnote EXCEPT ![p] = 1]
  /\ poster' = p /\ ppc' = "look"
  /\ UNCHANGED <<program, now, next_wakeup, alarms, wakeups, notified, rendez, pc, call, timer, ringer>>
PostnoteLook ==
  /\ ppc = "look"
  /\ IF state[poster] = "Rendezvous" THEN ppc' = "pull" /\ UNCHANGED poster
                                     ELSE ppc' = "idle" /\ poster' = None
  /\ UNCHANGED <<program, now, next_wakeup, alarms, wakeups, notes, rendez, pc, call, timer, ringer>>
PostnotePull ==
  /\ ppc = "pull"
  /\ Pull(poster)
  /\ ppc' = "idle" /\ poster' = None
  /\ UNCHANGED <<program, now, next_wakeup, alarms, wakeups, notes, tag, met, pc, call, timer, ringer>>
-----------------------------------------------------------------------------
ProcStep(p) == \/ \E d \in Delays : AwakeRegister(p, d)
               \/ RemoveAlarm(p) \/ ExecGc(p) \/ ExecWait(p) \/ Meet(p) \/ Resume(p) \/ SyscallEnd(p)
ProcCall(p) == \/ AlarmNew(p) \/ Other(p) \/ Exec(p) \/ Noted(p) \/ TrapNote(p)
               \/ \E a \in Alarm : AwakeRemove(p, a)
               \/ \E t \in Tag \cup {Private} : Rendezvous(p, t)
Timer == \/ TimerCheck \/ TimerScan \/ TimerUnlock \/ TimerPass \/ TimerWake
         \/ TimerRead \/ TimerStore \/ AwakeTick
Ringer == \/ RingerCheck \/ RingerPull \/ RingerEnd
          \/ \E a \in Alarm : Dispatch(a)
Postnotes == PostnoteLook \/ PostnotePull \/ \E p \in Proc : Postnote(p)

Next == Tick \/ Timer \/ Ringer \/ Postnotes \/ \E p \in Proc : ProcStep(p) \/ ProcCall(p)

Spec == Init /\ [][Next]_vars

(* Time passes, the two kernel processes and whoever is in the kernel and  *)
(* not blocked go on, and the ringer finds a process off its processor     *)
(* sooner or later (hence SF).  Nobody has to call anything.               *)
FairSpec == /\ Spec
            /\ WF_vars(Tick) /\ WF_vars(Timer) /\ WF_vars(Ringer)
            /\ WF_vars(PostnoteLook \/ PostnotePull)
            /\ \A p \in Proc : WF_vars(ProcStep(p))
            /\ SF_vars(\E a \in Alarm : Dispatch(a) /\ (where'[a] = "free" \/ rpc' = "pull"))
-----------------------------------------------------------------------------
TypeOK ==
  /\ program \in Programs
  /\ now \in 0..MaxTime /\ {next_wakeup, tnext} \subseteq 0..Never
  /\ where \in [Alarm -> {"free", "new", "registry", "toawake", "elapsed", "pending"}]
  /\ owner \in [Alarm -> Proc \cup {None}] /\ level \in [Alarm -> Level]
  /\ done \in [Alarm -> BOOLEAN] /\ time \in [Alarm -> 0..Never] /\ passed \subseteq Alarm
  /\ elapsed \in [Proc -> [Level -> Alarm \cup {None}]]
  /\ blocking \in [Proc -> [Level -> BOOLEAN]] /\ last \in [Proc -> [Level -> 0..Never]]
  /\ notified \in [Proc -> Level] /\ note \in [Proc -> BOOLEAN] /\ nnote \in [Proc -> 0..1]
  /\ pc \in [Proc -> {"user", "register", "remove", "exec", "reap", "meet", "blocked", "ret"}]
  /\ state \in [Proc -> {"Running", "Rendezvous", "Ready"}]
  /\ tag \in [Proc -> Tag \cup {Private}] /\ rendval \in [Proc -> Proc \cup {None}]
  /\ hash \subseteq Proc /\ met \in [Proc -> Proc \cup {None}]
  /\ request \in [Proc -> Alarm \cup {None}] /\ slept \in [Proc -> BOOLEAN]
  /\ todo \subseteq Alarm /\ ring \subseteq Alarm /\ rwho \in Alarm \cup {None}
  /\ poster \in Proc \cup {None}

(* A process in a rendezvous is in the table, or is about to be made ready *)
(* by the one process that took it out, or waits alone: pulled out by      *)
(* awake_ringer or postnote, nobody makes it ready a second time.          *)
ReadyOnce ==
  /\ \A p \in hash : pc[p] = "blocked" /\ state[p] = "Rendezvous" /\ rendval[p] = p
  /\ \A p \in Proc : pc[p] = "blocked" /\ state[p] = "Rendezvous" /\ tag[p] # Private =>
       p \in hash \/ \E q \in Proc : met[q] = p
  /\ \A p, q \in Proc : met[q] = p => /\ pc[p] = "blocked" /\ state[p] = "Rendezvous" /\ p \notin hash
                                      /\ \A r \in Proc : met[r] = p => r = q

(* The alarm a process is to take is still its own: awake_awakened reads   *)
(* it.  And it is later than the last it took, as everything in the        *)
(* registry is, so that awakened(2) is not said of a wakeup to come; only  *)
(* an alarm awake_timer found due and passed over, because the process had *)
(* another to take, can be overtaken by a later one of the same scan.      *)
AlarmsInOrder ==
  /\ \A p \in Proc, l \in Level : elapsed[p][l] # None => LET a == elapsed[p][l] IN
       /\ owner[a] = p /\ level[a] = l /\ where[a] \in {"toawake", "elapsed", "pending"}
       /\ a \in passed \/ time[a] > last[p][l]
  /\ \A a \in Registry : a \in passed \/ time[a] > last[owner[a]][level[a]]
  /\ \A a \in passed : time[a] <= now

(* "wakeups registered by a note handler will be deleted on noted()"       *)
(* (awake.c:28).  The panic of awake_dispatch, which "should never happen" *)
(* (awake.c:577), is reached only of a process that calls exec in its note *)
(* handler, between leaving the handler and clearing its alarms.           *)
HandlerAlarmsDeleted ==
  /\ rpc = "panic" => pc[owner[rwho]] \in {"exec", "reap"}
  /\ \A p \in Proc : notified[p] = 0 /\ pc[p] # "exec" =>
       elapsed[p][1] = None /\ \A a \in Registry : ~(owner[a] = p /\ level[a] = 1)

(* awake_ringer sleeps on something that elapsed after its last look at    *)
(* the list: sleep(&consumer, return0) has no condition.                   *)
Overslept == rpc = "asleep" /\ In("elapsed") # {}

(* An alarm that elapsed interrupts a rendezvous, unless a note came       *)
(* first, and exec has done with the alarms of the process, unless         *)
(* awake_ringer never wakes up or panics.                                  *)
Waits(p) == \/ pc[p] = "blocked" /\ elapsed[p][notified[p]] # None /\ ~note[p]
            \/ pc[p] = "reap"
Rung == \A p \in Proc : Waits(p) ~> ~Waits(p) \/ []Overslept \/ rpc = "panic"

(* "each wakeup will interrupt a blocking syscall" (awake.c:31): an alarm  *)
(* is taken by a system call that fell asleep.                             *)
InterruptsBlocking ==
  [][\A p \in Proc, l \in Level : last'[p][l] # last[p][l] => slept[p]]_vars
=============================================================================
