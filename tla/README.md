# Jehanne: a TLA+ verification of its locks, semaphores, sleeps, alarms and queues

Jehanne is a Plan 9 style operating system: a kernel in C (`sys/src/kern`), the
C library (`sys/src/lib/c`), and programs on top. This project models the part
everything else rests on: how processes exclude each other, wait for each other
and interrupt each other, from the `Lock` of the C library down to the kernel's
`sleep` and `wakeup`, and up again to the byte queues that pipes and devices are
made of. It is also the part that Jehanne changed most with respect to its
ancestors: locks of the C library without spinning, timed variants of every
lock, and `awake(2)`, which interrupts a blocking system call at a given time.

All paths below are relative to `src/`.

## 1. Inventory

| component | source | state | operations | talks to |
|---|---|---|---|---|
| libc `Lock` | `sys/src/lib/c/port/lock.c`, `9sys/tsemacquire.c` | counter `key`, semaphore `sem` | lock, canlock, lockt, unlock | atomic increments, semacquire / semrelease, awake |
| libc `QLock`, `RWLock`, `Rendez` | `sys/src/lib/c/9sys/qlock.c` | `locked`, `readers`, `writer`, list of entries `QLp` out of one pool for the whole program | qlock(t), canqlock, qunlock, rlock(t), wlock(t), canr/wlock, runlock, wunlock, rsleep(t), rwakeup(all) | `Lock`, rendezvous(2), awake, compare-and-swap on the entry |
| kernel semaphores | `sys/src/kern/port/sysproc.c:853-1005` | the value in user memory, the list of `Sema` of the segment | semacquire, semrelease | sleep / wakeup, postnote |
| kernel `QLock`, `RWlock` | `sys/src/kern/port/qlock.c` | `locked`, `readers`, `writer`, queue of processes | qlock, eqlock, canqlock, qunlock, rlock, runlock, wlock, wunlock, canrlock | scheduler; postnote pulls a process out of eqlock |
| sleep, wakeup, notes, tsleep | `sys/src/kern/port/proc.c:673-1024` | `Rendez.p`, `Proc.r`, `Proc.state`, `notepending`, `notedeferred`, `trend` | sleep, tsleep, wakeup, postnote, notedefer, noteallow | timers, awake |
| timers | `sys/src/kern/port/portclock.c` | list of `Timer` per processor | timeradd, timerdel, timerintr | twakeup, alarm |
| awake(2) | `sys/src/kern/port/awake.c`, the end of a system call and of a note handler in `amd64/syscall.c` | pool and registry of alarms, lists toawake / elapsed / pending, `wakeups[]` of each process | awake_register, awake_remove, awake_gc_note, awake_gc_proc, awake_tick, awake_timer, awake_ringer, awake_dispatch, awake_awakened | interrupts sleep and rendezvous |
| rendezvous(2) | `sys/src/kern/port/sysproc.c:701-768` | hash table of waiting processes, `rendtag`, `rendval` | sysrendezvous, its interruption | postnote, awake |
| byte queues | `sys/src/kern/port/qio.c` | `len`, `limit`, `noblock`, Qflow, Qstarve, Qclosed, `rlock`, `wlock` | qread, qbread, qwrite, qbwrite, qget, qconsume, qdiscard, qpass, qpassnolim, qproduce, qiwrite, qclose, qhangup, qreopen, qsetlimit, qnoblock, qflush | sleep / wakeup, eqlock, interrupt handlers, notes |
| scheduler, process life cycle | `sys/src/kern/port/proc.c` | run queues, `Proc` | ready, sched, pexit, pwait | everything |
| 9P client, channels, memory, devices, network, thread and POSIX libraries, programs | see `PROJECT.json` | | | |

What is hard here is concurrency on several processors, in four forms: steps of
two processes in an order no test produces; notes, alarms and timeouts that
arrive while what they interrupt is already being served; state read under a
lock and used after it is released; and waiting that has to end. `PROJECT.json`
lists these as hazards, each at its line, with the properties that would catch
it. Correct means, for every component: exclusion (one owner; readers or a
writer; nobody made ready twice), nobody forgotten (a waiter implies somebody
who will see to it), no abort or panic reached, and progress of whoever waits.

## 2. Modules

| module | models | proofs |
|---|---|---|
| `Mutex` | the promise of a lock: granted only when nobody holds it, given up only by its holder | |
| `RWMutex` | the promise of a reader/writer lock: readers or one writer, nobody gets in past those who wait, nobody waits for a free lock, the last to leave lets somebody in | |
| `UserLock` | libc `Lock` | `UserLocksProofs` |
| `UserQLock` | libc `QLock` and `Rendez`; refines `Mutex` | `UserQLockProofs` |
| `UserRWLock` | libc `RWLock`; its `Plain` programs refine `RWMutex` | `UserLocksProofs` |
| `Semaphore` | semacquire and semrelease in the kernel | `SemaphoreProofs` |
| `KQLock` | kernel `QLock` with the interruption of eqlock; refines `Mutex` | `KQLockProofs` |
| `KRWLock` | kernel `RWlock`; refines `RWMutex` | `KRWLockProofs` |
| `SleepWakeup` | sleep, tsleep, wakeup, postnote, timers and awake's dispatch to a sleeper | `SleepWakeupProofs` |
| `Qio` | byte queues | `QioProofs` |
| `Awake` | awake(2) together with rendezvous(2), notes and note handlers | `AwakeProofs` |
| `MC...` | what TLC runs; with `*.cfg` | |

The layers are checked one on top of the other: a module takes the layer below
as atomic steps, which is what the module of that layer shows. `UserLock` takes
semacquire and semrelease as atomic (`Semaphore`), `Semaphore` and `Qio` take
sleep and wakeup as atomic (`SleepWakeup`), `Qio` takes eqlock as an exclusive
lock that can be interrupted (`KQLock`), `UserQLock` and `UserRWLock` take the
sections under `q->lock` as atomic (`UserLock`, which without canlock
implements `Mutex`: `LockImplementsMutex`), and a rendezvous(2) as one step, with
the outcomes that `Awake` finds when it looks into it: both parties go on, or the
second to arrive goes on and the first is interrupted as it is met.

### How state and actions correspond to the code

Every action stands for the function of the same name, or for the named part
of it; `PROJECT.json` ("map") gives the lines. Program counters name places
between two steps; the comment above `PCs` in each module says which. In
`UserRWLock`, `Qio` and `Awake` the variable `program` says which functions each
process may call. It is chosen at the start out of `Programs` and never changes:
one run covers several ways of using the component, and a property can say for
which of them it holds.

**UserLock.** `key`, `sem` are the fields of `Lock`. `Lock`, `Lockt`, `Canlock`
are the atomic increment with its test; `Unlock` and `CanlockUndo` the
decrement; `Semrelease`, `Semacquire`, `TsemTimeout` the system calls. A lockt
that times out leaves its increment in `key`, as in the code.

**UserQLock.** `queue` and `rend` are the linked lists, `state` the state of
every entry of the pool. A section under `q->lock` is one step: the only thing
others do to it meanwhile is a compare-and-swap to `Timedout`, and that
commutes with the walk. The pool is shared with every other lock of the program,
so which free entry is found is left open (`\E e \in FreeEntries`), and `getqlp`
aborts, as the code does, when at most one is free. `Rendezvous` brings together
any two processes with the same tag, whatever they came for; either both go on, or
only one does, and the history variable `torn` says that this has happened (see
*torn rendezvous* below). A rendezvous interrupted without a partner is repeated,
and matters only when the time of a timed call is over. canqlock is left out (see
below). An abort is a state (`full`, `corrupt`, `failed`) in which a
process stays, with `q->lock` if it held it.

**UserRWLock.** As above, but the list is kept as in the code (`head`, `tail`,
`next`), and a walk is one step per entry, because wunlock releases `q->lock` in
its middle. runlock sets `q->writer` for the writer it starts, wunlock leaves it
as it is.

**Semaphore.** One step per access to the value, the list or `waiting`. The
list has its spin lock; `waiting` is written outside of it.

**KQLock.** A section under `q->use` is one step, except in eqlock, where the
poster of a note looks at the process without that lock. `Post`, `Look`, `Pull`
are postnote and proc_interrupt_finalize.

**KRWLock.** A section under `use` is one step; `Ready` is what runlock does
after it.

**SleepWakeup.** The spin locks `r->l`, `p->rlock` and that of the timer are
variables: sleep and wakeup take the first before the second, postnote and
awake_dispatch the other way round with canlock and a retry. The processes,
wakers, posters, the ringer of awake and the processors in a timer interrupt
are all actors. Two actions are external: `SetCondition` and `Consume` are the
callers' condition. That a Rendez has one sleeper at a time is the callers'
obligation; on a second one the code prints "double sleep", dumps the stack and goes
on (`proc.c:694-698`). Of awake only what a sleeper sees of it is here: `Elapse`
stands for awake_timer's hand-over together with awake_ringer's pick-up (their own
steps, and what can go wrong between them, are in `Awake`), and the alarm that
interrupted a sleep is cleared when the sleep ends (`SleepCheck`) where the code
takes it at the end of the system call.

**Qio.** What a function does under `ilock(q)` is one step; the wakeup it decided
on comes after `iunlock` and is another. Of the blocks only the bytes they
allocate are kept, `q->len`, since flags and sleeps depend on nothing else; a read
may split its last block and leave any part of it (`Qwait`). `coalesce` is Qcoalesce,
chosen at the start: on such a queue a read that finds nothing but 0-length blocks
frees them and goes back to qwait without restarting the writer
(`NothingToRead`, `qio.c:1006-1013`). A reader is in qwait
under `rlock`, a writer in qflow: the test, the setting of `Qflow`, the wait for
`wlock` and the sleep are four steps. `Interrupt` is a note that ends a sleep or
an eqlock. `q->kick` is left out, because the qget it would cause may come at
any time.

**Awake.** `where` says in which list an alarm is; the registry is ordered by
time, the other lists are not looked at in order. What is done under `rl`, `el`
or `rgrp->l` is one step, except for the scan of awake_timer, one step per
alarm (`TimerScan`), because a process takes `elapsed` without a lock. `TimerRead`
and `TimerStore` are two steps because the code sets `next_wakeup` without `rl`;
`AwakeRemove` and `RemoveAlarm` are two because it looks at the alarm before it
locks. `Rendezvous`, `Meet`, `Resume` are sysrendezvous; `Pull` is
proc_interrupt_finalize for a process in it, used by postnote and by the ringer.
`SyscallEnd`, `TrapNote`, `Noted` are where notes and alarms are taken. `Exec` and
`ExecGc` are two steps, because exec leaves the note handler before it clears the
alarms (`sysproc.c:559-561`). `IsFuture` is the unsigned comparison of tokens in
awake_remove. `passed` is a
history variable, which no action reads: the alarms that awake_timer found due and
passed over, because the process still had another to take.
Abstractions: awake_tick may act at any tick where the code looks at every
eighth; `RingerEnd` sleeps in the step that found nothing pending, so that a
wakeup of `TimerWake` before it is missed, as with the code's `return0`;
alarm_new, while it waits for the pool, is a disabled `AlarmNew`, and the lowest
free alarm stands for any; at most one note waits for a process (NNOTE is 5); none is
posted to a process in exec, which holds `p->debug`; noted(NRSTR) outside a handler,
which `amd64/syscall.c:45` lets through to the failing assertion of `awake.c:293`,
is left out; `sys->nmach`,
which awake_register adds to the time of an alarm, is 1.

## 3. Runs

| run | asks | bounds and result |
|---|---|---|
| `user_lock` | all functions of `Lock`: is the right to enter ever lost, do waiters progress | 3 processes, `MaxKey` 5, `MaxSem` 3; holds |
| `user_canlock` | do lock and canlock together exclude | 3 processes; **violated** |
| `user_qlock` | all functions of `QLock` and `Rendez` but canqlock, with torn rendezvous: one owner, refinement of `Mutex`, the documented transitions, which assertions can fail, starvation | 3 processes, 4 entries, 1 left behind by a timeout at a time; holds |
| `user_rwlock` | all functions of `RWLock` in four programs: the count of readers in all of them; exclusion, no abort, nobody forgotten, refinement of `RWMutex`, starvation where `Plain`; with torn rendezvous | 3 processes, 4 entries, 1 left behind by a timeout at a time; holds |
| `user_rwunlock` | "p cannot have reached Done or Free already" | 3 processes; **violated** |
| `semaphore` | lost wakeups, use of a `Sema` that is gone, sleepers left behind | 3 processes, releases of 1 and 2, value up to 2, one note; holds |
| `kqlock` | one owner, no double ready, refinement of `Mutex`, starvation | 3 processes, 1 poster; holds |
| `krwlock` | exclusion, no panic, nobody forgotten, refinement of `RWMutex`, starvation | 4 processes; holds |
| `sleep_wakeup` | `r->p` and `p->r`, lost wakeups, notes and alarms, stale Rendez, where a timeout can be lost, deadlock of the two lock orders | one of each actor; holds |
| `qio` | lost wakeups of readers and writers, growth under interruption, does everybody get on | 3 processes in 5 programs, on a queue that coalesces and on one that does not, limit 3 (2 and 4 by qsetlimit), blocks of 1 and 2, `MaxLen` 10; holds |
| `awake` | nobody made ready twice, alarms in order but for those passed over, a handler's alarms end with it, every alarm rings | 2 processes in 5 programs, pool of 4, `MaxTime` 2; holds |
| `awake_blocking` | "each wakeup will interrupt a blocking syscall" | as `awake`; **violated** |

*Why the bounds are enough for the cases aimed at.* Three processes are an owner, one
being served and one that arrives or times out meanwhile; four are needed in `krwlock`
for two readers behind a writer behind an owner. The pool of entries has one more than
can be waited on, so that both its exhaustion and its reuse occur. `MaxTimedout` 1
lets a walk skip a timed out entry, free it and find the next waiter behind it;
entries can time out again and again, and walks over several at once are covered by
the proofs. In `sleep_wakeup` the races are between one sleeper and one of each kind
of those who wake it, and the process may come back to the same Rendez while an actor
is still busy with its last sleep; larger sets are covered by the proofs. In `qio` the
programs are the uses the kernel makes of queues: a pipe, one with two writers, a
device's output and its input, the console's queue of prints. The limit of 3 with
blocks of 2 lets the queue pass its limit and its half; `MaxLen` is not reached in the
runs that ask how long the queue gets (the bound there is below 10). In `awake` a pool
of 4 lets a process have two alarms, which is what the order of alarms, the wait of
one for another and the exhaustion of the pool need; two ticks let one elapse while
another waits. One of the programs calls exec in its note handler, which is where the
panic is. Symmetry is used only in the run without temporal properties where it helps.
Bounds are named constants in the guards (`MaxKey`, `MaxSem`, `MaxTimedout`,
`MaxValue`, `MaxNotes`, `MaxLen`, `MaxTime`).

Deadlock is checked except where the system may really stop: everybody asleep
on an empty semaphore or in a rendezvous, or blocked on a lock whose owner
aborted.

### Fairness

* User level modules assume that the kernel runs a process that is ready,
  completes a rendezvous both parties are in, and that an owner unlocks in the
  end: weak fairness on exactly those steps. Nobody is obliged to ask for a
  lock, to post a note or to time out.
* `KQLock` and `SleepWakeup` have steps that begin with a spin lock, which
  others may take again and again: the step is enabled infinitely often and not
  continuously, so strong fairness is assumed. The kernel's test-and-set locks
  do not guarantee it by themselves; that a spinning processor gets the lock in
  the end is an assumption on the hardware, and postnote calls `sched()` between
  two tries. With weak fairness the progress properties of these two fail.
* `Qio`: strong fairness on the steps of a call that was made, because `wlock` is
  taken by other writers in between; it is a kernel `QLock`, which serves in turn
  (`NoStarvation` of `kqlock`). Nobody has to read, write or close.
* `Awake`: weak fairness on the clock, on awake_timer, awake_ringer, a postnote
  begun and the steps of a process; strong fairness on the dispatch of an alarm
  that frees it or pulls the process out, since the ringer looks every 30
  milliseconds at a process that may be on a processor each time.
* `NoStarvation` of `UserQLock` has a premise. rwakeup puts a sleeper on the
  *front* of the queue of the lock (`qlock.c:806-809`), so a process in qlock
  can be overtaken for ever while others keep sleeping on the Rendez and being
  woken; it is served if that ends.

### What the violated runs show

1. **canlock** (`lib/c/port/lock.c:39-42`). "Undo increment (but don't miss
   wakeup)": the loser of canlock takes its increment back and, if somebody else
   is still counted, releases the semaphore. Nobody may be waiting there; the
   count stays, and a later lock that has to wait takes it and enters beside
   the owner. That canlock loses no wakeup is true (`NoneForgotten`, proved).
   Without canlock exclusion is proved. canqlock calls canlock on `q->lock`
   (`9sys/qlock.c:284`): two of its callers can be in the section under `q->lock`
   at once, so `UserQLock` leaves canqlock out. canrlock and canwlock take
   `q->lock` with lock and are modelled.
2. **wunlock** (`9sys/qlock.c:585-602`). To meet a reader it started, wunlock
   releases `q->lock` with `q->head` still at that reader's entry; the reader may
   be in runlock before wunlock has the lock again, and walks from an entry that
   is `Done` or `Free`.
3. **awake** (`kern/port/awake.c:31`, `amd64/syscall.c:352`). `blockingsc` marks
   the system call a process blocks in and is not reset when that call ends
   without an alarm. A later call that never blocks then takes the alarm at its
   end, and the blocking call the alarm was for is not interrupted.

### Where the properties have conditions

The passing properties say where they hold; these are the places where the code
does less than a reader might expect. Each condition was found by TLC, which
violates the property without it.

* **rsleept** (`9sys/qlock.c:752-755`). A timeout between rwakeup (which makes
  the entry `Queuing`) and the qunlock that serves it fails
  `assert(me->state == Done)`. It is the only assertion of `QLock` and `Rendez`
  on the state of an entry that can fail (`OnlyRsleeptFails`, proved).
* **Torn rendezvous** (`sysproc.c:730-732`, `proc.c:968-969`). The second party of a
  rendezvous takes the first out of the table, unlocks and then makes it ready. A note
  or an alarm that finds the first in between sets its value to `~0` although it is in
  no table any more: the first takes itself for interrupted, the second does not.
  In `qlock.c` the waker goes on and the waiter calls rendezvous again, with the lock
  already its own and nobody coming; the comments at 266-268, 367-369 and 514-516, by
  which the other party is met in the next try, overlook it. It waits for ever, or
  until its entry's tag is used by the waker of somebody else; a waker that is left
  over in the same way can meet a process before its turn, whose assertion on its
  entry then fails. What such a step cannot do is proved: nobody enters beside an owner
  (`OneOwner`, `Exclusion`, the refinements), no list is corrupted. What it can do is
  exempted by `torn`: the assertions (`OnlyRsleeptFails`, `NoAbort`), `q->_readers`,
  which may then count a reader that aborted (`ReadersCounted`), and that waiting ends
  (`NoStarvation`, `QLockNeverAllAsleep`, `RWLockLetInMet`, `RWLockNeverAllAsleep`).
* **RWLock.** Besides wunlock (above), when every waiting writer has timed out,
  runlock frees their entries and returns with `q->head` and `q->tail` at them
  (`qlock.c:424-425` jumps past the assignments, where qunlock and wunlock reset
  the list). `Plain` is the program with neither readers that queue nor timeouts;
  there the comment wunlock breaks holds (`RWLockPlainWalk`). What does not depend
  on the list, the count of readers and the assertions of a call on its own entry,
  is proved of every program.
* **tsleep** (`kern/port/proc.c:785-788`). twakeup calls `wakeup(trend)` first
  and then makes the condition true (`p->trend = nil`). When the process runs on
  another processor than the one its timer is on and commits to sleep between
  the two, the timeout does not come. `TimeoutKept` (proved) names that window and
  says that there is no other.
* **Qio.** `SoleWriter`: with a second writer (or qiwrite, qnoblock, qsetlimit,
  which do not mind `Qflow`) the queue is filled again between the clearing of
  `Qflow` and the first writer's sleep (`qio.c:1067-1087`): it sleeps with the flag
  clear, and the readers that drain the queue do not wake it. `SoleConsumer`: a
  second consumer takes the block that cleared `Qstarve` before the reader sleeps
  (`qio.c:765`). A limit of 1 is assumed away: its half
  is 0, and a queue is never shorter than that, so that a writer is never
  restarted. Qcoalesce: a read that freed nothing but 0-length blocks goes back to
  sleep without restarting the writer (`qio.c:1006-1013`, where all other ways out of
  a read go through qwakeup_iunlock), and the writer sleeps on an empty queue.
  `NoLostWriter` and `Served` exempt an emptied queue that coalesces. The queues of
  the tree that coalesce (TCP's and the serial line's input, the keyboard's, the
  kernel prints') have no writer that sleeps, so that it is a trap of the interface.
* **awake_ringer** (`awake.c:651`) sleeps with `return0`: a wakeup between its last
  look at `elapsed` and the sleep is missed, and the alarm waits for the next one
  of anybody. `Rung` says that every alarm rings unless the ringer oversleeps
  that way for ever.
* **awake_timer** (`awake.c:501-505`). "we fix time to preserve wakeup order", but
  an alarm whose process has another to take is passed over ("each wakeup must have
  a chance"), and the process takes that other one without `rl`. If it does so in
  the middle of the scan, the scan hands over a *later* alarm of the same process
  next; `wakeups[].last` is then past the one still in the registry, which
  awake_remove refuses to touch, and which awakened(2) says is over
  (`lib/c/9sys/awakened.c:26`). It takes three alarms of one process due in one
  scan: with a pool of 7 and `MaxTime` 3 TLC shows it, the pool of 4 of the run is
  too small. `AlarmsInOrder` says that only an alarm in `passed` can be overtaken.
  This was found by its proof: without `passed` the invariant is not inductive,
  and what is missing is not true.
* **exec in a note handler** (`sysproc.c:559-561`). exec sets `notified` to 0 and then
  clears the alarms. Preempted between the two, with an alarm of the handler elapsed,
  the process is found by awake_dispatch with an alarm above its level, and the kernel
  panics (`awake.c:577-584`, "this should never happen because p is not Running").
  `HandlerAlarmsDeleted` says that there is no other way to that panic.

Recorded and not refuted by a run, with the properties holding all the same:
`next_wakeup` is read and stored without `rl` (`awake.c:527`); alarm_new may wait for
alarms only its own process holds (`awake.c:185`); an alarm of the program can
interrupt a rendezvous of its note handler (`awake.c:592`); awake_remove looks at an
alarm before it locks (`awake.c:418`); it compares the token, a `long`, with `last`, an
`unsigned long` (`awake.c:411`), so that nothing is deleted before the first wakeup of a
process, although "future wakeups can be deleted" (`awake.c:30`); a note posted before
the process has set its state to Rendezvous neither interrupts it nor lets an alarm do
so (`awake.c:587`). `Awake` models all of them.

## 4. Theorems

All are proved for every value of the constants (any number of processes, posters,
processors, any pool, limit and sizes), from the named assumptions of the modules;
the theorems that count (those of `UserLocksProofs`, `QioNoBloat`,
`SemaphoreNoLostWakeup`) also assume that the set of processes is finite, and
`RWLockNoAbort` that the pool has more entries than there are processes. `TypeOK`
is proved, too, for every module with proofs.

* `LockNoneForgotten`, `LockMutualExclusion` (`UserLocksProofs`, where `L` is an
  instance of `UserLock`: `L!NoneForgotten` is what `user_lock` checks). The invariant
  is that `key` is at least the number of processes whose increment is in it,
  and that `key > 0` implies a right to enter (a count in `sem`, an owner, or an
  unlock before its semrelease). Nobody-forgotten alone is not inductive: unlock
  keeps the right when it brings `key` to 0, which is only correct because of the
  count. Without canlock there is besides at most one right (`OneRight`), from which
  `LockImplementsMutex` follows: every atomic instruction and system call of lock,
  lockt and unlock takes the abstract lock when nobody has it, gives it up for its
  holder, or leaves it alone.
* `QLockOneOwner`, `QLockOnlyRsleeptFails`, `QLockAborts` (`UserQLockProofs`). The
  invariant adds to `OneOwner`: an entry is in one list at most, once, in the state of
  that list or timed out (`Lists`); a waiting process has an entry of its own, still
  waiting or `Done` (`Waits`); until a rendezvous is torn, at most one process is in
  the rendezvous of a hand-over, and its peer has not left (`Wakes`). The walks of the
  lists are reduced to what they do to the entries by two lemmas (`HandOffPasses`,
  `WakeWakes`), so that no step about owners reasons about sequences.
* `QLockDocumentedTransitions`, `QLockImplementsMutex` (`UserQLockProofs`). Both are
  action properties, from the same invariant. Each call and each return either moves
  an entry along a documented transition (`Follows`) or leaves it; each either takes the
  abstract lock when nobody holds it, gives up the caller's own, or leaves the holder
  alone (`Acts`). The holder is the process between the lock and the unlock.
* `QLockNeverAllAsleep` (`UserQLockProofs`). Unless a process aborted or a rendezvous
  was torn: every entry that is not free or timed out belongs to a process (`Owned`),
  a waiter whose entry is `Done` has the process that hands over in the other end of
  its rendezvous (`Met`), and a process in rsleep does not hand the lock to itself
  (`NotSelf`). With `OneOwner`, a process that waits then implies one that owns the
  lock, comes back with it, or hands it over to somebody who is there.
* `RWLockReadersCounted`, `RWLockNoneFailed` (`UserLocksProofs`), of every program.
  Neither is about the list, and so the invariant does not mention it: a waiting
  process has an entry of its own, queued or `Done`, and every such entry is that of
  a process that waits, or failed after it did (`Waits`); until a rendezvous is torn,
  whoever an unlock is to meet was let in, still waits, and is met by nobody else
  (`Wakes`). Wherever a walk goes wrong, it lets in at most
  one process for each reader it counts, or aborts.
* `RWLockExclusion`, `RWLockNoneForgotten`, `RWLockPlainWalk`, `RWLockPlainCount`,
  `RWLockNoAbort` (`UserLocksProofs`), of `Plain` programs. There the queued entries
  are a sequence without repetition from `head` along `next` to `tail` (`Chained`;
  `AppendChain` and `TailChain` are the two ways it changes), who walks looks at its
  head (`Places`), `writer` is set exactly when there is one writer, the one that is
  leaving included (`OneWriter`), and a queue is behind a writer, behind readers, or
  in front of the last reader's walk (`Behind`). That getqlp finds an entry is a
  count: each entry that is not free has an owner, and not the process that asks
  (`EnoughEntries`).
* `RWLockImplementsRWMutex` (`UserLocksProofs`), of `Plain` programs. The map takes
  whoever was let in as a holder although it still waits in its rendezvous, and the
  last reader as one although `q->_readers` does not count it any more while it walks:
  what the lock promises changes in the step that makes the next entry `Done`. In a
  program that is not `Plain` nothing is claimed (the map is constant there).
* `RWLockLetInMet` (every program), `RWLockNeverAllAsleep` (`Plain` ones), until a
  rendezvous is torn. Whoever was
  let in and waits is awaited by the unlock that let it in; with `Behind` this makes a
  waiting writer imply a process that is not asleep and has the lock or is leaving it.
* `SemaphoreAlive`, `SemaphoreNoLostWakeup` (`SemaphoreProofs`). `Structure` says
  that the list holds exactly the processes between semqueue and semdequeue, and
  that whoever walks it has its lock; `SemaAlive` follows. `NoLostWakeup` needs a
  count. A unit of the value has a *token*: a wakeup somebody was given and has not
  used (`waiting` cleared), a process about to look at the value again, or one of
  the wakeups a semwakeup in progress still has to give. For any process that found
  the value 0 and waits, the value is at most the number of tokens, where a
  semwakeup counts only while that process is still in front of it (`Covered`).
  Every step keeps the tokens, exchanges one for another, or gives one up with a
  unit of the value.
* `KQLockOneOwner`, `KQLockReadyOnce` (`KQLockProofs`). The invariant says where
  a process in the queue is (`Queue`), that `eql` and `state` follow the place in
  the code, that a process pulled out of eqlock is Ready and not in the queue
  (`Places`), and that qunlock is about to make ready exactly the chosen owner
  (`Handing`). Why a poster may act on a stale look at `p->state` is then visible:
  under `q->use` it tests `eql` again.
* `KQLockImplementsMutex` (`KQLockProofs`): the refinement of `Mutex`, where the
  holder is the process in the critical section. By the invariant there is one at
  most, a process enters only when there is none, and it leaves only by qunlock
  (`HolderUnique`, `HolderEnters`, `HolderLeaves`).
* `KRWLockExclusion`, `KRWLockNoPanic`, `KRWLockNoneForgotten` (`KRWLockProofs`).
  The invariant says who is in the queue and in which state (`Queue`, `Places`),
  that the head of a queue behind readers is a writer, which is why runlock does
  not panic, and that those let in and not yet made ready are counted (`Handing`).
* `KRWLockImplementsRWMutex` (`KRWLockProofs`). Readers and writers that were let in
  and not made ready yet hold the abstract lock, those in the queue wait for it. By
  the invariant the queue is empty or behind a holder, so that every rlock, wlock and
  canrlock enters or queues as `RWMutex` says, and the one step of runlock or wunlock
  under `use` either leaves or passes the lock on.
* `KQLockNeverAllAsleep`, `KRWLockNeverAllAsleep`. What the invariants do not say by
  themselves: whoever was taken off the queue and still sleeps is remembered by the
  process that took it off (`Coming`), so that a hand-over between the end of the
  section and the call of ready cannot leave everybody asleep.
* `SleepSynchronized`, `SleepNoLostWakeup` (`SleepWakeupProofs`). The invariant
  adds what holds between the two locks of each function (`Locks`): whoever is
  between `r->l` and `p->rlock` in wakeup has `r->p` fixed, whoever tries `r->l`
  in postnote has `p->r` fixed. That sleep tests the condition, the note and the
  alarm with both locks held is what makes `NoLostWakeup` inductive.
* `SleepNoStaleRendez`, `SleepTimeoutKept` (`SleepWakeupProofs`). On top of the
  former, what the timer of a process is doing in each place of tsleep (`TInv`):
  a processor in twakeup for it keeps tsleep from returning, because stoptimer
  waits for the timer's lock.
* `QioNoLostReader`, `QioNoLostWriter`, `QioNoBloat` (`QioProofs`). The invariant
  follows a reader and a writer from asking (`ReaderAsks`, `WriterAsks`) to
  sleeping: in between, the flag is set, or somebody cleared it and is on the way
  to the wakeup, or the condition holds by now. `NoBloat` needs a bound that
  counts only the writers that have not added their block yet (`Bounded`).

* `AwakeReadyOnce`, `AwakeAlarmsInOrder`, `AwakeHandlerAlarmsDeleted`,
  `AwakeTakenForward` (`AwakeProofs`). The invariant says in which list an alarm with
  an owner is and that the scan looks at the registry and the ringer at what is
  pending (`Lists`), that a process in awake_register has exactly one new alarm, of
  its level (`News`), who waits in a rendezvous and who is about to make somebody
  ready (`Meets`), and how the alarms of a process are ordered (`Order`): no two at
  the same tick in the registry, and what elapsed before all that is still there and
  not passed over. That two alarms never have the same tick needs that awake_register
  finds a free one, by the pigeonhole principle (`SlotIsFree`). Most steps only free
  alarms, take an elapsed one or move a process (`Shrinks`); one lemma
  (`ShrinksInv`) does for all of them, and the six that do more (alarm_new,
  awake_register, and awake_timer's and awake_ringer's moves from list to list) have
  a proof of their own.

*Only model-checked:* all liveness (`Progress`, `NoStarvation`, `SleeperServed`,
`SleeperWoken`, `NoteInterrupts`, `Served`, `Rung`), which is out of the prover's
reach: it handles neither fairness nor ENABLED. Of `NoStarvation` of the four queueing
locks the safety part is proved (the `...NeverAllAsleep` theorems): while
anybody waits, somebody is there to serve him (in the C library, unless a process
aborted or a rendezvous was torn), so that only fairness is left to TLC. Every
invariant and every action property a passing run checks, the four refinements
included, is proved.

## 5. Not modelled

* `jehanne__qlockinit` (the thread library's rendezvous); lock statistics and
  diagnostics; waiting writers' priorities do not exist in the code.
* canqlock of the C library (see canlock above). In `UserQLock` and `UserRWLock`
  failures of `lockt(&q->lock)`: they return without a change to the queue, and that
  `q->lock` excludes is proved with them (`LockImplementsMutex`).
* The value of a semaphore is bounded; overflow of `value+delta` is a recorded
  hazard.
* In `Awake`: awake_disable and awake_enable (used by dev9p.c), the dispatch to a
  process in eqlock (its pull is in `KQLock`), pexit (its awake_gc_proc is that of
  exec).
* In `Qio`: the data of blocks (qcopy and the block helpers, qputback within a
  read), `q->kick`, qbypass, which is chosen when the queue is made.
* The components with status `not_modelled` in `PROJECT.json`, each with its
  reason. The repository has more than 400,000 lines of C, most of it drivers, a
  network stack, cryptography, graphics and some hundred programs: code whose
  correctness is in its data, its hardware or its formats, and which uses the
  modelled primitives without adding concurrency of its own. The map covers the
  synchronisation of kernel and C library, a small part of that by lines.

## 6. Plan

Done, in this order: `UserLock`, `UserQLock`, `UserRWLock`, `Semaphore`, `KQLock`,
`KRWLock`, `SleepWakeup`, `Qio`, `Awake` (with rendezvous(2)), and the proofs of all
of them, with the refinements of `Mutex` (both `QLock`s, and `Lock` without canlock) and
of `RWMutex` (both reader/writer locks), and that no lock leaves all its users asleep.

Next, most important first:

1. Scheduler and process life cycle: pexit against pwait, ready against sched.
2. Timers and alarm: the ordered lists, timerdel against timerintr.
3. The MCS lock (would also justify part of the strong fairness), dev9p's tags and
   flushes, libthread's channels.

## 7. Running it

    tlc -workers 2 -config UserQLock.cfg MCUserQLock
    tlapm UserQLockProofs.tla

Comments starting with "mutant:" mark definitions that no specification uses: each
is a plausible wrong version of the definition below it, kept to show that a
property of a run notices the difference (`PROJECT.json`, "mutants").
