# TLA+ models of the Tcl core

This directory holds TLA+ models of Tcl (version 9.0, the fork of this
repository with shorthand expressions), the TLC instances that check them, and
TLAPS proofs of what matters most. `PROJECT.json` lists components, runs, the
map from definitions to source lines, hazards and theorems in a form that
programs can read. This file explains them.

Paths are relative to `src/`. `generic/` is the portable library, `unix/` the
POSIX layer.

## 1. Inventory

Tcl is a library that is mostly sequential per thread: an interpreter belongs
to one thread. What is hard in it lies around the interpreter. Event loops are
re-entered from their own callbacks, threads post to and wake each other,
signals reach handlers through a helper thread, and everything is torn down in
an order that has to suit all of these. That part is modelled first.

| Component | State | Operations | Interacts with | What is hard | What makes it correct |
|---|---|---|---|---|---|
| Asynchronous handlers, `generic/tclAsync.c` | list of handlers of the process, `ready` of each, `asyncReady`/`asyncActive` of each thread | create, mark (thread, signal, notifier thread), invoke, delete, finalise | alerts through the notifier, runs at safe points of the event loop | marks during an invocation, marks from signals, lock order, exit | no mark and no wake-up lost, no nested invocation, nothing left of a dead thread |
| Generic notifier, `generic/tclNotify.c` | event queue with first, last and marker pointers, `eventCount`, service mode, list of notifiers | queue, post, alert, delete, service, one round of the loop, finalise | platform notifier below, handlers above (which re-enter it) | the queue changes while a handler runs; alerts are skipped if the queue is not empty | pointers agree with the chain, promised order, no lost wake-up, balanced counts and modes |
| Timers, idle handlers, `after`, `generic/tclTimer.c` | sorted timer list, idle list with generations, list of `AfterInfo`, `timerPending` | create, delete, run a pass, cancel, interpreter deletion | event source of the notifier | callbacks change the lists and nest passes; counters wrap | passes serve what is due and nothing newer, waits are not too long, `AfterInfo` never dangles |
| Preserved memory and handles, `generic/tclPreserve.c` | array of references, handle structures | preserve, release, eventually free, handle functions, finalise | called everywhere a callback may delete what is in use | free procedures re-enter; slots move | freed once, only when unused, and then certainly |
| Select notifier, `unix/tclSelectNotfy.c`, `unix/tclUnixNotfy.c` | file handlers and masks of a thread, waiting list, trigger pipe, notifier thread | wait, poll, create and delete file handlers, alert, start, finalise, fork | below the generic notifier; performs marks of signals | three locks, a pipe, a thread that comes and goes, fork | no waiter dropped, no select on outdated masks, threads end |
| Exit handling, `generic/tclEvent.c` | exit handler lists, background errors, `vwait` | create, delete, run; thread and process finalisation | calls every other finaliser | handlers change the list they are run from; order of finalisers | each handler once, no finaliser after what it needs |
| Thread joining, `generic/tclThreadJoin.c` | list of joinable threads, lock and condition of each | remember, exit, join | thread creation | hand-over from the list lock to the record lock | record freed once, no join lost |
| Threads, mutexes, conditions, `generic/tclThread.c`, `unix/tclUnixThrd.c` | re-entrant mutex (owner, counter), made at its first use; tables of thread data | lock, unlock, wait, notify, finalise | everything | the pointer, the owner and the condition are read without a lock | an atomic re-entrant lock; no notification missed |
| Thread allocator, `generic/tclThreadAlloc.c` | block caches per thread and shared | allocate, free, move blocks, exit | everything | batches moved between caches | no block in two caches |
| Epoll and kqueue notifiers | alert descriptor, handlers | as the select notifier | as the select notifier | alerts of waiting threads | no lost wake-up |
| Reflected channels and transformations, `generic/tclIORChan.c`, `tclIORTrans.c` | list of forwarding results, maps of channels per interpreter and per thread, `dead` flags | forward, serve, answer, post an event, close, deletion of the interpreter, exit of either thread | queue and alert of the notifier, a mutex and a condition | the handler's thread or interpreter may go at any point; methods nest in event loops | each waiter gets exactly one answer, methods run while their caller waits, events reach channels that exist |
| Channels, `generic/tclIO.c` | buffers, flags, background flush, reference count, event masks | read, write, flush, configure, half-close, close, copy, deletion of interpreters, exit | drivers, events, preserve | writes, closes and mode changes while a flush goes on in the background | every byte out once and in order or reported, closed in the end |
| Variables, namespaces, traces | tables, traces, reference counts | set, unset, trace | interpreters | traces that delete themselves or their variable | no trace run after deletion |
| Parser, expressions, compiler | none that lasts | parse, compile | bytecode engine | precedence with the fork's `=`, `,` and `;` operators | the tree is the one the precedences define |
| Bytecode engine, values, numbers, commands, clock, OO, regexp, VFS, packages | see PROJECT.json | | | sequential and data-heavy | left to the test suite |

How they interact: `Tcl_DoOneEvent` (notifier) calls event sources (timers),
then the platform's `TclpWaitForEvent` (select notifier), then services the
queue. A mark calls `Tcl_ThreadAlert`, which takes `listLock` and calls the
platform's alert. A signal only writes to the pipe of the notifier thread,
which performs the mark. `Tcl_FinalizeThread` finalises the notifier first and
the asynchronous handlers afterwards. A reflected channel queues an event for
the thread of its handler, alerts it and waits on a condition variable.  A
channel with a background flush asks its driver for writable events, which the
notifier delivers.

## 2. Modules and the code

Every module works at the granularity of the code's critical sections: one step
is what a thread does between taking a lock and releasing it, or up to the point
where it waits or takes a second lock. Where the code runs a callback the step
ends, and any action of application code may follow.

Definitions called "Mutant" in a comment are not part of a specification. Each
is a plausible wrong version of the definition below it, and TLC finds the
listed property violated when it is put in its place (`mutants` in
PROJECT.json). `TypeOK` of a module documents the values of its variables; where
there are proofs it is part of the inductive invariant.

### TclAsync (generic/tclAsync.c; parts of tclSelectNotfy.c, tclNotify.c, tclEvent.c)

`handlers` is the list `firstHandler .. lastHandler`; `ready`, `asyncReady` and
`asyncActive` are the fields of these names; `asyncMutex` and `listLock` hold
their owner. A mark that needs an alert takes two steps, because `listLock` is
taken while `asyncMutex` is held: `Tcl_AsyncMark`, then `AlertFromMark`. The
notifier thread is modelled with the part that concerns signals: from `select`,
interrupted or reading its pipe, through the pass of `TclAsyncMarkFromNotifier`
to the test for the `q` byte; `token` is how far a pass has come in the list.
Signals reach it at any point until it exits, since nothing blocks them (section
6, tclSelectNotfy.c:1103). `Tcl_AsyncInvoke` and `ProcReturns` are the loop of
the function of that name, cut where the handler's procedure runs. Finalisation
is `TclFinalizeNotifier`, `FinalizeJoin`, which performs the marks that came too
late for the notifier thread (tclSelectNotfy.c:436), and the loop of
`TclFinalizeAsync`, one handler a step. `accepted` is a history variable: the
marks that returned 1 and have not been followed by a run.

### TclNotify (generic/tclNotify.c)

`queue[t]` is the chain from `firstEventPtr`. `lastEventPtr`, `markerEventPtr`
and `eventCount` are separate variables, written exactly where the code writes
them, so that they could disagree with the chain: a tail insertion goes after
`lastEventPtr` wherever that is. `stack[t]` holds the active event loops of a
thread: the stage of each, the event whose handler it runs and the count it has
set aside. Event sources are one stage that may queue events or not. Posting is
`PostAlertIfEmpty` and `Post` under `listLock`, followed by `Tcl_ThreadAlert`.
`Tcl_DeleteEvents` removes one selected event a step with the queue locked.
Finalisation is two steps, `FinalizeQueue` and `FinalizeList`, because the code
releases `queueMutex` before it takes `listLock`. `arrival` is a history
variable.

### TclTimer (generic/tclTimer.c)

One thread. A time is a record of seconds and of `USEC` parts of a second,
carried as the code carries them (the two places differ, see section 6). A timer
is known by its creation number; its token is that number as a C int of
`IntRange` values. `NewerThan` is the difference of two such ints in a
`ptrdiff_t`, which `PTR2INT` yields (tclInt.h:112): on 64-bit builds it is wider
than an int and does not wrap along. The model is of these builds. `stack` holds
event loops and the timer and idle passes inside them, each with the values its C
function keeps in locals (`currentTimerId`, the time read at the start, the old
generation). `queued` counts the timer events in the notifier's queue. The clock
advances at any moment. `after` scripts are `AfterInfo` addresses with their
list and token; cancelling, running and interpreter deletion free them as in the
code. Every removal from a list is `Keep`: what the loop that unlinks leaves, in
its order.

### TclPreserve (generic/tclPreserve.c)

`refArray` is the array up to `inUse`, `spaceAvl` its size. Removing a slot
copies the last one over it. `holds` says what each holder has preserved. A free
procedure is a state of its block (`freeing`) during which holders may preserve
and release it again; a freed address may be allocated again. `panicked` is set
where the code calls `Tcl_Panic`. The application pairs its calls, dooms a block
once, and calls `TclFinalizePreserve` with nothing preserved: these are the
documented duties of callers. A `HandleStruct` is the record `handle[x]`.

### TclSelectNotfy (unix/tclSelectNotfy.c, unix/tclUnixNotfy.c)

The build with threads and `select` on POSIX. A wait of a thread is
`StartNotifierThread` (started on demand, under `notifierInitMutex`),
`EnterWait` (one critical section of `notifierMutex`, up to the condition wait)
and `LeaveWait` (from the wake-up to the queueing of file events). The notifier
thread is `NotifierStarts`, `NotifierMasks`, `NotifierSelects` or
`NotifierInterrupted`, `NotifierAlerts`, `NotifierReads`, `NotifierExits`. The
pipe is abstracted to whether it holds a wake-up byte and whether it holds a `q`;
a full pipe is not distinguished from one with a byte in it. `buf[0]` has the
value `"uninit"` before the first read. `AtForkChild` makes the calling thread
the only one of the process. `FileChanges` is the outside world. `readyMasks` of
a thread are cleared when its wait ends, since the code reads them only there.

### TclReflect, RemoteCall (generic/tclIORChan.c, generic/tclIORTrans.c)

`ForwardOpToHandlerThread` is the first critical section of the function of that
name: the result goes on the list and the event into the queue of the handler's
thread. `ForwardReturns` is the second, after the wait. In the handler's thread
`ForwardProc` takes an event and starts the method, `ForwardProcReturns` ends it;
in between that thread may serve further events, since a method may enter the
event loop. `frames` is the stack of methods that run. Deleting an interpreter is
`DeleteReflectedChannelMap` (channels marked dead) and `CancelInterp` (results
cancelled under the lock); the exit of a thread is `ThreadExits` and
`ThreadGone`, in the order that each of the two files has: channels cancel and
then mark, transformations mark and then cancel. Both files share the module,
with `Transform` saying which handlers belong to tclIORTrans.c. `"input"` stands
for every operation that has no effect on these structures.

An interpreter deleted by its own method, or in an event loop inside of it, goes
in the `Tcl_Release` of the outermost method that it runs: when that method has
returned, but `ForwardProc` has not. `DeleteReflectedChannelMap` has just this
guard, and no script runs (`Running`) until `ForwardProcReturns` has ended the
call. If the caller has been given an error meanwhile it may have gone on
(`StillWaits` is false), and the write through the stale `resultPtr` changes
nothing, or the result of another operation. Two history variables mark where the
code's own promises end: `freedUse`, that a call of `ForwardProc` has used freed
memory, after which C defines nothing, and `late`, the callers that forwarded to
a thread with channels between its two exit steps. Both do happen (section 6), and
the properties are stated up to them. CallerIsQuiescent says when `freedUse` can
come about: only where a call ends whose interpreter is gone, for while it exists
the caller is blocked and the result is the caller's.

RemoteCall is the promise to the caller: one answer, the method run at most once
and not after the answer, success only if it ran. TclReflect implements it with
`call` and `answer` computed from `result`, `code` and the history variable `ran`,
until `freedUse`.

### TclMutex, ReentrantLock (unix/tclUnixThrd.c)

One `Tcl_Mutex` and one `Tcl_Condition`, from before their first use to after
their finalisation, which may happen again and again. The steps are those of
`Tcl_MutexLock` with its double check under the global lock, `PMutexLock`,
`PMutexUnlock`, `PCondWait` and `PCondTimedWait`, `Tcl_ConditionNotify` and the
two finalisers. Three locations are read without a lock: the two pointers and
the field `thread`. A racing read is a choice among the values that the reader
may still see, kept in `ptrView`, `condView` and `threadView`: those written since
it last wrote the location or met the writer at a lock. What is assumed is that
whoever sees a pointer sees what it points to; the code has no barrier there,
and the x86 memory model provides it.

ReentrantLock is an owner with a depth, and waits that give up all levels and
take them back. TclMutex implements it, with the depth computed from the
structure, or from the local copy of a thread that waits.

### TclChanOutput (generic/tclIO.c)

The output side of one unstacked channel that several interpreters of a thread
may share. `queue` holds the bytes of the buffers from `outQueueHead` on, `cur`
those of `curOutPtr`; bytes are numbered as they are written, so that order and
completeness can be stated. Where one queued buffer ends and the next begins is
left out: the driver takes any part of what it is offered. `FlushChannel` is the
function, with the three ways its loop ends as `Drained`, `WouldBlock` and
`Failed`, and the closing of the channel or of its write side at the end as
`FinishFlush`. The flags have their names in the code (`bg` is
`BG_FLUSH_SCHEDULED`). Every operation that flushes is one step with the flush.
`accepted` counts the bytes written and not discarded: a failed flush discards the
queue and either fails the operation or leaves the error for the next one
(`unreported`); if the channel is closed by then, nobody is told.

`WouldBlock` is EAGAIN or EWOULDBLOCK, which FlushChannel takes in either mode
(tclIO.c:2829): the comment there says that it happens with a blocking stdout. It
then schedules a background flush and returns success. The history variable
`refused` says that this has happened since the channel was last made blocking.

### Proof modules and instances

Each of the eight modules of the code has a module of theorems, `X_proofs` beside
`X`, which states the lemmas about sequences and sets that it needs. The
modules beginning with `MC` give TLC its model values, symmetry sets and small
sets.

The modules meet at shared operations rather than in one large product:
TclAsync carries its own small event loop and alert (the flag TclSelectNotfy
shows to be reliable), TclNotify assumes of the platform only that an alert ends
a wait, and TclTimer assumes of the notifier only that a queued event is
served, which QueuedEventServed shows. TclReflect assumes the same, and mutexes
that work, which TclMutex shows. TclChanOutput assumes that a writable event is
delivered while it is asked for, which is WaiterServed of TclSelectNotfy.

## 3. Runs

Deadlock is checked unless a configuration says otherwise; it does where threads
may all exit, where the bounds on timers and the clock end a behaviour, or where
the run is about a deadlock.

| Run | Instance | Checks |
|---|---|---|
| async_handlers | 2 threads that may both exit, 2 handlers, one also marked by signals, 3 marks, fair | NoLostMark, NoLostWakeup, ListedOwnersAlive, NoMarkOutlivesNotifier, MarkedHandlerRuns |
| async_exit_deadlock (violated) | both threads may exit, one signal, fair | NotifierShutsDown |
| notify_queue | 3 events of 2 types, all positions, loops nested twice that leave one type to `Tcl_ServiceAll`, a poster | QueueShape, DeliveryOrder, CountBalanced, LoopsNest |
| notify_wakeup | 2 events, loops that accept every type, nested twice, a thread that sets its mode and may be finalised, fair | PostedEventWakes, QueuedEventServed |
| timer_passes | 3 timers, nested loops, a creation count below the largest int | PendingIsQueued, PassServesExpired, NoOversleep |
| timer_idle_after | 2 timers, 2 idle handlers, a script that is run or cancelled and set again, interpreter deletion, nested passes, fair | AfterListedIffPending, PassSkipsNew, TimerFires |
| preserve_safety | 3 blocks, 3 holders, 1 handle, an array that grows twice, fair | ArrayExact, FreedOnceUnused, HandleExact, FreedWhenUnused, EventuallyFreed |
| select_safety | 2 threads, 1 descriptor, polls and timed waits, spurious wake-ups, forks | NoWaiterDropped, WaitersHaveNotifier, SelectIsCurrent, FileHandlersExact |
| select_live | 2 threads that wait for ever, exit and fork, 1 descriptor, fair | WaiterServed, FinalizeEnds |
| reflect_forward | 2 owners, a thread with 2 interpreters and a channel in each, a thread with a transformation; either may exit at any moment | WaiterHasEvent, CallerIsQuiescent, PostsReachOpenChannels, ImplementsRemoteCall |
| mutex_reentrant | 3 threads, depth 2, 2 structures, finalised and made again | ImplementsReentrantLock, NoMissedNotify |
| channel_output | 2 interpreters, buffers of 3 bytes, 8 bytes, a driver that accepts any part, would block or fails, fair | OutputExact, QueuedIsWatched, OnlyBlockingStrands, BlockingFlushWritesAll, NoWriteAfterHalfClose, PendingCloseCompletes |

What the passing runs show:

- **async**: no interleaving of marks, invocations, deletions and exits loses a
  mark or a wake-up. A signal may arrive when the notifier thread has made its
  last test for marks; the thread that joins it then performs the mark, so that
  none waits for a notifier thread that has ended. A second thread and handler
  are enough for every pair of roles (marker, owner, other owner), and three
  marks let one arrive before, during and after a run.
- **notify**: with three events the marker can have a predecessor and a
  successor, which is when unlinking and inserting differ; two levels of loops
  let a handler's loop serve, delete or defer what the outer loop was looking at.
- **timer**: with three timers a pass has one behind it, one running and one
  created meanwhile. The count stays below the largest int: beyond it passes are
  not complete (section 6, tclTimer.c:583).
- **preserve**: three blocks exercise the move of a slot into the first, the
  middle and the last place.
- **select**: two threads are what it takes for one to change the list while the
  notifier thread is about to alert the other, and for the last of them to stop
  the thread the next one starts. The handler of the descriptor is deleted and
  made again with another mask while events of the older one are queued. With
  one descriptor the search for the highest one left always ends at zero.
- **reflect**: forwarded operations of two owners nest in the thread of one
  handler, whose interpreters go one at a time, also by their own methods, while
  either thread may exit at any point of an operation, of draining or of closing.
  No caller is left without an event that will answer it, except for one that is
  `late`, and none gets two answers. All this holds until `freedUse`; the
  constraint `Defined` cuts the search there, since the properties say nothing
  of what follows.
- **mutex**: of three threads two may make the mutex at once while the third holds
  or waits; depth two distinguishes the levels that a condition wait sets aside.
  Two structures let a stale pointer differ from the current one.
- **channel**: a buffer of three bytes may be empty, partly filled and full; eight
  bytes fill the queue, the device and the current buffer in every combination.

Bounds named in the modules: `MaxMarks`, `MaxDepth`, `MaxTimers`, `MaxIdle`,
`MaxSec`, `MaxEvents`, `MaxPosts`, `MaxBytes`; `IntRange` stands for the number
of C ints and `FirstId` for the creation number a run begins at. Sets of events,
handlers and blocks are addresses that are used again after they are freed, so
that behaviours are not bounded by them. `MaxEvents` keeps a handler from being
deleted while its descriptor already has that many stale events in the queue.
`ForkAtStart` is FALSE in the passing runs: a fork while another thread is
starting the notifier thread leaves the child in a state of which the properties
do not hold (section 6).

### Fairness

- **TclAsync**: weak fairness of every thread and of the notifier thread.
  Handlers return, a thread with `asyncReady` set reaches a safe point, an
  alerted thread leaves its wait. Nobody is obliged to create, mark or exit.
- **TclNotify**: event loops go on, handlers return, locks are granted to a
  poster that owes an alert, a thread outside of every loop enters one. Strong
  fairness of service and of handlers, because other steps of the same thread
  may disable and enable them again. A wait without an alert may last for ever.
- **TclTimer**: the clock goes on, waits end at their deadline, callbacks return,
  other events do not keep a loop from its timers for ever.
- **TclPreserve**: holders release what they hold.
- **TclSelectNotfy**: the notifier thread and threads inside the notifier are
  scheduled. Strong fairness of a select that succeeds (signals do not interrupt
  every one) and of getting `notifierInitMutex`. Nothing obliges a thread to wait
  again, to exit or to fork, nor a descriptor to become ready.

- **TclChanOutput**: weak fairness of `ServedEvent` only, a writable event at
  which the driver takes at least one byte of what is queued, or reports an
  error. The comment at tclIO.c:2957 relies on the same: the background flush
  goes on from one writable event to the next. Nobody is obliged to write, flush
  or close.
- **TclReflect** states fairness for `WaiterAnswered`, which no run checks (section
  6, tclIORChan.c:2815).
- **TclMutex** has none: nothing obliges a thread to unlock.

Liveness properties with a way out say so: QueuedEventServed allows an endless
stream of events queued ahead, EventuallyFreed allows a block to be preserved
again and again, WaiterServed allows other threads to return again and again.

## 4. Theorems

Proved with TLAPS for all values of the constants.

**TclAsync_proofs** (MarksAreNotLost, OwnersAreAlive, InvokeDoesNotNest,
WakeupsAreNotLost, NoMarkIsLeftBehind), from `AsyncConstants`: the notifier thread
and NULL differ from threads and handlers. The invariant `IInv` conjoins:

- `TypeOK`: handlers on the list are allocated, each once;
- `Owned` and `ListedOwnersAlive`: a listed handler has an owner, which has not
  exited;
- `Locks`: who holds `asyncMutex` or `listLock` and what is then set, in
  particular that `alertee` is set exactly while the holder is about to alert;
- `NoLostMark`: an accepted mark is recorded in `asyncReady`, will be seen by an
  active invocation, or waits for a pass of the notifier thread that is due;
- `Active`: `asyncActive` holds exactly while a handler runs, and excludes
  `asyncReady`;
- `Wakeup`: the strengthening of NoLostWakeup to the window between the unlocked
  read of `asyncReady` and the wait. A thread in that window with `asyncReady`
  set has an alert raised or owed;
- `Passed`: a handler that the pass of the notifier thread has left behind is
  marked again only with `asyncPending` set, for the next pass.

NoLostWakeup is not inductive without `Wakeup`: the step into the wait must know
that the alert preceded it. NoLostMark needs `Passed`, since signals arrive during
a pass too. Each disjunct of Next has its own step in `NextIInv`.
NoMarkIsLeftBehind adds `Joined`: from the `q` to the end of the notifier thread,
and after it while `asyncPending` is set, a thread is in the join, which performs
what is outstanding.

**TclNotify_proofs** (PointersFollowQueue, ServedInOrder, CountsAddUp,
HandlersNest, LoopsRestoreMode, EventsLeftAreCounted, NoLostWakeUp), from
`NotifyConstants`, for any number of threads, posters, events and types and any
nesting of loops. The argument has three layers.

- *Steps.* `StepKinds` says what the actions do in eleven ways (an event is
  queued, deleted, dispatched, handled, deferred to the next one or to none, a
  loop is called, returns or moves on, a thread is finalised, or no queue and no
  loop is touched). One lemma per action shows that there are no others, and
  every invariant is then preserved by kinds, not by actions.
- *Queues.* `QueueInv` is inductive. It joins QueueShape and DeliveryOrder with
  `QueuesApart` (an event is queued in one thread only: without it the removal of
  an event in one thread could leave the order of another without a subject),
  `MarkDivides` (nothing up to the marker was queued at the tail, nothing behind
  it at the mark: what makes the place after the marker the right one),
  `ArrivalIsOrder`, `FramesNest` (only the innermost loop of a thread is at a
  stage of its own) and `LifeCycle`.
- *Loops.* `HandlersOwnEvents` says that the events without a proc are those of
  the running handlers, one each. On it rest HandlersNotReentered, CountBalanced
  and `LeftIsCounted`: what a thread has left to service is `eventCount` plus what
  the loops around it left behind, a running total that never falls below zero.
  That is the fact PostedEventWakes needs: if a poster finds `eventCount` above
  zero, the thread has not waited since an event it has not serviced was queued.

`SetAside` is a fold over the stack, and induction is not available for it; that
its sum changes by what the innermost frame changes is shown with a least
counterexample (`LeastElement`). LoopsRestoreMode assumes `Modes = {}`:
application code that sets the service mode in a loop changes what that loop
restores, as the documentation has it. NoLostWakeUp assumes that every loop
accepts all types (`Flags` has only the empty set, which stands for all, and the
set of all): a loop that leaves a type out may wait with such events in the queue,
by design. Both are the instances the runs check.

**TclTimer_proofs** (TimerInvariance, PendingExact, NeverOversleeps,
PassesAreComplete, PassesSkipNew, ScriptsArePending), from `TimerConstants`, for
any number of timers, idle handlers and scripts, any delays, and any nesting of
loops and passes. The inductive invariant `TimerInv` joins `TypeOK` and
PendingIsQueued with

- `TimersNumbered` and `TimersOrdered`: creation numbers differ and do not exceed
  the count; the list is in the order of expiry and, for equal times, of creation.
  The first timer alone then decides both how long to wait and whether a pass
  goes on;
- `PassesNest`: a pass belongs to the loop below it, a loop to the callback below
  it;
- `PassesSee`: the time and the number a pass has kept are not ahead of the clock
  and the count, and a timer created since expires no earlier than that time.
  Hence an expired timer that is newer than the pass has no older one behind it
  that has expired, which is the argument of the comment at tclTimer.c:555;
- `IdleListed` and `IdlePassesSee`: the same for idle handlers, with generations.

PendingExact and NeverOversleeps follow without assumptions. The others compare C
ints and assume what makes these comparisons mean anything:

- `NoWrap` (PassesAreComplete, PassesSkipNew): the creation count stays below the
  largest int. The code counts in an int and tells newer from older by the sign
  of a difference that does not wrap with it (tclTimer.c:583). Of a program that
  creates more timers neither theorem is true (section 6);
- `NumbersDiffer` (ScriptsArePending): a run creates at most half as many timers
  as there are ints. Tokens are only compared for equality here, and `FirstId` is
  any number, so that the count may wrap within the run;
- `GenerationsDiffer` (PassesSkipNew): the same for idle handlers. Generations
  count passes, not handlers; `GenerationsCounted` shows that there are no more of
  the former, since every pass but the one that begins has run a handler;
- `NoNullToken` (ScriptsArePending): no timer gets the number zero, which is the
  token of an idle script (section 6, tclTimer.c:309).

ScriptsArePending has two more parts: `AfterPairs`, that listed scripts and
pending callbacks correspond one to one and the token says in which list to
search, and `RunningApart`, that a running script is off the list, still allocated
and in one frame only. Without the latter, the AfterInfo that AfterProc frees when
its script returns might have been listed again.

**TclPreserve_proofs** (ArrayIsExact, FreedOnce, FreedOnlyUnused,
HandlesAreExact), from `PreserveConstants`, with finitely many holders. Here the
checked invariants together are inductive: `IInv == TypeOK /\ ArrayExact /\
FreedOnceUnused /\ HandleExact`. The argument: counts in the array are
cardinalities of sets of users, so taking or dropping one user changes a count
by one (`TakeUser`, `DropUser`). Copying the last slot over a removed one keeps
the other slots, each once (`WithoutSlotProperties`). A block is doomed only
while it has users, so the release that drops the last user is the one that
frees. FreedOnlyUnused is an action property and follows from the same
invariant step by step.

**TclSelectNotfy_proofs** (FileHandlersCorrect, WaitersServed), from
`SelectConstants`, for any number of threads and descriptors. FileHandlersExact
holds without further assumptions, by `HandlerInv`: `checkMasks` has exactly the
bits the handlers want, `numFdBits` is above each of them, and a handler whose
`readyMask` is set has its event in the queue. What concerns the notifier thread
assumes `~ForkAtStart` (section 6). Its `IInv` joins NoWaiterDropped and
SelectIsCurrent, as the run has them, with

- `Phases`: the life of the notifier thread as `notifierInitMutex` orders it. One
  thread at a time starts it or stops it; while it is being stopped every other
  thread is outside of the notifier; and a thread that waits has
  `notifierThreadRunning` set. WaitersHaveNotifier follows from it;
- `BufferRead`: `buf[0]` is read only after a byte has been read into it, because
  the first `select` cannot end before there is one.

**TclMutex_proofs** (Refinement, NotifyMissesNobody, CountIsExact,
AssertionsHold), from `MutexConstants`, for any number of threads and any depth.
The invariant `IInv` conjoins `TypeOK` with

- `PtrInv`: there is one structure at a time, which every thread that uses the
  mutex has found, and `globalLock` is held exactly between the double check and
  the assignment;
- `FreshInv`: a structure is initialised before it is published;
- `OwnerInv`: the field `thread` names whoever holds the pthread mutex and has
  finished locking. A thread that is named reads its own name, and one that is
  not named cannot read it, because nobody else ever writes that name: this is
  why the comparison without the lock is safe;
- `LevelInv`: where the levels of a program are counted, before, during and after
  a condition wait;
- `CondInv`: whoever holds the mutex while another thread sleeps has locked it
  since, and so sees that the condition variable exists.

Each step of TclMutex is then a step of ReentrantLock or leaves its variables
alone. CountIsExact and AssertionsHold state what the code relies on: the counter
is exact outside the procedures, and its assertions hold.

**TclChanOutput_proofs** (OutputIsExact, BackgroundFlushIsWatched,
OnlyBlockingStrandsOutput, BlockingFlushes, ClosedSideIsLeftAlone), from
`OutputConstants`, for any number of interpreters, size of a buffer and amount
of output: all the safety properties of the run. `IInv` adds `FlagsInv` to the
two invariants of the run: a channel is flushed in the background only if it is
nonblocking or the driver has refused (`refused`), only an unused one is closed,
a closed side has no output left, and a closed channel without a background
flush stays open only in nonblocking mode. BlockingFlushes accordingly says that
a flush that succeeds in blocking mode has written everything, unless the driver
would have blocked since the channel was made blocking. All output moves in
FlushChannel, so the argument is made once: FlushKeepsOrder for the bytes (a
driver that takes a prefix of the queue leaves the rest behind what it has),
FlushSettles for the flags, and FlushKeeps for both. NextStep then has one step
per operation.

**TclReflect_proofs** (WaitersHaveEvents, CallersAreQuiescent, PostsArrive,
Refinement), from `ReflectConstants` alone, for any number of owners, handlers,
interpreters and channels, whichever interpreters are deleted and whichever
threads exit. Once `ForwardProc` has used freed memory nothing is known, so
`freedUse \/ IInv` is what is inductive. `IInv` conjoins `TypeOK` with

- `CallInv`: what the record of a caller says of its operation; in particular an
  answer is never without a code, and "ok" only after the method has run;
- `EventInv`: an event that can set a result belongs to a caller that waits for
  just that, is in the thread of its channel, and is the only one of its caller
  there; queued ones have not run, those of frames have. While a thread serves,
  each call in its frames can set its result, or is `Cut`: its interpreter is
  gone and its caller does not wait unanswered on that channel;
- `WaitInv`: a caller without an answer has such an event, in a thread that will
  serve or cancel it, or it is `late` and the thread of its channel is gone;
- `DeadInv`: a channel that has left a map, or that its exiting thread has marked,
  is dead, or is a transformation about to be freed: nothing more is forwarded for
  it. This is what makes the test of `dead` and the cancellation sufficient
  together. Conversely a channel that is dead has left the map of its interpreter,
  or its thread is exiting;
- `PostInv`: a channel that is closed or about to be has left the map of its
  interpreter, or its thread is exiting and runs no script.

A call that is `Cut` returns to a caller that has gone on, which sets `freedUse`,
or to one that it cannot disturb (CutStep, CutKept).
There is one lemma per action. The two halves of a cancellation, the results
(CancelledCalls) and the events (CancelledEvents), are proved once for the three
actions that cancel. Forwarding is then a step of RemoteCall, and so are the start
of a method and the return to the caller; no other step is seen by the caller.

What the runs check beside these theorems are liveness properties
(MarkedHandlerRuns, QueuedEventServed, TimerFires, EventuallyFreed,
WaiterServed, FinalizeEnds, PendingCloseCompletes) and the deadlock of section
5. Liveness is out of reach of the prover.

## 5. Disagreements with runs

- **async_exit_deadlock.** `TclFinalizeNotifier` holds `listLock` while it waits
  for the notifier thread (tclNotify.c:194, tclSelectNotfy.c:415). A notifier
  thread with a pending signal mark wants `listLock` to alert the owner
  (tclAsync.c:271). Both wait for ever. The comment at tclSelectNotfy.c:978 says
  the thread "can be shut down if the Tcl library is finalized".

## 6. Disagreements seen while modelling

No run is kept for these; the properties above are stated so as to hold beside
them. Unless an item says otherwise, the models take the steps it describes.

- tclAsync.c:97: `TclFinalizeAsync` leaves its loop when the list becomes empty,
  before the handler just unlinked is chained for freeing. That handler is
  leaked.
- tclAsync.c:422: `Tcl_AsyncReady` "is 0 when no handlers are ready", but stays 1
  after the only marked handler is deleted.
- tclNotify.c:189: `TclFinalizeNotifier` does not reset `markerEventPtr`, and
  other threads may still post until it has `listLock`. A `TCL_QUEUE_MARK` event
  posted then is linked behind a freed one.
- tclNotify.c:604: when the last marked event goes, the marker falls back to its
  predecessor, which may be a `TCL_QUEUE_HEAD` event. The next marked event is
  then not put at the front, as doc/Notifier.3:341 has it.
- tclTimer.c:871: `after` carries into seconds only above 1000000 microseconds,
  the other two places at 1000000. A script at exactly a full second goes ahead
  of older timers of the same instant, against the comment at tclTimer.c:559.
- tclTimer.c:309: when the creation count wraps to zero a timer's token is NULL,
  which means an idle script to `after cancel` (tclTimer.c:45).
- tclTimer.c:583: creation numbers are C ints (308), whose overflow is undefined in
  C and wraps in the builds in use. The token is a pointer, and its difference to
  the number is taken in a `ptrdiff_t`. Where that is wider than an int, a timer
  that is pending when the count passes the largest int has a larger token than
  all later ones. Every pass takes it for newer than itself and stops there, also
  short of the timers behind it, until the count comes round again. The comments
  say of a handler that "proc will be invoked exactly once" (285), and that new
  handlers "will have a newer token than any of the ones currently on the list"
  (547). On 32-bit builds the difference wraps too, and the comparison is right.
  TimerFires fails in the instance of timer_idle_after with `IntRange` set to 8,
  `FirstId` to 2 and no idle handlers and scripts.
- tclUnixNotfy.c:370: `AlertSingleThread` clears the `nextPtr` the notifier thread
  walks the list by, so that a pass alerts one thread at most; since waiters
  enter at the front, a busy thread can keep those behind it from being alerted.
  This is why WaiterServed has its way out.
- tclSelectNotfy.c:1103: "Signals are unblocked only during select()", but
  nothing is ever put into `notifierSigMask` and `allSigMask` (205-208), so that
  no signal is blocked at any time. The joining thread sees to marks that come
  late (436).
- tclSelectNotfy.c:766: a poll that finds an old alert in `eventReady` returns
  without a select, although the comment at 727 says it blocks until then.
- tclUnixNotfy.c:423: a child forked while another thread is starting the notifier
  thread keeps the number of its parent's pipe and does not create its own.
- tclNotify.c:537: `TCL_QUEUE_ALERT_IF_EMPTY` compares `eventCount` with zero, but
  an event deferred because of the loop's flags stays counted while the thread
  waits. An event that the loop would serve is then posted without waking it,
  although tclIORChan.c:2920 says of such a call "Queue the event and poke the
  other thread's notifier." PostedEventWakes fails in TclNotify with `Flags` set
  to `{{}, {"file"}}` in the instance of notify_wakeup.
- tclIORChan.c:3327: `ForwardProc` uses `resultPtr` as read at its start, and the
  parameters of the caller, after the method. If the method deletes its
  interpreter, the `Tcl_Release` in `InvokeTclMethod` (2433; tclIORTrans.c:2018)
  has run the deletion by then, which cancels the result and lets the caller go
  on. The comment at 2983 says of the data that its thread is "currently blocked
  at (*), i.e., quiescent", and 2987 that "The only thing we cannot be sure of is
  the resultPtr." Closing also looks for the map of channels in the freed
  interpreter. `DataIsOurs` of TclReflect fails with a single channel.
- tclIORChan.c:2815: when a thread exits without deleting its interpreters, the
  results are cancelled before the channels are marked dead (2840). An operation
  forwarded in between has its event dropped with the queue, and its caller waits
  for ever. The comment at 2927 says "Block until the handler thread has either
  processed the transfer or rejected it", and 2862 that the liveness of the
  channel is checked under the lock "without interference from
  DeleteThreadReflectedChannelMap()", which marks without it; tclIORTrans.c:2285
  marks before it cancels. `WaiterAnswered` of TclReflect fails under `FairSpec`
  when a handler of a channel is in `Killed`.
- tclIORChan.c:3327: `ForwardProc` also sets the result but leaves `evPtr` of it
  set to an event that its caller frees, until the waiter runs; a cancellation
  in between (2642) writes to that event. The comment at 2634 counts on results
  that the receiver has detached. tclIORTrans.c has the same.
- tclIORTrans.c:926 and 939: when draining or flushing fails at the close of a
  transformation, its structure is freed but stays in the maps of the handler's
  side.
- Two threads that forward to each other wait for each other (assumed away:
  `Source` and `Handler` are disjoint).
- tclUnixThrd.c:619: `TclpFinalizeMutex` "assumes the Global Lock is held", but
  `Tcl_MutexFinalize` calls it without; the model assumes that nobody else uses
  the mutex.
- tclIO.c:1043: the deletion of the last interpreter that knows a channel,
  during a background flush, neither closes the channel nor sets
  `CHANNEL_CLOSED`, so that it stays open for good. The comment at 1037 says
  that the code emulates the behaviour of `Tcl_UnregisterChannel`, which sets
  the flag (1279), and doc/chan.n:77 that channels are closed when an
  interpreter is destroyed. `UnusedIsClosed` of TclChanOutput states that, and
  fails.
- tclIO.c:10553: making a channel blocking cancels its background flush, and
  making it nonblocking again does not start one. If less than a buffer is
  written then and the channel is closed, the queue is written, but the current
  buffer is left and the channel stays open, against doc/chan.n:60 and
  doc/OpenFileChnl.3:575. OnlyBlockingStrands has this step as its exception.
- tclIO.c:2829: a driver that would block makes FlushChannel start a background
  flush and return success, also in blocking mode. doc/OpenFileChnl.3:576 has it
  that in blocking mode "the call does not return until all the buffered data has
  been sent to the channel or some error occurred." `FlushWaitsForAll` of
  TclChanOutput states that, and fails.
- tclIO.c:2918: a driver that closes the channel while it is being asked to write
  (a reflected channel can) makes FlushChannel panic with "damaged channel list",
  where the comment means to allow for it. Drivers of the model do not call back.
- tclIO.c:1266: close handlers are not run when the last interpreter gives the
  channel up during a background flush, although doc/CrtCloseHdlr.3:31 promises
  it. Close handlers are not modelled.
- tclIO.h:289: `CHANNEL_CLOSEDWRITE` is said to mean "No further Tcl-level write
  IO", but writes are accepted while the flush that precedes a half-close is
  pending; and `Tcl_CloseEx` closes the side for every interpreter that shares
  the channel, while doc/chan.n speaks of the current interpreter only.
  doc/chan.n also says both that channels are made blocking at exit (77) and
  that they are not (91); the code has the latter.

## 7. Not modelled

- Of the modelled components: event sources as a list, the block time, and the
  hook table of `Tcl_SetNotifier`; the synchronous `after ms`; the identifiers
  `after#N`; the single-threaded, Cygwin and kqueue/epoll builds of the notifier;
  `TclUnixWaitForFile`; what the methods of reflected channels do with data, and
  channels that move to another thread; creation of threads, thread data and the
  Windows mutexes; input, encodings, stacking, background copies and close
  handlers of channels.
- Components with status `not_modelled` in PROJECT.json, each with its reason:
  sequential data structures and conversions (values, strings, encodings, clock,
  regular expressions), the bytecode engine (its state is the whole
  interpreter), system-call wrappers, generated tables, other platforms and
  vendored code.

## 8. Plan

In order of importance. Each step is a module, an instance and its properties,
then theorems where they are within reach.

1. *(done)* TclAsync, TclNotify, TclTimer, TclPreserve, TclSelectNotfy; TclReflect
   with RemoteCall; TclMutex with ReentrantLock; TclChanOutput. Proofs of
   their safety properties.
2. ThreadJoin (tclThreadJoin.c): several joiners of one exiting thread; record
   freed once. Small enough to be proved completely.
3. An abstract specification of alert and wait ("an alert after the last wait
   ends the next one") that TclSelectNotfy implements and that TclAsync, TclNotify
   and TclReflect assume.
4. ExitHandlers (tclEvent.c), ThreadAlloc (tclThreadAlloc.c).
5. The input side of channels, and background copies (tclIO.c), beside
   TclChanOutput.
6. ExprParse (tclCompExpr.c): the operator-precedence parser against a reference
   definition, with the fork's assignment, sequence and list operators.
7. Theorems: the same for each module as it is added.
