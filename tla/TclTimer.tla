------------------------------ MODULE TclTimer ------------------------------
(***************************************************************************)
(* Timer handlers, idle handlers and the "after" command of one thread,    *)
(* generic/tclTimer.c, with the event loop of tclNotify.c reduced to the   *)
(* calls it makes into that file.                                          *)
(*                                                                         *)
(* A time is a record of seconds and of USEC parts of a second; a timer is *)
(* known by the number born of its creation, whose C int is its token.     *)
(***************************************************************************)
EXTENDS Integers, Sequences, SequencesExt, FiniteSets, FiniteSetsExt

CONSTANTS
    USEC,        \* parts of a second: the 1000000 of the code
    Delays,      \* delays asked for, in parts of a second
    After,       \* the addresses of AfterInfo structures
    Plain,       \* clientData of the callbacks that are not "after" scripts
    FlagSets,    \* the flags Tcl_DoOneEvent is called with
    IntRange,    \* the number of values of a C int
    FirstId,     \* the number of timers created before
    MaxTimers,   \* bound on the timers created
    MaxIdle,     \* bound on the idle handlers created
    MaxSec,      \* bound on the clock
    MaxDepth,    \* bound on the nesting of event loops
    None         \* NULL

ASSUME TimerConstants ==
    /\ USEC \in Nat \ {0} /\ Delays \subseteq Nat
    /\ After \cap Plain = {} /\ None \notin After \cup Plain
    /\ FlagSets \subseteq SUBSET {"timer", "idle"}
    /\ IntRange \in {2 * k : k \in 1..IntRange}
    /\ {FirstId, MaxTimers, MaxIdle, MaxSec} \subseteq Nat
    /\ MaxDepth \in Nat \ {0}

VARIABLES
    now,              \* Tcl_GetTime
    timers,           \* the list at firstTimerHandlerPtr
    lastTimerId,      \* as a count that does not wrap
    timerPending,
    queued,           \* timer events in the event queue, not in service
    idleList,
    lastIdlePtr,      \* the born number of the last idle handler, or 0
    idleGeneration,
    idleBorn,         \* history: the number of idle handlers created
    afters,           \* the list at firstAfterPtr
    afterToken,       \* the token of each AfterInfo; 0 is NULL
    alloc,            \* the allocated AfterInfo structures
    interp,           \* "alive" or "deleted"
    exited,           \* TimerExitProc has run
    stack             \* active event loops and passes, innermost last

timerVars == <<timers, lastTimerId, timerPending, queued>>
idleVars  == <<idleList, lastIdlePtr, idleGeneration, idleBorn>>
afterVars == <<afters, afterToken, alloc, interp>>
vars == <<now, timerVars, idleVars, afterVars, exited, stack>>

Data == After \cup Plain
Never == -1

Init ==
    /\ now = [sec |-> 0, usec |-> 0]
    /\ timers = <<>> /\ lastTimerId = FirstId
    /\ timerPending = FALSE /\ queued = 0
    /\ idleList = <<>> /\ lastIdlePtr = 0 /\ idleGeneration = 0 /\ idleBorn = 0
    /\ afters = <<>> /\ afterToken = [a \in After |-> 0] /\ alloc = {}
    /\ interp = "alive" /\ exited = FALSE /\ stack = <<>>

Top == Last(stack)
SetTop(f) == stack' = Append(Front(stack), f)

(* Application code runs: outside of every event loop, or in a callback.   *)
AtCode ==
    /\ ~exited
    /\ stack # <<>> => Top.kind # "loop" /\ Top.run # None

AtStage(s) == ~exited /\ stack # <<>> /\ Top.kind = "loop" /\ Top.at = s

Depth == Cardinality({i \in DOMAIN stack : stack[i].kind = "loop"})

------------------------------------------------------------------------------
(* Times and C integers.                                                   *)

(* TCL_TIME_BEFORE                                                         *)
TimeBefore(t1, t2) == t1.sec < t2.sec \/ (t1.sec = t2.sec /\ t1.usec < t2.usec)

(* The value of a C int that counted to n: the increment of the largest    *)
(* int, undefined in C, wraps in the builds of the compilers in use.       *)
CInt(n) == ((n + IntRange \div 2) % IntRange) - IntRange \div 2

(* The elements of s at the places in keep, in their order.                *)
Keep(s, keep) ==
    [j \in 1..Cardinality(keep) |->
        s[CHOOSE k \in keep : Cardinality({i \in keep : i <= k}) = j]]

Instant(t) == t.sec * USEC + t.usec

Later(ms) == [sec |-> now.sec + (ms \div USEC), usec |-> now.usec + (ms % USEC)]
Carry(t) == [sec |-> t.sec + 1, usec |-> t.usec - USEC]

(* Mutant: the second is not borrowed.                                     *)
BlockTimeNoBorrow(t) ==
    LET borrow == t.usec < now.usec
        sec == t.sec - now.sec
        usec == t.usec - now.usec + IF borrow THEN USEC ELSE 0
    IN  IF sec < 0 THEN [sec |-> 0, usec |-> 0] ELSE [sec |-> sec, usec |-> usec]

(* The time from now to t, or zero.                                        *)
BlockTime(t) ==
    LET borrow == t.usec < now.usec
        sec == t.sec - now.sec - IF borrow THEN 1 ELSE 0
        usec == t.usec - now.usec + IF borrow THEN USEC ELSE 0
    IN  IF sec < 0 THEN [sec |-> 0, usec |-> 0] ELSE [sec |-> sec, usec |-> usec]

Tick ==
    /\ now.sec < MaxSec
    /\ now' = IF now.usec + 1 = USEC THEN [sec |-> now.sec + 1, usec |-> 0]
              ELSE [now EXCEPT !.usec = @ + 1]
    /\ UNCHANGED <<timerVars, idleVars, afterVars, exited, stack>>

------------------------------------------------------------------------------
(* Creating and deleting timers.                                           *)

(* Mutant: a timer goes ahead of those with the same time.                 *)
InsertedAhead(t) ==
    LET at == Min({i \in DOMAIN timers : ~TimeBefore(timers[i].time, t.time)}
                  \cup {Len(timers) + 1})
    IN  InsertAt(timers, at, t)

(* Behind the timers that expire no later.                                 *)
Inserted(t) ==
    LET at == Min({i \in DOMAIN timers : TimeBefore(t.time, timers[i].time)}
                  \cup {Len(timers) + 1})
    IN  InsertAt(timers, at, t)

TclCreateAbsoluteTimerHandler(time, data) ==
    /\ lastTimerId < FirstId + MaxTimers
    /\ lastTimerId' = lastTimerId + 1
    /\ timers' = Inserted([time |-> time, born |-> lastTimerId + 1,
                           data |-> data])
    /\ UNCHANGED <<timerPending, queued>>

Tcl_CreateTimerHandler(ms, data) ==
    /\ AtCode
    /\ LET t == Later(ms) IN
       TclCreateAbsoluteTimerHandler(IF t.usec >= USEC THEN Carry(t) ELSE t, data)
    /\ UNCHANGED <<now, idleVars, afterVars, exited, stack>>

(* The list without the first timer of that token; NULL deletes nothing.   *)
WithoutToken(token) ==
    LET at == {i \in DOMAIN timers : CInt(timers[i].born) = token} IN
    IF token = 0 \/ at = {} THEN timers
    ELSE Keep(timers, DOMAIN timers \ {Min(at)})

Tcl_DeleteTimerHandler(i) ==
    /\ AtCode /\ timers[i].data \in Plain
    /\ timers' = WithoutToken(CInt(timers[i].born))
    /\ UNCHANGED <<now, lastTimerId, timerPending, queued, idleVars, afterVars,
                   exited, stack>>

TimerExitProc ==
    /\ AtCode
    /\ timers' = <<>> /\ exited' = TRUE
    /\ UNCHANGED <<now, lastTimerId, timerPending, queued, idleVars, afterVars,
                   stack>>

------------------------------------------------------------------------------
(* Creating and cancelling idle handlers.                                  *)

(* Append after lastIdlePtr; with none, the handler becomes the list.      *)
Tcl_DoWhenIdle(data) ==
    /\ idleBorn < MaxIdle
    /\ LET h == [data |-> data, generation |-> idleGeneration,
                 born |-> idleBorn + 1]
           last == {i \in DOMAIN idleList : idleList[i].born = lastIdlePtr}
       IN  idleList' = IF lastIdlePtr = 0 THEN <<h>>
                       ELSE Append(SubSeq(idleList, 1, Max(last)), h)
    /\ lastIdlePtr' = idleBorn + 1
    /\ idleBorn' = idleBorn + 1
    /\ UNCHANGED idleGeneration

DoWhenIdle(data) ==
    /\ AtCode /\ Tcl_DoWhenIdle(data)
    /\ UNCHANGED <<now, timerVars, afterVars, exited, stack>>

(* The handlers with clientData in S go.                                   *)
Tcl_CancelIdleCall(S) ==
    LET rest == Keep(idleList,
                     {i \in DOMAIN idleList : idleList[i].data \notin S}) IN
    /\ idleList' = rest
    /\ lastIdlePtr' = IF idleList # <<>> /\ Last(idleList).data \in S
                      THEN IF rest = <<>> THEN 0 ELSE Last(rest).born
                      ELSE lastIdlePtr
    /\ UNCHANGED <<idleGeneration, idleBorn>>

CancelIdleCall(data) ==
    /\ AtCode /\ Tcl_CancelIdleCall({data})
    /\ UNCHANGED <<now, timerVars, afterVars, exited, stack>>

------------------------------------------------------------------------------
(* The "after" command.                                                    *)

Unlisted(a) == Keep(afters, {i \in DOMAIN afters : afters[i] # a})

AfterNew(a, token) ==
    /\ AtCode /\ interp = "alive" /\ a \notin alloc
    /\ alloc' = alloc \cup {a}
    /\ afters' = <<a>> \o afters
    /\ afterToken' = [afterToken EXCEPT ![a] = token]
    /\ UNCHANGED interp

(* after ms script: a sum of exactly one second is not carried.            *)
AfterTimer(a, ms) ==
    /\ AfterNew(a, CInt(lastTimerId + 1))
    /\ LET t == Later(ms) IN
       TclCreateAbsoluteTimerHandler(IF t.usec > USEC THEN Carry(t) ELSE t, a)
    /\ UNCHANGED <<now, idleVars, exited, stack>>

AfterIdle(a) ==
    /\ AfterNew(a, 0)
    /\ Tcl_DoWhenIdle(a)
    /\ UNCHANGED <<now, timerVars, exited, stack>>

(* Mutant: after cancel of an idle script leaves its idle handler.         *)
AfterCancelTimerOnly(a) ==
    /\ AtCode /\ interp = "alive" /\ a \in ToSet(afters)
    /\ timers' = WithoutToken(afterToken[a])
    /\ afters' = Unlisted(a)
    /\ alloc' = alloc \ {a}
    /\ UNCHANGED <<now, lastTimerId, timerPending, queued, idleVars, afterToken,
                   interp, exited, stack>>

(* after cancel: the token decides which of the two lists is searched.     *)
AfterCancel(a) ==
    /\ AtCode /\ interp = "alive" /\ a \in ToSet(afters)
    /\ IF afterToken[a] # 0
       THEN timers' = WithoutToken(afterToken[a]) /\ UNCHANGED idleVars
       ELSE Tcl_CancelIdleCall({a}) /\ UNCHANGED timers
    /\ afters' = Unlisted(a)
    /\ alloc' = alloc \ {a}
    /\ UNCHANGED <<now, lastTimerId, timerPending, queued, afterToken, interp,
                   exited, stack>>

(* The interpreter is deleted.                                             *)
AfterCleanupProc ==
    /\ interp = "alive" /\ (AtCode \/ exited)
    /\ LET tokens == {afterToken[a] : a \in ToSet(afters)} \ {0} IN
       timers' = Keep(timers,
                      {i \in DOMAIN timers : CInt(timers[i].born) \notin tokens})
    /\ Tcl_CancelIdleCall({a \in ToSet(afters) : afterToken[a] = 0})
    /\ afters' = <<>> /\ alloc' = alloc \ ToSet(afters)
    /\ interp' = "deleted"
    /\ UNCHANGED <<now, lastTimerId, timerPending, queued, afterToken, exited,
                   stack>>

(* AfterProc first takes its AfterInfo off the list, and frees it last.    *)
Start(data) ==
    /\ afters' = IF data \in After THEN Unlisted(data) ELSE afters
    /\ UNCHANGED <<afterToken, alloc, interp>>

CallbackReturns ==
    /\ AtCode /\ stack # <<>>
    /\ alloc' = alloc \ {Top.run}
    /\ SetTop([Top EXCEPT !.run = None])
    /\ UNCHANGED <<now, timerVars, idleVars, afters, afterToken, interp, exited>>

------------------------------------------------------------------------------
(* The event loop.                                                         *)

(* TimerSetupProc and the wait: until when Tcl_WaitForEvent may wait.      *)
Deadline(flags) ==
    IF \/ "idle" \in flags /\ idleList # <<>>
       \/ "timer" \in flags /\ timerPending
    THEN Instant(now)
    ELSE IF "timer" \in flags /\ timers # <<>>
         THEN Instant(now) + Instant(BlockTime(timers[1].time))
         ELSE Never

Tcl_DoOneEvent(flags) ==
    /\ AtCode /\ Depth < MaxDepth
    /\ stack' = Append(stack, [kind |-> "loop", at |-> "svc1", flags |-> flags,
                               deadline |-> Never])
    /\ UNCHANGED <<now, timerVars, idleVars, afterVars, exited>>

Wait ==
    /\ AtStage("svc1") /\ ~("timer" \in Top.flags /\ queued > 0)
    /\ SetTop([Top EXCEPT !.at = "wait", !.deadline = Deadline(Top.flags)])
    /\ UNCHANGED <<now, timerVars, idleVars, afterVars, exited>>

(* Mutant: a second event is queued while one is pending.                  *)
TimerCheckAlways(flags) ==
    /\ IF /\ "timer" \in flags /\ timers # <<>>
          /\ Instant(BlockTime(timers[1].time)) = 0
       THEN timerPending' = TRUE /\ queued' = queued + 1
       ELSE UNCHANGED <<timerPending, queued>>
    /\ UNCHANGED <<timers, lastTimerId>>

TimerCheckProc(flags) ==
    /\ IF /\ "timer" \in flags /\ timers # <<>> /\ ~timerPending
          /\ Instant(BlockTime(timers[1].time)) = 0
       THEN timerPending' = TRUE /\ queued' = queued + 1
       ELSE UNCHANGED <<timerPending, queued>>
    /\ UNCHANGED <<timers, lastTimerId>>

(* A platform callback has the sources checked and then served; it does    *)
(* nothing inside of an event loop.                                        *)
Tcl_ServiceAll ==
    /\ AtCode /\ stack = <<>>
    /\ TimerCheckProc({"timer", "idle"})
    /\ stack' = <<[kind |-> "loop", at |-> "svc2", flags |-> {"timer", "idle"},
                   deadline |-> Never]>>
    /\ UNCHANGED <<now, idleVars, afterVars, exited>>

(* The wait ends at its deadline, or earlier, for another event source.    *)
WaitEnds ==
    /\ AtStage("wait")
    /\ TimerCheckProc(Top.flags)
    /\ SetTop([Top EXCEPT !.at = "svc2", !.deadline = Never])
    /\ UNCHANGED <<now, idleVars, afterVars, exited>>

(* Mutant: timerPending is not reset.                                      *)
TimerPassStaysPending ==
    /\ AtStage("svc1") \/ AtStage("svc2")
    /\ "timer" \in Top.flags /\ queued > 0
    /\ queued' = queued - 1
    /\ stack' = Append(stack, [kind |-> "timer", current |-> lastTimerId,
                               time |-> now, run |-> None])
    /\ UNCHANGED <<now, timers, lastTimerId, timerPending, idleVars, afterVars,
                   exited>>

(* TimerHandlerEventProc: a pass over the timers that have expired.        *)
TimerPass ==
    /\ AtStage("svc1") \/ AtStage("svc2")
    /\ "timer" \in Top.flags /\ queued > 0
    /\ queued' = queued - 1 /\ timerPending' = FALSE
    /\ stack' = Append(stack, [kind |-> "timer", current |-> lastTimerId,
                               time |-> now, run |-> None])
    /\ UNCHANGED <<now, timers, lastTimerId, idleVars, afterVars, exited>>

(* PTR2INT makes the token a ptrdiff_t, wider than an int where pointers   *)
(* are: the difference of the two ints does not wrap.                      *)
NewerThan(t, current) == CInt(current) - CInt(t.born) < 0

Runnable(f) ==
    /\ timers # <<>>
    /\ ~TimeBefore(f.time, timers[1].time)
    /\ ~NewerThan(timers[1], f.current)

InTimerPass == ~exited /\ stack # <<>> /\ Top.kind = "timer" /\ Top.run = None

RunTimer ==
    /\ InTimerPass /\ Runnable(Top)
    /\ timers' = Tail(timers)
    /\ SetTop([Top EXCEPT !.run = timers[1].data])
    /\ Start(timers[1].data)
    /\ UNCHANGED <<now, lastTimerId, timerPending, queued, idleVars, exited>>

(* The pass ends, the event is freed and Tcl_DoOneEvent returns.           *)
TimerPassEnds ==
    /\ InTimerPass /\ ~Runnable(Top)
    /\ stack' = SubSeq(stack, 1, Len(stack) - 2)
    /\ UNCHANGED <<now, timerVars, idleVars, afterVars, exited>>

(* An event of another source was ahead in the queue.                      *)
ServiceOther ==
    /\ AtStage("svc1") \/ AtStage("svc2")
    /\ stack' = Front(stack)
    /\ UNCHANGED <<now, timerVars, idleVars, afterVars, exited>>

NothingQueued ==
    /\ AtStage("svc2") /\ ~("timer" \in Top.flags /\ queued > 0)
    /\ SetTop([Top EXCEPT !.at = "idle"])
    /\ UNCHANGED <<now, timerVars, idleVars, afterVars, exited>>

HasIdle == "idle" \in Top.flags /\ idleList # <<>>

(* Mutant: the generation is not advanced.                                 *)
ServiceIdleSameGeneration ==
    /\ AtStage("idle") /\ HasIdle
    /\ stack' = Append(stack, [kind |-> "idle", old |-> idleGeneration,
                               start |-> idleBorn, run |-> None])
    /\ UNCHANGED <<now, timerVars, idleVars, afterVars, exited>>

TclServiceIdle ==
    /\ AtStage("idle") /\ HasIdle
    /\ idleGeneration' = idleGeneration + 1
    /\ stack' = Append(stack, [kind |-> "idle", old |-> idleGeneration,
                               start |-> idleBorn, run |-> None])
    /\ UNCHANGED <<now, timerVars, idleList, lastIdlePtr, idleBorn, afterVars,
                   exited>>

InIdlePass == ~exited /\ stack # <<>> /\ Top.kind = "idle" /\ Top.run = None
OldEnough == idleList # <<>> /\ CInt(Top.old - idleList[1].generation) >= 0

RunIdle ==
    /\ InIdlePass /\ OldEnough
    /\ idleList' = Tail(idleList)
    /\ lastIdlePtr' = IF Len(idleList) = 1 THEN 0 ELSE lastIdlePtr
    /\ SetTop([Top EXCEPT !.run = idleList[1].data])
    /\ Start(idleList[1].data)
    /\ UNCHANGED <<now, timerVars, idleGeneration, idleBorn, exited>>

IdlePassEnds ==
    /\ InIdlePass /\ ~OldEnough
    /\ stack' = SubSeq(stack, 1, Len(stack) - 2)
    /\ UNCHANGED <<now, timerVars, idleVars, afterVars, exited>>

(* Without idle handlers Tcl_DoOneEvent returns, or its caller's next call *)
(* is the next round of its loop.                                          *)
LoopEnds ==
    /\ AtStage("idle") /\ ~HasIdle
    /\ stack' = Front(stack)
    /\ UNCHANGED <<now, timerVars, idleVars, afterVars, exited>>

------------------------------------------------------------------------------
Application ==
    \/ \E ms \in Delays, d \in Plain : Tcl_CreateTimerHandler(ms, d)
    \/ \E i \in DOMAIN timers : Tcl_DeleteTimerHandler(i)
    \/ \E d \in Plain : DoWhenIdle(d) \/ CancelIdleCall(d)
    \/ \E a \in After, ms \in Delays : AfterTimer(a, ms)
    \/ \E a \in After : AfterIdle(a) \/ AfterCancel(a)
    \/ AfterCleanupProc \/ TimerExitProc

Enter == \E flags \in FlagSets : Tcl_DoOneEvent(flags)

LoopStep ==
    \/ Wait \/ TimerPass \/ RunTimer \/ TimerPassEnds
    \/ NothingQueued \/ TclServiceIdle \/ RunIdle \/ IdlePassEnds \/ LoopEnds

Next ==
    \/ Tick \/ Application \/ Enter \/ Tcl_ServiceAll
    \/ LoopStep \/ ServiceOther \/ WaitEnds \/ CallbackReturns

Spec == Init /\ [][Next]_vars

(***************************************************************************)
(* Fairness: the clock goes on, an event loop that can go on does, events  *)
(* of other sources do not keep it from its timers and from waiting for    *)
(* ever, waits end at their deadline, callbacks return, and application    *)
(* code outside every event loop enters one.                               *)
(***************************************************************************)
Overdue ==
    AtStage("wait") /\ Top.deadline # Never /\ Instant(now) >= Top.deadline

Fairness ==
    /\ WF_vars(Tick) /\ WF_vars(LoopStep) /\ WF_vars(Overdue /\ WaitEnds)
    /\ SF_vars(TimerPass) /\ SF_vars(Wait)
    /\ \A depth \in 1..MaxDepth : SF_vars(Depth = depth /\ CallbackReturns)
    /\ SF_vars(stack = <<>> /\ Enter)

FairSpec == Spec /\ Fairness

------------------------------------------------------------------------------
(* Properties.                                                             *)

Time == [sec : Nat, usec : Nat]
Timer == [time : Time, born : Nat, data : Data]
Idle == [data : Data, generation : Nat, born : Nat]
Frame ==
    [kind : {"loop"}, at : {"svc1", "wait", "svc2", "idle"},
     flags : SUBSET {"timer", "idle"}, deadline : Int]
    \cup [kind : {"timer"}, current : Nat, time : Time, run : Data \cup {None}]
    \cup [kind : {"idle"}, old : Nat, start : Nat, run : Data \cup {None}]

(* Every variable stays in its type; the clock is normalised.              *)
TypeOK ==
    /\ now \in Time /\ now.usec < USEC
    /\ timers \in Seq(Timer) /\ lastTimerId \in Nat
    /\ timerPending \in BOOLEAN /\ queued \in Nat
    /\ idleList \in Seq(Idle)
    /\ {lastIdlePtr, idleGeneration, idleBorn} \subseteq Nat
    /\ afters \in Seq(After) /\ afterToken \in [After -> Int]
    /\ alloc \subseteq After
    /\ interp \in {"alive", "deleted"} /\ exited \in BOOLEAN
    /\ stack \in Seq(Frame)

(* timerPending is 1 exactly if a timer event is in the queue waiting for  *)
(* service, so that one is queued when needed, and never two, although     *)
(* nested loops defer it, serve it and check for another.                  *)
PendingIsQueued == queued = IF timerPending THEN 1 ELSE 0

(* A pass of TimerHandlerEventProc leaves no timer on the list that had    *)
(* expired when the pass began and existed then, whatever its callbacks    *)
(* created and deleted, as long as the creation count has not wrapped.     *)
PassServesExpired ==
    InTimerPass /\ ~Runnable(Top) =>
       \A i \in DOMAIN timers :
          timers[i].born <= Top.current => TimeBefore(Top.time, timers[i].time)

(* A pass runs no callback that was created after it began, neither a      *)
(* timer nor an idle handler, also with passes nested in its callbacks, as *)
(* long as the creation count has not wrapped.                             *)
PassSkipsNew ==
    [][/\ RunTimer => timers[1].born <= Top.current
       /\ RunIdle => idleList[1].born <= Top.start]_vars

(* An "after" script is listed exactly as long as its callback is pending: *)
(* no timer or idle handler points to a freed AfterInfo, AfterProc finds   *)
(* its AfterInfo on the list, and after info names no script that cannot   *)
(* run any more.                                                           *)
AfterListedIffPending ==
    ~exited =>
       LET pending(a) ==
              Cardinality({i \in DOMAIN timers : timers[i].data = a})
              + Cardinality({i \in DOMAIN idleList : idleList[i].data = a})
       IN  \A a \in After :
              /\ pending(a) = IF a \in ToSet(afters) THEN 1 ELSE 0
              /\ a \in ToSet(afters) => a \in alloc

(* A thread that serves timers and idle handlers never waits past the      *)
(* expiry of a timer, nor at all while an idle handler or a timer event is *)
(* pending.                                                                *)
NoOversleep ==
    \A i \in DOMAIN stack :
       stack[i].kind = "loop" /\ stack[i].at = "wait" =>
          /\ "timer" \in stack[i].flags =>
                /\ \A j \in DOMAIN timers :
                      /\ stack[i].deadline # Never
                      /\ stack[i].deadline <= Instant(timers[j].time)
                         \/ Instant(timers[j].time) <= Instant(now)
                /\ timerPending => stack[i].deadline \in 0..Instant(now)
          /\ "idle" \in stack[i].flags /\ idleList # <<>> =>
                stack[i].deadline \in 0..Instant(now)

(* An expired timer is run or deleted, in the outer or in a nested loop,   *)
(* as long as the creation count has not wrapped.                          *)
TimerFires ==
    \A n \in 1..MaxTimers :
       (\E i \in DOMAIN timers : /\ timers[i].born = FirstId + n
                                 /\ Instant(timers[i].time) <= Instant(now))
       ~> (exited \/ \A i \in DOMAIN timers : timers[i].born # FirstId + n)
=============================================================================
