----------------------------- MODULE TclNotify -----------------------------
(***************************************************************************)
(* The generic notifier, generic/tclNotify.c: the event queue of each      *)
(* thread, Tcl_ServiceEvent and the event loop around it, which may be     *)
(* re-entered from an event handler, and the posting of events and alerts  *)
(* by other threads.                                                       *)
(*                                                                         *)
(* queue[t] is the chain firstEventPtr -> nextPtr -> ...; lastEventPtr,    *)
(* markerEventPtr and eventCount are kept beside it and updated as the     *)
(* code updates them, so that a wrong update can corrupt the queue.        *)
(* A step is one critical section of queueMutex, or one stage of           *)
(* Tcl_DoOneEvent.                                                         *)
(***************************************************************************)
EXTENDS Integers, Sequences, SequencesExt, FiniteSets

CONSTANTS
    Thread,      \* threads with a notifier and an event loop
    Poster,      \* threads that post events to those
    Event,       \* the addresses of Tcl_Event structures
    Type,        \* the types of events: the bits of TCL_ALL_EVENTS
    TypeOf,      \* the type of each event
    Flags,       \* the flag arguments Tcl_DoOneEvent is called with
    Exiting,     \* the threads that may be finalised
    Positions,   \* the queue positions events are queued at
    Modes,       \* the modes application code gives Tcl_SetServiceMode
    MaxDepth,    \* bound on the nesting of event loops
    None         \* NULL

ASSUME NotifyConstants ==
    /\ None \notin Event \cup Thread \cup Poster \cup Type
    /\ TypeOf \in [Event -> Type]
    /\ Flags \subseteq SUBSET Type
    /\ Exiting \subseteq Thread
    /\ Positions \subseteq {"tail", "head", "mark"}
    /\ Modes \subseteq {"all", "none"}
    /\ MaxDepth \in Nat \ {0}

VARIABLES
    queue,           \* per thread: the event queue
    lastEventPtr,    \* per thread
    markerEventPtr,  \* per thread
    eventCount,      \* per thread; zeroed around a handler
    alloc,           \* the allocated events
    position,        \* the queue position each allocated event asked for
    inService,       \* the events whose proc field is NULL
    stack,           \* per thread: the active event loops, innermost last
    serviceMode,     \* per thread: TCL_SERVICE_ALL or TCL_SERVICE_NONE
    deleting,        \* per thread: the type a Tcl_DeleteEvents is removing
    eventReady,      \* per thread: the alert of the platform notifier
    registered,      \* the threads on the firstNotifierPtr list
    finalizing,      \* per thread: stage of TclFinalizeNotifier
    owes,            \* per poster: the thread it still has to alert
    listLock,        \* holder
    arrival          \* history: <<a, b>> of allocated events, a queued before b

queueVars == <<queue, lastEventPtr, markerEventPtr, eventCount, arrival>>
eventVars == <<alloc, position>>
listVars  == <<registered, finalizing, owes, listLock>>
vars == <<queueVars, eventVars, inService, stack, serviceMode, deleting,
          eventReady, listVars>>

(* One active Tcl_DoOneEvent or Tcl_ServiceAll: the stage it is in, the    *)
(* event whose handler it runs, the count set aside meanwhile.             *)
Frame == [at : {"svc1", "setup", "blocked", "check", "svc2", "idle",
                "allcheck", "all", "allidle"},
          flags : SUBSET Type, dontWait : BOOLEAN, oldMode : {"all", "none"},
          ev : Event \cup {None}, saved : Int]

Init ==
    /\ queue = [t \in Thread |-> <<>>] /\ arrival = {}
    /\ lastEventPtr = [t \in Thread |-> None]
    /\ markerEventPtr = [t \in Thread |-> None]
    /\ eventCount = [t \in Thread |-> 0]
    /\ alloc = {} /\ position = [e \in Event |-> "tail"] /\ inService = {}
    /\ stack = [t \in Thread |-> <<>>]
    /\ serviceMode = [t \in Thread |-> "all"]
    /\ deleting = [t \in Thread |-> None]
    /\ eventReady = [t \in Thread |-> FALSE]
    /\ registered = Thread /\ finalizing = [t \in Thread |-> "no"]
    /\ owes = [p \in Poster |-> None] /\ listLock = None

Top(t) == Last(stack[t])

(* The thread executes application code: no event loop is active, or the   *)
(* innermost one is inside an event handler or runs idle handlers.         *)
AtCode(t) ==
    /\ finalizing[t] = "no" /\ deleting[t] = None
    /\ stack[t] # <<>> => Top(t).ev # None \/ Top(t).at \in {"idle", "allidle"}

(* The innermost event loop of t is at stage s and runs no handler.        *)
AtStage(t, s) ==
    /\ finalizing[t] = "no" /\ deleting[t] = None
    /\ stack[t] # <<>> /\ Top(t).ev = None /\ Top(t).at = s

GoTo(t, s) ==
    stack' = [stack EXCEPT ![t] = [@ EXCEPT ![Len(@)].at = s]]

(* Tcl_DoOneEvent returns: the caller's service mode is restored.          *)
Return(t) ==
    /\ serviceMode' = [serviceMode EXCEPT ![t] = Top(t).oldMode]
    /\ stack' = [stack EXCEPT ![t] = Front(@)]

------------------------------------------------------------------------------
(* The queue.                                                              *)

(* TCL_QUEUE_TAIL: after lastEventPtr, whose nextPtr is overwritten.       *)
QueueTail(t, e) ==
    LET q == queue[t] IN
    /\ \/ q = <<>> /\ queue' = [queue EXCEPT ![t] = <<e>>]
       \/ \E i \in DOMAIN q :
             /\ q[i] = lastEventPtr[t]
             /\ queue' = [queue EXCEPT ![t] = Append(SubSeq(q, 1, i), e)]
    /\ lastEventPtr' = [lastEventPtr EXCEPT ![t] = e]
    /\ UNCHANGED markerEventPtr

QueueHead(t, e) ==
    /\ queue' = [queue EXCEPT ![t] = <<e>> \o @]
    /\ lastEventPtr' = IF queue[t] = <<>>
                       THEN [lastEventPtr EXCEPT ![t] = e] ELSE lastEventPtr
    /\ UNCHANGED markerEventPtr

(* Mutant: TCL_QUEUE_MARK that leaves the marker where it is.              *)
QueueMarkFixed(t, e) ==
    LET q == queue[t]
        here == {i \in DOMAIN q : q[i] = markerEventPtr[t]}
        at == IF here = {} THEN 0 ELSE CHOOSE i \in here : TRUE
    IN
    /\ queue' = [queue EXCEPT ![t] = InsertAt(q, at + 1, e)]
    /\ lastEventPtr' = IF at = Len(q) THEN [lastEventPtr EXCEPT ![t] = e]
                       ELSE lastEventPtr
    /\ markerEventPtr' = IF here = {} THEN [markerEventPtr EXCEPT ![t] = e]
                         ELSE markerEventPtr

(* TCL_QUEUE_MARK: after the marker, which moves to the new event.  A      *)
(* marker that is no longer in the queue takes the event out of reach.     *)
QueueMark(t, e) ==
    LET q == queue[t] IN
    /\ \/ /\ markerEventPtr[t] = None
          /\ queue' = [queue EXCEPT ![t] = <<e>> \o @]
          /\ lastEventPtr' = IF q = <<>>
                             THEN [lastEventPtr EXCEPT ![t] = e]
                             ELSE lastEventPtr
       \/ \E i \in DOMAIN q :
             /\ q[i] = markerEventPtr[t]
             /\ queue' = [queue EXCEPT ![t] = InsertAt(q, i + 1, e)]
             /\ lastEventPtr' = IF i = Len(q)
                                THEN [lastEventPtr EXCEPT ![t] = e]
                                ELSE lastEventPtr
       \/ /\ markerEventPtr[t] # None
          /\ \A i \in DOMAIN q : q[i] # markerEventPtr[t]
          /\ UNCHANGED queue
          /\ lastEventPtr' \in {lastEventPtr, [lastEventPtr EXCEPT ![t] = e]}
    /\ markerEventPtr' = [markerEventPtr EXCEPT ![t] = e]

QueueEvent(t, e, pos) ==
    /\ e \notin alloc /\ deleting[t] = None
    /\ alloc' = alloc \cup {e}
    /\ position' = [position EXCEPT ![e] = pos]
    /\ \/ pos = "tail" /\ QueueTail(t, e)
       \/ pos = "head" /\ QueueHead(t, e)
       \/ pos = "mark" /\ QueueMark(t, e)
    /\ eventCount' = [eventCount EXCEPT ![t] = @ + 1]
    /\ arrival' = arrival \cup (alloc \X {e})

(* Mutant: the marker is not moved off a freed event.                      *)
UnlinkStaleMarker(t, i) ==
    LET q == queue[t] IN
    /\ queue' = [queue EXCEPT ![t] = RemoveAt(q, i)]
    /\ lastEventPtr' = IF i = Len(q)
                       THEN [lastEventPtr EXCEPT ![t] =
                                IF i = 1 THEN None ELSE q[i - 1]]
                       ELSE lastEventPtr
    /\ alloc' = alloc \ {q[i]}
    /\ arrival' = arrival \cap (alloc' \X alloc')
    /\ position' = [position EXCEPT ![q[i]] = "tail"]
    /\ UNCHANGED markerEventPtr

(* Unlinking and freeing the i-th event, as Tcl_ServiceEvent and           *)
(* Tcl_DeleteEvents do.                                                    *)
Unlink(t, i) ==
    LET q == queue[t]
        prevPtr == IF i = 1 THEN None ELSE q[i - 1]
    IN
    /\ queue' = [queue EXCEPT ![t] = RemoveAt(q, i)]
    /\ lastEventPtr' = IF i = Len(q)
                       THEN [lastEventPtr EXCEPT ![t] = prevPtr]
                       ELSE lastEventPtr
    /\ markerEventPtr' = IF markerEventPtr[t] = q[i]
                         THEN [markerEventPtr EXCEPT ![t] = prevPtr]
                         ELSE markerEventPtr
    /\ alloc' = alloc \ {q[i]}
    /\ arrival' = arrival \cap (alloc' \X alloc')
    /\ position' = [position EXCEPT ![q[i]] = "tail"]

(* Tcl_QueueEvent, by application code of the thread itself.               *)
Tcl_QueueEvent(t, e, pos) ==
    /\ AtCode(t)
    /\ QueueEvent(t, e, pos)
    /\ UNCHANGED <<inService, stack, serviceMode, deleting, eventReady, listVars>>

(* Tcl_DeleteEvents, one iteration: the events its proc selects, here the  *)
(* ones of a type whose proc field is set, go one by one under queueMutex. *)
Selected(t, k, i) == TypeOf[queue[t][i]] = k /\ queue[t][i] \notin inService

Tcl_DeleteEvents(t, k, i) ==
    /\ AtCode(t) \/ deleting[t] = k
    /\ Selected(t, k, i) /\ \A j \in 1..(i-1) : ~Selected(t, k, j)
    /\ Unlink(t, i)
    /\ eventCount' = [eventCount EXCEPT ![t] = @ - 1]
    /\ deleting' = [deleting EXCEPT ![t] = k]
    /\ UNCHANGED <<inService, stack, serviceMode, eventReady, listVars>>

DeleteEventsDone(t) ==
    /\ deleting[t] # None
    /\ \A i \in DOMAIN queue[t] : ~Selected(t, deleting[t], i)
    /\ deleting' = [deleting EXCEPT ![t] = None]
    /\ UNCHANGED <<queueVars, eventVars, inService, stack, serviceMode,
                   eventReady, listVars>>

------------------------------------------------------------------------------
(* Posting from other threads.                                             *)

(* Mutant: the empty test comes after the count was raised.                *)
PostAlertTestedLate(p, t, e, pos) ==
    /\ owes[p] = None /\ listLock = None
    /\ t \in registered
    /\ QueueEvent(t, e, pos)
    /\ IF eventCount'[t] <= 0
       THEN owes' = [owes EXCEPT ![p] = t] /\ listLock' = p
       ELSE UNCHANGED <<owes, listLock>>
    /\ UNCHANGED <<inService, stack, serviceMode, deleting, eventReady,
                   registered, finalizing>>

(* Tcl_ThreadQueueEvent with TCL_QUEUE_ALERT_IF_EMPTY: listLock is kept    *)
(* until the alert, if the queue counted as empty, is given.               *)
PostAlertIfEmpty(p, t, e, pos) ==
    /\ owes[p] = None /\ listLock = None
    /\ t \in registered
    /\ QueueEvent(t, e, pos)
    /\ IF eventCount[t] <= 0
       THEN owes' = [owes EXCEPT ![p] = t] /\ listLock' = p
       ELSE UNCHANGED <<owes, listLock>>
    /\ UNCHANGED <<inService, stack, serviceMode, deleting, eventReady,
                   registered, finalizing>>

(* Tcl_ThreadQueueEvent without it; the caller then calls Tcl_ThreadAlert. *)
Post(p, t, e, pos) ==
    /\ owes[p] = None /\ listLock = None
    /\ t \in registered
    /\ QueueEvent(t, e, pos)
    /\ owes' = [owes EXCEPT ![p] = t]
    /\ UNCHANGED <<inService, stack, serviceMode, deleting, eventReady,
                   registered, finalizing, listLock>>

(* Tcl_AlertNotifier, or Tcl_ThreadAlert, which looks the thread up again. *)
Tcl_ThreadAlert(p) ==
    /\ owes[p] # None /\ listLock \in {None, p}
    /\ eventReady' = IF owes[p] \in registered
                     THEN [eventReady EXCEPT ![owes[p]] = TRUE]
                     ELSE eventReady
    /\ owes' = [owes EXCEPT ![p] = None]
    /\ listLock' = None
    /\ UNCHANGED <<queueVars, eventVars, inService, stack, serviceMode,
                   deleting, registered, finalizing>>

------------------------------------------------------------------------------
(* Tcl_ServiceEvent, called by the innermost event loop.                   *)

(* Mutant: a NULL proc is not looked for.                                  *)
ServiceableAlways(t, i) == i \in DOMAIN queue[t]

Serviceable(t, i) == queue[t][i] \notin inService

(* Mutant: the count is not set aside while the handler runs.              *)
DispatchKeepsCount(t, i, count) ==
    /\ inService' = inService \cup {queue[t][i]}
    /\ stack' = [stack EXCEPT ![t] = [@ EXCEPT ![Len(@)].ev = queue[t][i]]]
    /\ UNCHANGED eventCount

(* Run the handler of the i-th event: its proc field is NULL and the count *)
(* is set aside until the handler returns.                                 *)
Dispatch(t, i, count) ==
    /\ inService' = inService \cup {queue[t][i]}
    /\ stack' = [stack EXCEPT ![t] =
                    [@ EXCEPT ![Len(@)].ev = queue[t][i],
                              ![Len(@)].saved = count]]
    /\ eventCount' = [eventCount EXCEPT ![t] = 0]

(* The first event with a proc.                                            *)
ServiceFirst(t, i) ==
    /\ \E s \in {"svc1", "svc2", "all"} : AtStage(t, s)
    /\ Serviceable(t, i) /\ \A j \in 1..(i-1) : ~Serviceable(t, j)
    /\ Dispatch(t, i, eventCount[t])
    /\ UNCHANGED <<queue, lastEventPtr, markerEventPtr, arrival, eventVars,
                   serviceMode, deleting, eventReady, listVars>>

(* Where the caller of Tcl_ServiceEvent goes when it returned 0.           *)
AfterNothing(s) == CASE s = "svc1" -> "setup" [] s = "svc2" -> "idle"
                     [] s = "all" -> "allidle"

ServiceNone(t) ==
    /\ \E s \in {"svc1", "svc2", "all"} : AtStage(t, s)
    /\ \A i \in DOMAIN queue[t] : ~Serviceable(t, i)
    /\ GoTo(t, AfterNothing(Top(t).at))
    /\ UNCHANGED <<queueVars, eventVars, inService, serviceMode, deleting,
                   eventReady, listVars>>

(* An asynchronous handler was ready and ran instead: Tcl_ServiceEvent     *)
(* returned 1.                                                             *)
ServiceAsync(t) ==
    /\ AtStage(t, "svc1") \/ AtStage(t, "svc2")
    /\ Return(t)
    /\ UNCHANGED <<queueVars, eventVars, inService, deleting, eventReady,
                   listVars>>

InHandler(t) == AtCode(t) /\ stack[t] # <<>> /\ Top(t).ev # None
Handles(t) == TypeOf[Top(t).ev] \in Top(t).flags

(* Mutant: the count set aside replaces the one gathered meanwhile.        *)
HandlerDoneForgets(t, i) ==
    /\ InHandler(t) /\ Handles(t)
    /\ queue[t][i] = Top(t).ev
    /\ Unlink(t, i)
    /\ eventCount' = [eventCount EXCEPT ![t] = Top(t).saved - 1]
    /\ inService' = inService \ {Top(t).ev}
    /\ IF Top(t).at = "all"
       THEN /\ stack' = [stack EXCEPT ![t] = [@ EXCEPT ![Len(@)].ev = None,
                                                      ![Len(@)].saved = 0]]
            /\ UNCHANGED serviceMode
       ELSE Return(t)
    /\ UNCHANGED <<deleting, eventReady, listVars>>

(* The handler returned 1: find the event again, unlink and free it.       *)
HandlerDone(t, i) ==
    /\ InHandler(t) /\ Handles(t)
    /\ queue[t][i] = Top(t).ev
    /\ Unlink(t, i)
    /\ eventCount' = [eventCount EXCEPT ![t] = (@ + Top(t).saved) - 1]
    /\ inService' = inService \ {Top(t).ev}
    /\ IF Top(t).at = "all"
       THEN /\ stack' = [stack EXCEPT ![t] = [@ EXCEPT ![Len(@)].ev = None,
                                                      ![Len(@)].saved = 0]]
            /\ UNCHANGED serviceMode
       ELSE Return(t)
    /\ UNCHANGED <<deleting, eventReady, listVars>>

(* The handler returned 0: restore proc and go on behind the event, with   *)
(* the next event that has a proc or, at the end, with a result of 0.      *)
HandlerDefers(t, i) ==
    /\ InHandler(t) /\ ~Handles(t)
    /\ queue[t][i] = Top(t).ev
    /\ \/ \E n \in (i+1)..Len(queue[t]) :
             /\ Serviceable(t, n)
             /\ \A j \in (i+1)..(n-1) : ~Serviceable(t, j)
             /\ inService' = (inService \ {Top(t).ev}) \cup {queue[t][n]}
             /\ stack' = [stack EXCEPT ![t] =
                   [@ EXCEPT ![Len(@)].ev = queue[t][n],
                             ![Len(@)].saved = eventCount[t] + Top(t).saved]]
             /\ eventCount' = [eventCount EXCEPT ![t] = 0]
       \/ /\ \A n \in (i+1)..Len(queue[t]) : ~Serviceable(t, n)
          /\ inService' = inService \ {Top(t).ev}
          /\ stack' = [stack EXCEPT ![t] =
                          [@ EXCEPT ![Len(@)].ev = None,
                                    ![Len(@)].saved = 0,
                                    ![Len(@)].at = AfterNothing(Top(t).at)]]
          /\ eventCount' = [eventCount EXCEPT ![t] = @ + Top(t).saved]
    /\ UNCHANGED <<queue, lastEventPtr, markerEventPtr, arrival, eventVars,
                   serviceMode, deleting, eventReady, listVars>>

------------------------------------------------------------------------------
(* Tcl_DoOneEvent and Tcl_ServiceAll.  Flags without a type mean all of    *)
(* them.                                                                   *)

Push(t, stage, flags, dontWait) ==
    /\ stack' = [stack EXCEPT ![t] = Append(@,
                    [at |-> stage, flags |-> flags, dontWait |-> dontWait,
                     oldMode |-> serviceMode[t], ev |-> None, saved |-> 0])]
    /\ serviceMode' = [serviceMode EXCEPT ![t] = "none"]

Tcl_DoOneEvent(t, flags, dontWait) ==
    /\ AtCode(t) /\ Len(stack[t]) < MaxDepth /\ t \in registered
    /\ Push(t, "svc1", IF flags = {} THEN Type ELSE flags, dontWait)
    /\ UNCHANGED <<queueVars, eventVars, inService, deleting, eventReady,
                   listVars>>

(* TCL_IDLE_EVENTS alone: straight to the idle handlers, without waiting.  *)
DoIdleEvents(t) ==
    /\ AtCode(t) /\ Len(stack[t]) < MaxDepth /\ t \in registered
    /\ Push(t, "idle", {}, TRUE)
    /\ UNCHANGED <<queueVars, eventVars, inService, deleting, eventReady,
                   listVars>>

Tcl_SetServiceMode(t, mode) ==
    /\ AtCode(t) /\ t \in registered
    /\ serviceMode' = [serviceMode EXCEPT ![t] = mode]
    /\ UNCHANGED <<queueVars, eventVars, inService, stack, deleting,
                   eventReady, listVars>>

(* Called back by the platform, which does so from application code.       *)
Tcl_ServiceAll(t) ==
    /\ AtCode(t) /\ Len(stack[t]) < MaxDepth /\ t \in registered
    /\ serviceMode[t] # "none"
    /\ Push(t, "allcheck", Type, TRUE)
    /\ UNCHANGED <<queueVars, eventVars, inService, deleting, eventReady,
                   listVars>>

ServiceAllIdle(t) ==
    /\ AtStage(t, "allidle")
    /\ stack' = [stack EXCEPT ![t] = Front(@)]
    /\ serviceMode' = [serviceMode EXCEPT ![t] = "all"]
    /\ UNCHANGED <<queueVars, eventVars, inService, deleting, eventReady,
                   listVars>>

(* The set-up procs may ask for a poll, as TCL_DONT_WAIT does; otherwise   *)
(* the thread waits, unless it was alerted.                                *)
SetupAndWait(t) ==
    /\ AtStage(t, "setup")
    /\ \/ GoTo(t, "check") /\ eventReady' = [eventReady EXCEPT ![t] = FALSE]
       \/ /\ ~Top(t).dontWait /\ ~eventReady[t]
          /\ GoTo(t, "blocked")
          /\ UNCHANGED eventReady
    /\ UNCHANGED <<queueVars, eventVars, inService, serviceMode, deleting,
                   listVars>>

WaitEnds(t) ==
    /\ AtStage(t, "blocked")
    /\ GoTo(t, "check") /\ eventReady' = [eventReady EXCEPT ![t] = FALSE]
    /\ UNCHANGED <<queueVars, eventVars, inService, serviceMode, deleting,
                   listVars>>

(* Tcl_WaitForEvent gave up: Tcl_DoOneEvent is aborted.                    *)
WaitAborts(t) ==
    /\ AtStage(t, "setup") \/ AtStage(t, "blocked")
    /\ Return(t)
    /\ UNCHANGED <<queueVars, eventVars, inService, deleting, eventReady,
                   listVars>>

(* The platform notifier and the check procs queue what they found.        *)
SourceQueues(t, e) ==
    /\ AtStage(t, "check") \/ AtStage(t, "allcheck")
    /\ QueueEvent(t, e, "tail")
    /\ UNCHANGED <<inService, stack, serviceMode, deleting, eventReady, listVars>>

CheckDone(t) ==
    /\ \/ AtStage(t, "check") /\ GoTo(t, "svc2")
       \/ AtStage(t, "allcheck") /\ GoTo(t, "all")
    /\ UNCHANGED <<queueVars, eventVars, inService, serviceMode, deleting,
                   eventReady, listVars>>

(* Idle handlers, if there were any, end the call; so does TCL_DONT_WAIT.  *)
Idle(t) ==
    /\ AtStage(t, "idle")
    /\ \/ Return(t)
       \/ ~Top(t).dontWait /\ GoTo(t, "svc1") /\ UNCHANGED serviceMode
    /\ UNCHANGED <<queueVars, eventVars, inService, deleting, eventReady,
                   listVars>>

------------------------------------------------------------------------------
(* TclFinalizeNotifier: the events go under queueMutex, then the thread    *)
(* leaves the list under listLock.  It may be called from a handler, which *)
(* then never returns.                                                     *)
FinalizeQueue(t) ==
    /\ AtCode(t) /\ t \in Exiting /\ t \in registered
    /\ alloc' = alloc \ ToSet(queue[t])
    /\ inService' = inService \ ToSet(queue[t])
    /\ position' = [e \in Event |-> IF e \in ToSet(queue[t])
                                    THEN "tail" ELSE position[e]]
    /\ queue' = [queue EXCEPT ![t] = <<>>]
    /\ arrival' = arrival \cap (alloc' \X alloc')
    /\ lastEventPtr' = [lastEventPtr EXCEPT ![t] = None]
    /\ eventCount' = [eventCount EXCEPT ![t] = 0]
    /\ stack' = [stack EXCEPT ![t] = <<>>]
    /\ finalizing' = [finalizing EXCEPT ![t] = "list"]
    /\ UNCHANGED <<markerEventPtr, serviceMode, deleting, eventReady,
                   registered, owes, listLock>>

FinalizeList(t) ==
    /\ finalizing[t] = "list" /\ listLock = None
    /\ registered' = registered \ {t}
    /\ finalizing' = [finalizing EXCEPT ![t] = "done"]
    /\ UNCHANGED <<queueVars, eventVars, inService, stack, serviceMode,
                   deleting, eventReady, owes, listLock>>

------------------------------------------------------------------------------
Service(t) == \E i \in DOMAIN queue[t] : ServiceFirst(t, i)
HandlerReturns(t) ==
    \E i \in DOMAIN queue[t] : HandlerDone(t, i) \/ HandlerDefers(t, i)
IdleReturns(t) == Idle(t) \/ ServiceAllIdle(t)
LoopStep(t) ==
    \/ Service(t) \/ HandlerReturns(t) \/ IdleReturns(t)
    \/ ServiceNone(t) \/ SetupAndWait(t) \/ CheckDone(t)

ThreadStep(t) ==
    \/ LoopStep(t) \/ ServiceAsync(t) \/ WaitEnds(t) \/ WaitAborts(t)
    \/ \E e \in Event, pos \in Positions : Tcl_QueueEvent(t, e, pos)
    \/ \E e \in Event : SourceQueues(t, e)
    \/ \E k \in Type, i \in DOMAIN queue[t] : Tcl_DeleteEvents(t, k, i)
    \/ DeleteEventsDone(t)
    \/ \E flags \in Flags, w \in BOOLEAN : Tcl_DoOneEvent(t, flags, w)
    \/ DoIdleEvents(t) \/ Tcl_ServiceAll(t)
    \/ \E mode \in Modes : Tcl_SetServiceMode(t, mode)
    \/ FinalizeQueue(t) \/ FinalizeList(t)

PosterStep(p) ==
    \/ \E t \in Thread, e \in Event, pos \in Positions :
          PostAlertIfEmpty(p, t, e, pos) \/ Post(p, t, e, pos)
    \/ Tcl_ThreadAlert(p)

Next == (\E t \in Thread : ThreadStep(t)) \/ (\E p \in Poster : PosterStep(p))

Spec == Init /\ [][Next]_vars

(***************************************************************************)
(* Fairness: an event loop that can go on does; asynchronous handlers do   *)
(* not keep it from its queue for ever; event and idle handlers, at every  *)
(* depth of nesting, return some time; application code outside every      *)
(* event loop enters one again; a poster gives the alert it owes, and an   *)
(* alerted thread leaves its wait.  Nobody is obliged to post, and a wait  *)
(* without an alert may last for ever.                                     *)
(***************************************************************************)
Fairness ==
    /\ \A t \in Thread :
          /\ WF_vars(LoopStep(t)) /\ WF_vars(DeleteEventsDone(t))
          /\ SF_vars(Service(t))
          /\ \A depth \in 1..MaxDepth :
                SF_vars(/\ Len(stack[t]) = depth
                        /\ HandlerReturns(t) \/ IdleReturns(t))
          /\ WF_vars(eventReady[t] /\ WaitEnds(t))
          /\ SF_vars(stack[t] = <<>> /\ \E flags \in Flags, w \in BOOLEAN :
                        Tcl_DoOneEvent(t, flags, w))
    /\ \A p \in Poster : SF_vars(Tcl_ThreadAlert(p))

FairSpec == Spec /\ Fairness

------------------------------------------------------------------------------
(* Properties.                                                             *)

(* Every variable stays in its type.                                       *)
TypeOK ==
    /\ queue \in [Thread -> Seq(Event)] /\ arrival \subseteq Event \X Event
    /\ lastEventPtr \in [Thread -> Event \cup {None}]
    /\ markerEventPtr \in [Thread -> Event \cup {None}]
    /\ eventCount \in [Thread -> Int]
    /\ alloc \subseteq Event /\ inService \subseteq alloc
    /\ position \in [Event -> {"tail", "head", "mark"}]
    /\ stack \in [Thread -> Seq(Frame)]
    /\ serviceMode \in [Thread -> {"all", "none"}]
    /\ deleting \in [Thread -> Type \cup {None}]
    /\ eventReady \in [Thread -> BOOLEAN]
    /\ registered \subseteq Thread
    /\ finalizing \in [Thread -> {"no", "list", "done"}]
    /\ owes \in [Poster -> Thread \cup {None}]
    /\ listLock \in Poster \cup {None}

(* The pointers kept beside the chain agree with it: lastEventPtr is its   *)
(* last event and markerEventPtr one of its events (or NULL), so neither a *)
(* TCL_QUEUE_TAIL nor a TCL_QUEUE_MARK ever links an event where the chain *)
(* does not reach it, and no event is queued twice or outlives its memory. *)
QueueShape ==
    \A t \in Thread : finalizing[t] = "no" =>
       LET q == queue[t] IN
       /\ IsInjective(q) /\ ToSet(q) \subseteq alloc
       /\ lastEventPtr[t] = IF q = <<>> THEN None ELSE Last(q)
       /\ markerEventPtr[t] \in ToSet(q) \cup {None}

(* The order of service QueueEvent promises, whatever is serviced, deleted *)
(* and re-queued in between: TCL_QUEUE_MARK and TCL_QUEUE_TAIL events are  *)
(* served in order of arrival, TCL_QUEUE_HEAD events last in first out,    *)
(* and no event queued at the tail is ahead of one of the other two.       *)
DeliveryOrder ==
    \A t \in Thread : finalizing[t] = "no" =>
       \A i, j \in DOMAIN queue[t] : i < j =>
          LET a == queue[t][i]  b == queue[t][j] IN
          /\ position[a] = "tail" => position[b] = "tail"
          /\ position[a] = position[b] =>
                (IF position[a] = "head" THEN <<b, a>> ELSE <<a, b>>) \in arrival

(* The counts the frames of a stack have set aside, together.              *)
SetAside(frames) ==
    LET sum[d \in 0..Len(frames)] ==
           IF d = 0 THEN 0 ELSE sum[d - 1] + frames[d].saved
    IN  sum[Len(frames)]

(* eventCount and the counts the running handlers' frames have set aside   *)
(* add up to the length of the queue at every nesting, with posts and      *)
(* deletions in between: the empty test of TCL_QUEUE_ALERT_IF_EMPTY is     *)
(* about the events queued since the innermost handler was entered.        *)
CountBalanced ==
    \A t \in Thread : finalizing[t] = "no" =>
       Len(queue[t]) = eventCount[t] + SetAside(stack[t])

(* A handler is not re-executed while it runs, and its event stays queued: *)
(* each running handler belongs to one event loop, its event is in the     *)
(* queue (the assumption Tcl_ServiceEvent makes of a handler that returns  *)
(* 0) and exactly those events have a NULL proc.                           *)
HandlersNotReentered ==
    \A t \in Thread : finalizing[t] = "no" =>
       LET busy == {i \in DOMAIN stack[t] : stack[t][i].ev # None} IN
       /\ \A i, j \in busy : stack[t][i].ev = stack[t][j].ev => i = j
       /\ {stack[t][i].ev : i \in busy} = inService \cap ToSet(queue[t])
       /\ Cardinality(busy) = Cardinality(inService \cap ToSet(queue[t]))

(* No lost wake-up: a thread that waits, with no alert raised or owed, has *)
(* nothing in its queue that the loop it waits in would service.  (With    *)
(* flags that leave types out this fails: see the README, section 6.)   *)
PostedEventWakes ==
    \A t \in Thread :
       /\ stack[t] # <<>> /\ Top(t).at = "blocked"
       /\ ~eventReady[t] /\ \A p \in Poster : owes[p] # t
       => \A i \in DOMAIN queue[t] :
             Serviceable(t, i) => TypeOf[queue[t][i]] \notin Top(t).flags

(* Unless application code sets the mode itself, serviceMode is            *)
(* TCL_SERVICE_NONE exactly while an event loop is active, whatever way    *)
(* the loops were left: Tcl_ServiceAll never runs inside another loop and  *)
(* always runs outside of them.                                            *)
ServiceModeFollowsLoops ==
    \A t \in Thread : finalizing[t] = "no" =>
       (serviceMode[t] = "none" <=> stack[t] # <<>>)

(* Loops nest properly: handlers do not, and the mode follows.             *)
LoopsNest == HandlersNotReentered /\ ServiceModeFollowsLoops

(* Every queued event gets its handler started, or leaves the queue, if    *)
(* the loops accept every type and no endless stream of events is queued   *)
(* ahead of it with TCL_QUEUE_HEAD or TCL_QUEUE_MARK.                      *)
Awaits(t, e) == finalizing[t] = "no" /\ e \in ToSet(queue[t]) \ inService

QueuedEventServed ==
    \A t \in Thread, e \in Event :
       \/ []<><<\E a \in Event \ alloc : position'[a] # "tail">>_vars
       \/ Awaits(t, e) ~> ~Awaits(t, e)
=============================================================================
