------------------------------ MODULE TclAsync ------------------------------
(***************************************************************************)
(* Asynchronous handlers: generic/tclAsync.c, together with the two pieces *)
(* of the select notifier that mark handlers from a POSIX signal           *)
(* (unix/tclSelectNotfy.c) and the part of thread finalisation that tears  *)
(* the notifier and the handlers down (generic/tclEvent.c, tclNotify.c).   *)
(*                                                                         *)
(* A handler belongs to the thread that created it.  Any thread may mark   *)
(* it; the owner runs it at a safe point, in Tcl_AsyncInvoke.  A signal    *)
(* handler may not take a lock, so it only stores ready = -1 and leaves    *)
(* the real mark to the notifier thread.                                   *)
(*                                                                         *)
(* A step is a critical section of asyncMutex, or the part of one up to    *)
(* the point where a second lock (listLock, for Tcl_ThreadAlert) is taken. *)
(***************************************************************************)
EXTENDS Integers, Sequences, SequencesExt, FiniteSets

CONSTANTS
    Thread,         \* the threads that run Tcl
    Handler,        \* the addresses of AsyncHandler structures
    Notifier,       \* the notifier thread of the select notifier
    None,           \* the NULL pointer, and the free state of a lock
    SignalHandler,  \* the handlers some signal handler holds a token of
    Exiting,        \* the threads that may call Tcl_FinalizeThread
    MaxMarks        \* bound on the marks of a behaviour

ASSUME AsyncConstants ==
    /\ Notifier \notin Thread
    /\ None \notin Thread \cup Handler \cup {Notifier}
    /\ SignalHandler \subseteq Handler
    /\ Exiting \subseteq Thread
    /\ MaxMarks \in Nat

VARIABLES
    handlers,     \* firstHandler .. lastHandler, the list of the process
    alloc,        \* the handlers whose memory is allocated
    origin,       \* originThrdId of an allocated handler
    ready,        \* 0, 1, or -1 when stored by a signal handler
    asyncReady,   \* per thread
    asyncActive,  \* per thread
    running,      \* the handler whose proc the thread is executing, or None
    pc,           \* where a thread is
    eventReady,   \* per thread: the alert of the platform notifier
    registered,   \* the threads on the firstNotifierPtr list
    asyncMutex,   \* holder
    listLock,     \* holder
    alertee,      \* the thread the holder of asyncMutex is about to alert
    asyncPending, \* static flag of tclSelectNotfy.c
    npc,          \* where the notifier thread is
    token,        \* how far its pass has come in the list
    quitSent,     \* a 'q' is in the trigger pipe
    quitRead,     \* the notifier thread has read it
    accepted,     \* history: handlers marked successfully and not run since
    marks         \* history: number of marks so far

handlerVars  == <<handlers, alloc, origin>>
flagVars     == <<asyncReady, asyncActive>>
notifierVars == <<asyncPending, npc, token, quitSent, quitRead>>
alertVars    == <<eventReady, registered, listLock>>
vars == <<handlerVars, ready, flagVars, running, pc, alertVars, asyncMutex,
          alertee, notifierVars, accepted, marks>>

Actor == Thread \cup {Notifier}

(***************************************************************************)
(* Init: every thread has initialised its notifier and the notifier thread *)
(* is running, as after the first Tcl_WaitForEvent of the process.         *)
(***************************************************************************)
Init ==
    /\ handlers = <<>> /\ alloc = {}
    /\ origin = [h \in Handler |-> None]
    /\ ready = [h \in Handler |-> 0]
    /\ asyncReady = [t \in Thread |-> FALSE]
    /\ asyncActive = [t \in Thread |-> FALSE]
    /\ running = [t \in Thread |-> None]
    /\ pc = [t \in Thread |-> "run"]
    /\ eventReady = [t \in Thread |-> FALSE]
    /\ registered = Thread
    /\ asyncMutex = None /\ listLock = None /\ alertee = None
    /\ asyncPending = FALSE /\ npc = "select" /\ token = 1
    /\ quitSent = FALSE /\ quitRead = FALSE
    /\ accepted = {} /\ marks = 0

Listed(h) == \E i \in DOMAIN handlers : handlers[i] = h

(* A thread executes C code of its own, inside a handler's proc or not.    *)
AtCode(t) == pc[t] \in {"run", "proc"}
Resume(t) == IF running[t] = None THEN "run" ELSE "proc"

------------------------------------------------------------------------------
(* Creation and deletion.                                                  *)

Tcl_AsyncCreate(t, h) ==
    /\ AtCode(t) /\ asyncMutex = None
    /\ h \notin alloc
    /\ alloc' = alloc \cup {h}
    /\ origin' = [origin EXCEPT ![h] = t]
    /\ ready' = [ready EXCEPT ![h] = 0]
    /\ handlers' = Append(handlers, h)
    /\ UNCHANGED <<flagVars, running, pc, alertVars, asyncMutex, alertee,
                   notifierVars, accepted, marks>>

(* By the owner only: another thread panics.  A handler may delete itself. *)
Tcl_AsyncDelete(t, i) ==
    /\ AtCode(t) /\ asyncMutex = None
    /\ origin[handlers[i]] = t
    /\ handlers' = RemoveAt(handlers, i)
    /\ alloc' = alloc \ {handlers[i]}
    /\ accepted' = accepted \ {handlers[i]}
    /\ UNCHANGED <<origin, ready, flagVars, running, pc, alertVars,
                   asyncMutex, alertee, notifierVars, marks>>

------------------------------------------------------------------------------
(* Marking.  The holder of asyncMutex keeps it while it takes listLock in  *)
(* Tcl_ThreadAlert, so a mark that alerts takes two steps.                 *)

(* The assignments Tcl_AsyncMark and TclAsyncMarkFromNotifier share, for   *)
(* the actor that holds, or in this step takes, asyncMutex.                *)
MarkReady(h) ==
    /\ ready' = [ready EXCEPT ![h] = 1]
    /\ LET o == origin[h] IN
       IF asyncActive[o]
       THEN UNCHANGED <<asyncReady, alertee>>
       ELSE /\ asyncReady' = [asyncReady EXCEPT ![o] = TRUE]
            /\ alertee' = o

Tcl_AsyncMark(t, h) ==
    /\ AtCode(t) /\ asyncMutex = None
    /\ Listed(h) /\ marks < MaxMarks
    /\ MarkReady(h)
    /\ IF asyncActive[origin[h]]
       THEN UNCHANGED <<pc, asyncMutex>>
       ELSE /\ asyncMutex' = t
            /\ pc' = [pc EXCEPT ![t] = "alert"]
    /\ accepted' = accepted \cup {h}
    /\ marks' = marks + 1
    /\ UNCHANGED <<handlerVars, asyncActive, running, alertVars, notifierVars>>

(* Mutant of Tcl_ThreadAlert: the condition is signalled, no flag is left. *)
ThreadAlertSleepers(o) ==
    /\ listLock = None
    /\ eventReady' = IF o \in registered /\ pc[o] = "blocked"
                     THEN [eventReady EXCEPT ![o] = TRUE] ELSE eventReady

(* Tcl_ThreadAlert finds the target on the notifier list, under listLock,  *)
(* and raises its alert; an unregistered target is ignored.                *)
Tcl_ThreadAlert(o) ==
    /\ listLock = None
    /\ eventReady' = IF o \in registered
                     THEN [eventReady EXCEPT ![o] = TRUE] ELSE eventReady

AlertFromMark(t) ==
    /\ pc[t] = "alert"
    /\ Tcl_ThreadAlert(alertee)
    /\ alertee' = None /\ asyncMutex' = None
    /\ pc' = [pc EXCEPT ![t] = Resume(t)]
    /\ UNCHANGED <<handlerVars, ready, flagVars, running, registered, listLock,
                   notifierVars, accepted, marks>>

(* A signal that reaches the notifier thread, at any point of its life:    *)
(* nothing is ever put into the two signal masks of the file, so signals   *)
(* are not blocked outside of select().  Other threads re-send it there.   *)
(* The mark is refused when the trigger pipe cannot be written, as after   *)
(* the finaliser has closed it, but ready stays -1.                        *)
Tcl_AsyncMarkFromSignal(h) ==
    /\ npc # "exited"
    /\ h \in SignalHandler /\ Listed(h) /\ marks < MaxMarks
    /\ ready' = [ready EXCEPT ![h] = -1]
    /\ \/ /\ asyncPending' = TRUE
          /\ accepted' = accepted \cup {h}
       \/ /\ ~asyncPending
          /\ UNCHANGED <<asyncPending, accepted>>
    /\ marks' = marks + 1
    /\ UNCHANGED <<handlerVars, flagVars, running, pc, alertVars, asyncMutex,
                   alertee, npc, token, quitSent, quitRead>>

------------------------------------------------------------------------------
(* The notifier thread, from select() to the end of one pass.              *)

(* select() fails with EINTR: the pipe is not read.                        *)
NotifierInterrupted ==
    /\ npc = "select" /\ asyncPending
    /\ asyncPending' = FALSE /\ npc' = "pass"
    /\ UNCHANGED <<handlerVars, ready, flagVars, running, pc, alertVars,
                   asyncMutex, alertee, token, quitSent, quitRead, accepted,
                   marks>>

(* select() reports the trigger pipe; its bytes are read up to a 'q'.      *)
NotifierReadsPipe ==
    /\ npc = "select" /\ (asyncPending \/ quitSent)
    /\ quitRead' = quitSent
    /\ npc' = IF asyncPending THEN "pass" ELSE "loop"
    /\ asyncPending' = FALSE
    /\ UNCHANGED <<handlerVars, ready, flagVars, running, pc, alertVars,
                   asyncMutex, alertee, token, quitSent, accepted, marks>>

(* TclAsyncMarkFromNotifier: lock, then one handler stored as -1 after the *)
(* other, each with its own alert, then unlock.  A signal may store -1 for *)
(* a handler that the pass is past: it leaves asyncPending set.            *)
NotifierLock ==
    /\ npc = "pass" /\ asyncMutex = None
    /\ asyncMutex' = Notifier /\ npc' = "scan"
    /\ UNCHANGED <<handlerVars, ready, flagVars, running, pc, alertVars, alertee,
                   asyncPending, token, quitSent, quitRead, accepted, marks>>

NextFromSignal(i) ==
    /\ token <= i /\ ready[handlers[i]] = -1
    /\ \A j \in token..(i-1) : ready[handlers[j]] # -1

NotifierMark(i) ==
    /\ npc = "scan" /\ NextFromSignal(i)
    /\ MarkReady(handlers[i])
    /\ token' = i + 1
    /\ npc' = IF asyncActive[origin[handlers[i]]] THEN "scan" ELSE "alert"
    /\ UNCHANGED <<handlerVars, asyncActive, running, pc, alertVars,
                   asyncMutex, asyncPending, quitSent, quitRead, accepted,
                   marks>>

NotifierAlert ==
    /\ npc = "alert"
    /\ Tcl_ThreadAlert(alertee)
    /\ alertee' = None /\ npc' = "scan"
    /\ UNCHANGED <<handlerVars, ready, flagVars, running, pc, registered,
                   listLock, asyncMutex, asyncPending, token, quitSent, quitRead,
                   accepted, marks>>

NotifierUnlock ==
    /\ npc = "scan"
    /\ \A i \in DOMAIN handlers : i >= token => ready[handlers[i]] # -1
    /\ asyncMutex' = None /\ npc' = "loop" /\ token' = 1
    /\ UNCHANGED <<handlerVars, ready, flagVars, running, pc, alertVars,
                   alertee, asyncPending, quitSent, quitRead, accepted, marks>>

(* The loop of NotifierThreadProc ends after a pass that read the 'q', also *)
(* when a signal has come since asyncPending was tested.                    *)
NotifierLoop ==
    /\ npc = "loop"
    /\ npc' = IF quitRead THEN "exited" ELSE "select"
    /\ UNCHANGED <<handlerVars, ready, flagVars, running, pc, alertVars,
                   asyncMutex, alertee, asyncPending, token, quitSent, quitRead,
                   accepted, marks>>

------------------------------------------------------------------------------
(* Running handlers.  Tcl_AsyncInvoke makes one pass over the list after   *)
(* another, with the mutex released around each proc.  A call that finds   *)
(* asyncReady clear, as every nested call does, returns at once.           *)

(* Mutant of OwnReady: -1 does not count as ready.                         *)
OwnReadyPositive(t, i) == origin[handlers[i]] = t /\ ready[handlers[i]] = 1

OwnReady(t, i) == origin[handlers[i]] = t /\ ready[handlers[i]] # 0

FirstReady(t, i) == OwnReady(t, i) /\ \A j \in 1..(i-1) : ~OwnReady(t, j)

(* One pass: run the first ready handler of t, or end the invocation.      *)
InvokePass(t) ==
    \/ \E i \in DOMAIN handlers :
          /\ FirstReady(t, i)
          /\ ready' = [ready EXCEPT ![handlers[i]] = 0]
          /\ running' = [running EXCEPT ![t] = handlers[i]]
          /\ accepted' = accepted \ {handlers[i]}
          /\ asyncActive' = [asyncActive EXCEPT ![t] = TRUE]
          /\ pc' = [pc EXCEPT ![t] = "proc"]
    \/ /\ \A i \in DOMAIN handlers : ~OwnReady(t, i)
       /\ running' = [running EXCEPT ![t] = None]
       /\ asyncActive' = [asyncActive EXCEPT ![t] = FALSE]
       /\ pc' = [pc EXCEPT ![t] = "run"]
       /\ UNCHANGED <<ready, accepted>>

Tcl_AsyncInvoke(t) ==
    /\ pc[t] = "run" /\ asyncMutex = None
    /\ asyncReady[t]
    /\ asyncReady' = [asyncReady EXCEPT ![t] = FALSE]
    /\ InvokePass(t)
    /\ UNCHANGED <<handlerVars, alertVars, asyncMutex, alertee, notifierVars,
                   marks>>

ProcReturns(t) ==
    /\ pc[t] = "proc" /\ asyncMutex = None
    /\ InvokePass(t)
    /\ UNCHANGED <<handlerVars, asyncReady, alertVars, asyncMutex, alertee,
                   notifierVars, marks>>

------------------------------------------------------------------------------
(* The event loop of a thread: Tcl_DoOneEvent reads Tcl_AsyncReady without *)
(* a lock, then waits unless an alert came in between.                     *)

SeesNotReady(t) ==
    /\ pc[t] = "run" /\ t \in registered
    /\ ~asyncReady[t]
    /\ pc' = [pc EXCEPT ![t] = "towait"]
    /\ UNCHANGED <<handlerVars, ready, flagVars, running, alertVars,
                   asyncMutex, alertee, notifierVars, accepted, marks>>

(* Mutant of Tcl_WaitForEvent: waits without testing eventReady.           *)
WaitForEventUntested(t) ==
    /\ pc[t] = "towait"
    /\ pc' = [pc EXCEPT ![t] = "blocked"]
    /\ eventReady' = [eventReady EXCEPT ![t] = FALSE]
    /\ UNCHANGED <<handlerVars, ready, flagVars, running, registered,
                   listLock, asyncMutex, alertee, notifierVars, accepted,
                   marks>>

Tcl_WaitForEvent(t) ==
    /\ pc[t] = "towait"
    /\ pc' = [pc EXCEPT ![t] = IF eventReady[t] THEN "run" ELSE "blocked"]
    /\ eventReady' = [eventReady EXCEPT ![t] = FALSE]
    /\ UNCHANGED <<handlerVars, ready, flagVars, running, registered,
                   listLock, asyncMutex, alertee, notifierVars, accepted,
                   marks>>

(* The wait ends: by an alert, a time-out, a file or a spurious wake-up.   *)
WaitEnds(t) ==
    /\ pc[t] = "blocked"
    /\ pc' = [pc EXCEPT ![t] = "run"]
    /\ eventReady' = [eventReady EXCEPT ![t] = FALSE]
    /\ UNCHANGED <<handlerVars, ready, flagVars, running, registered,
                   listLock, asyncMutex, alertee, notifierVars, accepted,
                   marks>>

------------------------------------------------------------------------------
(* Tcl_FinalizeThread: TclFinalizeNotifier, then TclFinalizeAsync.         *)

(* TclFinalizeNotifier takes listLock; the last thread sends the 'q' and   *)
(* keeps the lock while it waits for the notifier thread.                  *)
TclFinalizeNotifier(t) ==
    /\ pc[t] = "run" /\ t \in Exiting /\ t \in registered
    /\ listLock = None
    /\ IF registered = {t} /\ npc # "exited"
       THEN /\ quitSent' = TRUE /\ listLock' = t
            /\ pc' = [pc EXCEPT ![t] = "join"]
            /\ UNCHANGED registered
       ELSE /\ registered' = registered \ {t}
            /\ pc' = [pc EXCEPT ![t] = "finasync"]
            /\ UNCHANGED <<quitSent, listLock>>
    /\ UNCHANGED <<handlerVars, ready, flagVars, running, eventReady,
                   asyncMutex, alertee, asyncPending, npc, token, quitRead,
                   accepted, marks>>

(* TclAsyncMarkFromNotifier in a thread that holds listLock, which is      *)
(* re-entrant: nobody can come between its marks and their alerts.         *)
PerformOutstanding ==
    LET due  == {h \in Handler : Listed(h) /\ ready[h] = -1}
        told == {o \in Thread : ~asyncActive[o] /\ \E h \in due : origin[h] = o}
    IN  /\ ready' = [h \in Handler |-> IF h \in due THEN 1 ELSE ready[h]]
        /\ asyncReady' = [o \in Thread |-> asyncReady[o] \/ o \in told]
        /\ eventReady' = [o \in Thread |->
                             eventReady[o] \/ o \in told \cap registered]

(* Mutant of FinalizeJoin: outstanding marks are forgotten.                *)
FinalizeJoinOnly(t) ==
    /\ pc[t] = "join" /\ npc = "exited"
    /\ registered' = registered \ {t}
    /\ listLock' = None
    /\ pc' = [pc EXCEPT ![t] = "finasync"]
    /\ UNCHANGED <<handlerVars, ready, flagVars, running, eventReady,
                   asyncMutex, alertee, notifierVars, accepted, marks>>

(* The notifier thread is joined, and the marks performed that came too    *)
(* late for it.                                                            *)
FinalizeJoin(t) ==
    /\ pc[t] = "join" /\ npc = "exited"
    /\ \/ asyncPending /\ asyncMutex = None /\ PerformOutstanding
       \/ ~asyncPending /\ UNCHANGED <<ready, asyncReady, eventReady>>
    /\ asyncPending' = FALSE
    /\ registered' = registered \ {t}
    /\ listLock' = None
    /\ pc' = [pc EXCEPT ![t] = "finasync"]
    /\ UNCHANGED <<handlerVars, asyncActive, running, asyncMutex, alertee, npc,
                   token, quitSent, quitRead, accepted, marks>>

FirstOwn(t, i) ==
    /\ origin[handlers[i]] = t
    /\ \A j \in 1..(i-1) : origin[handlers[j]] # t

(* One iteration of the loop of TclFinalizeAsync, under asyncMutex: unlink *)
(* the next handler of t.  The loop is left, before the handler is chained *)
(* for Tcl_Free, when the unlinking empties the list.                      *)
TclFinalizeAsync(t, i) ==
    /\ pc[t] = "finasync" /\ asyncMutex \in {None, t}
    /\ FirstOwn(t, i)
    /\ handlers' = RemoveAt(handlers, i)
    /\ accepted' = accepted \ {handlers[i]}
    /\ IF Len(handlers) = 1
       THEN UNCHANGED alloc
       ELSE alloc' = alloc \ {handlers[i]}
    /\ asyncMutex' = t
    /\ UNCHANGED <<origin, ready, flagVars, running, pc, alertVars, alertee,
                   notifierVars, marks>>

(* Mutant of FinalizeAsyncDone: left as soon as the list has one handler.  *)
FinalizeAsyncDoneEarly(t) ==
    /\ pc[t] = "finasync" /\ asyncMutex \in {None, t}
    /\ Len(handlers) <= 1
    /\ asyncMutex' = None
    /\ pc' = [pc EXCEPT ![t] = "exited"]
    /\ UNCHANGED <<handlerVars, ready, flagVars, running, alertVars, alertee,
                   notifierVars, accepted, marks>>

FinalizeAsyncDone(t) ==
    /\ pc[t] = "finasync" /\ asyncMutex \in {None, t}
    /\ \A i \in DOMAIN handlers : origin[handlers[i]] # t
    /\ asyncMutex' = None
    /\ pc' = [pc EXCEPT ![t] = "exited"]
    /\ UNCHANGED <<handlerVars, ready, flagVars, running, alertVars, alertee,
                   notifierVars, accepted, marks>>

------------------------------------------------------------------------------
NotifierStep ==
    \/ NotifierInterrupted \/ NotifierReadsPipe \/ NotifierLock
    \/ \E i \in DOMAIN handlers : NotifierMark(i)
    \/ NotifierAlert \/ NotifierUnlock \/ NotifierLoop

ThreadStep(t) ==
    \/ \E h \in Handler : Tcl_AsyncCreate(t, h) \/ Tcl_AsyncMark(t, h)
    \/ \E i \in DOMAIN handlers : Tcl_AsyncDelete(t, i)
    \/ AlertFromMark(t)
    \/ Tcl_AsyncInvoke(t) \/ ProcReturns(t)
    \/ SeesNotReady(t) \/ Tcl_WaitForEvent(t) \/ WaitEnds(t)
    \/ TclFinalizeNotifier(t) \/ FinalizeJoin(t)
    \/ \E i \in DOMAIN handlers : TclFinalizeAsync(t, i)
    \/ FinalizeAsyncDone(t)

Next ==
    \/ \E t \in Thread : ThreadStep(t)
    \/ \E h \in Handler : Tcl_AsyncMarkFromSignal(h)
    \/ NotifierStep

Spec == Init /\ [][Next]_vars

(***************************************************************************)
(* Fairness: the scheduler runs every thread, so a step that stays enabled *)
(* is taken.  Weak fairness is enough: a mutex is kept from a waiter only  *)
(* by marks, which are bounded.  Handlers return, a thread whose           *)
(* asyncReady is set reaches a safe point, and an alerted thread leaves    *)
(* its wait.  Nothing obliges anybody to create, mark, delete or exit.     *)
(***************************************************************************)
Progress(t) ==
    \/ AlertFromMark(t) \/ Tcl_AsyncInvoke(t) \/ ProcReturns(t)
    \/ Tcl_WaitForEvent(t) \/ (eventReady[t] /\ WaitEnds(t))
    \/ FinalizeJoin(t) \/ FinalizeAsyncDone(t)
    \/ \E i \in DOMAIN handlers : TclFinalizeAsync(t, i)

Fairness ==
    /\ WF_vars(NotifierStep)
    /\ \A t \in Thread : WF_vars(Progress(t))

FairSpec == Spec /\ Fairness

------------------------------------------------------------------------------
(* Properties.                                                             *)

HandlerTypes ==
    /\ handlers \in Seq(Handler) /\ alloc \subseteq Handler
    /\ \A i \in DOMAIN handlers : handlers[i] \in alloc
    /\ IsInjective(handlers)
    /\ origin \in [Handler -> Thread \cup {None}]
    /\ ready \in [Handler -> {-1, 0, 1}]
    /\ accepted \subseteq Handler /\ marks \in 0..MaxMarks

ThreadTypes ==
    /\ asyncReady \in [Thread -> BOOLEAN] /\ asyncActive \in [Thread -> BOOLEAN]
    /\ running \in [Thread -> Handler \cup {None}]
    /\ pc \in [Thread -> {"run", "alert", "proc", "towait", "blocked", "join",
                          "finasync", "exited"}]
    /\ eventReady \in [Thread -> BOOLEAN] /\ registered \subseteq Thread

NotifierTypes ==
    /\ asyncMutex \in Actor \cup {None} /\ listLock \in Thread \cup {None}
    /\ alertee \in Thread \cup {None}
    /\ asyncPending \in BOOLEAN
    /\ npc \in {"select", "pass", "scan", "alert", "loop", "exited"}
    /\ token \in Nat \ {0}
    /\ quitSent \in BOOLEAN /\ quitRead \in BOOLEAN

(* Every variable stays in its type; in particular the handler list holds  *)
(* allocated handlers only, each once.                                     *)
TypeOK == HandlerTypes /\ ThreadTypes /\ NotifierTypes

(* No mark is lost.  A handler that was marked, by Tcl_AsyncMark or by a   *)
(* signal for which Tcl_AsyncMarkFromSignal returned true, and that was    *)
(* neither run nor deleted since, is still on the list with ready set, and *)
(* something is under way that makes its owner look: the owner's           *)
(* asyncReady, its running Tcl_AsyncInvoke (asyncActive suppresses         *)
(* asyncReady), or a pass of the notifier thread not yet completed.        *)
PassDue == asyncPending \/ npc \in {"pass", "scan", "alert"}

NoLostMark ==
    \A h \in accepted :
       /\ Listed(h) /\ ready[h] # 0
       /\ \/ asyncReady[origin[h]] \/ asyncActive[origin[h]]
          \/ ready[h] = -1 /\ PassDue

(* asyncReady stays clear while Tcl_AsyncInvoke works, whoever marks: so a *)
(* nested Tcl_AsyncInvoke (from a script run by a handler) returns at its  *)
(* first test and never starts a second traversal.                         *)
NoNestedInvoke ==
    \A t \in Thread : asyncActive[t] => running[t] # None /\ ~asyncReady[t]

(* No lost wake-up between the unlocked read of asyncReady in              *)
(* Tcl_DoOneEvent and the wait: a thread that waits while its asyncReady   *)
(* is set has an alert, raised or about to be raised by the marker.        *)
NoLostWakeup ==
    \A t \in Thread :
       pc[t] = "blocked" /\ asyncReady[t] => eventReady[t] \/ alertee = t

(* Every handler on the list has a live owner: TclAsyncMarkFromNotifier    *)
(* writes through originTsd of every handler it marks, and the owner's     *)
(* thread data is freed right after TclFinalizeAsync.                      *)
ListedOwnersAlive ==
    \A i \in DOMAIN handlers : pc[origin[handlers[i]]] # "exited"

(* No mark waits for a notifier thread that has ended, also when the       *)
(* signal came too late for it, between its last test of asyncPending and  *)
(* its end: once it is joined, every accepted mark has been passed on to   *)
(* the owner of its handler.                                               *)
NoMarkOutlivesNotifier ==
    npc = "exited" /\ (\A t \in Thread : pc[t] # "join") =>
       \A h \in accepted : asyncReady[origin[h]] \/ asyncActive[origin[h]]

(* A mark is eventually followed by the handler's run, unless the handler  *)
(* is deleted or its owner exits (where it may also be left in a deadlock: *)
(* see NotifierShutsDown).  Marks are bounded: an endlessly re-marked      *)
(* handler earlier in the list may starve the later ones, which is the     *)
(* documented priority order.                                              *)
MarkedHandlerRuns ==
    \A h \in Handler :
       h \in accepted ~> \/ h \notin accepted
                         \/ pc[origin[h]] \in {"join", "finasync", "exited"}

(* What the comment of NotifierThreadProc (tclSelectNotfy.c:978) says: the *)
(* notifier thread can be shut down when the library is finalised.         *)
NotifierShutsDown == quitSent ~> npc = "exited"
=============================================================================
