--------------------------- MODULE TclSelectNotfy ---------------------------
(***************************************************************************)
(* The select notifier, unix/tclSelectNotfy.c and unix/tclUnixNotfy.c      *)
(* compiled with threads and without epoll or kqueue: one notifier thread  *)
(* selects for all threads, which wait for it on condition variables.      *)
(*                                                                         *)
(* A step is a critical section of notifierMutex, or of notifierInitMutex  *)
(* up to the point where it waits.  eventReady together with waitCV is a   *)
(* flag that a waiting thread waits for.                                   *)
(***************************************************************************)
EXTENDS Integers, Sequences, SequencesExt, FiniteSets

CONSTANTS
    Thread,      \* the threads that run Tcl
    Fd,          \* file descriptors
    Condition,   \* TCL_READABLE, TCL_WRITABLE, TCL_EXCEPTION
    Kinds,       \* the waits threads make: "poll", "timed", "forever"
    Spurious,    \* whether condition variables wake spuriously
    Forks,       \* whether threads fork
    ForkAtStart, \* whether one may while another starts the notifier thread
    MaxEvents,   \* bound on the queued events of a descriptor
    None         \* NULL, -1, and the free state of a lock

FileHandler == [mask : SUBSET Condition, readyMask : SUBSET Condition]

ASSUME SelectConstants ==
    /\ IsFiniteSet(Thread) /\ Fd \subseteq Nat
    /\ Kinds \subseteq {"poll", "timed", "forever"}
    /\ {Spurious, Forks, ForkAtStart} \subseteq BOOLEAN
    /\ MaxEvents \in Nat \ {0}
    /\ None \notin Thread \cup FileHandler \cup {"open", "parent"}

VARIABLES
    pc,          \* where a thread is
    kind,        \* the wait it makes, or "hook" if it makes none
    handler,     \* per thread and descriptor: its FileHandler, or None
    checkMasks, numFdBits, readyMasks, pollState, eventReady,
    events,      \* per thread and descriptor: file events in its queue
    waitingList, \* the list at waitingListPtr
    notifierCount, notifierThreadRunning,
    triggerPipe, \* None, "open", or "parent" for the pipe of a parent process
    pipe,        \* the bytes in the pipe: "nul" and "q", each once
    initMutex,   \* holder of notifierInitMutex
    npc,         \* where the notifier thread is
    masks, poll, \* its masks, and whether select gets a zero timeout
    buf,         \* buf[0]: "uninit", "nul" or "q"
    ready        \* the environment: the conditions that hold of descriptors

fileVars   == <<handler, checkMasks, numFdBits, events>>
waitVars   == <<readyMasks, pollState, eventReady, waitingList>>
globalVars == <<notifierCount, notifierThreadRunning, triggerPipe, initMutex>>
procVars   == <<npc, masks, poll, buf>>
vars == <<pc, kind, fileVars, waitVars, globalVars, pipe, procVars, ready>>

Bits == Fd \X Condition
NoHandlers == [f \in Fd |-> None]

Init ==
    /\ pc = [t \in Thread |-> "off"] /\ kind = [t \in Thread |-> "hook"]
    /\ handler = [t \in Thread |-> NoHandlers]
    /\ checkMasks = [t \in Thread |-> {}] /\ numFdBits = [t \in Thread |-> 0]
    /\ events = [t \in Thread |-> [f \in Fd |-> 0]]
    /\ readyMasks = [t \in Thread |-> {}] /\ pollState = [t \in Thread |-> {}]
    /\ eventReady = [t \in Thread |-> FALSE]
    /\ waitingList = <<>> /\ notifierCount = 0
    /\ notifierThreadRunning = FALSE
    /\ triggerPipe = None /\ pipe = {} /\ initMutex = None
    /\ npc = "none" /\ masks = {} /\ poll = FALSE /\ buf = "uninit"
    /\ ready = {}

OnList(t) == \E i \in DOMAIN waitingList : waitingList[i] = t
Registered(f, t) == handler[t][f] # None

(* Mutant: the byte is not written.                                        *)
TriggerNever == UNCHANGED pipe

(* t is unlinked from the list it is on.                                   *)
Unlink(t) == \E i \in DOMAIN waitingList :
    waitingList[i] = t /\ waitingList' = RemoveAt(waitingList, i)

(* A byte written to the trigger pipe; when it is full, EAGAIN is ignored. *)
Trigger == pipe' = IF triggerPipe = "open" THEN pipe \cup {"nul"} ELSE pipe

------------------------------------------------------------------------------
(* A thread's notifier.                                                    *)

TclpInitNotifier(t) ==
    /\ pc[t] = "off" /\ initMutex = None
    /\ pc' = [pc EXCEPT ![t] = "run"]
    /\ eventReady' = [eventReady EXCEPT ![t] = FALSE]
    /\ notifierCount' = notifierCount + 1
    /\ UNCHANGED <<kind, fileVars, readyMasks, pollState, waitingList,
                   notifierThreadRunning, triggerPipe, initMutex, pipe, procVars,
                   ready>>

(* Mutant: bits are only set.                                              *)
NewBitsKept(t, f, m) == checkMasks[t] \cup {<<f, c>> : c \in m}

(* The bits that stay set when those of f are replaced by m.               *)
NewBits(t, f, m) ==
    {x \in checkMasks[t] : x[1] # f} \cup {<<f, c>> : c \in m}

TclpCreateFileHandler(t, f, m) ==
    /\ pc[t] = "run"
    /\ handler' = [handler EXCEPT ![t][f] =
          [mask |-> m, readyMask |-> IF Registered(f, t) THEN handler[t][f].readyMask
                                     ELSE {}]]
    /\ checkMasks' = [checkMasks EXCEPT ![t] = NewBits(t, f, m)]
    /\ numFdBits' = [numFdBits EXCEPT ![t] = IF @ <= f THEN f + 1 ELSE @]
    /\ UNCHANGED <<pc, kind, events, waitVars, globalVars, pipe, procVars, ready>>

(* One more than the highest descriptor below f with a bit, or 0.          *)
HighestBelow(f, bits) ==
    LET used == {g \in Fd : g < f /\ \E x \in bits : x[1] = g} IN
    IF used = {} THEN 0 ELSE 1 + CHOOSE g \in used : \A h \in used : h <= g

TclpDeleteFileHandler(t, f) ==
    /\ pc[t] = "run" /\ Registered(f, t)
    /\ events[t][f] < MaxEvents
    /\ LET bits == NewBits(t, f, {}) IN
       /\ checkMasks' = [checkMasks EXCEPT ![t] = bits]
       /\ numFdBits' = [numFdBits EXCEPT ![t] =
             IF f + 1 = @ THEN HighestBelow(f, bits) ELSE @]
    /\ handler' = [handler EXCEPT ![t][f] = None]
    /\ UNCHANGED <<pc, kind, events, waitVars, globalVars, pipe, procVars, ready>>

(* The handler is called if a condition it still wants was seen; what it   *)
(* does is left to other steps.                                            *)
FileHandlerEventProc(t, f) ==
    /\ pc[t] = "run" /\ events[t][f] > 0
    /\ events' = [events EXCEPT ![t][f] = @ - 1]
    /\ handler' = IF Registered(f, t)
                  THEN [handler EXCEPT ![t][f].readyMask = {}] ELSE handler
    /\ UNCHANGED <<pc, kind, checkMasks, numFdBits, waitVars, globalVars, pipe,
                   procVars, ready>>

(* By any thread, before the notifier of t is finalised.                   *)
TclpAlertNotifier(t) ==
    /\ pc[t] \in {"run", "start", "starting", "enter", "wait"}
    /\ eventReady' = [eventReady EXCEPT ![t] = TRUE]
    /\ UNCHANGED <<pc, kind, fileVars, readyMasks, pollState, waitingList, globalVars,
                   pipe, procVars, ready>>

------------------------------------------------------------------------------
(* Starting the notifier thread.                                           *)

(* TclpServiceModeHook or TclpWaitForEvent: the first test is made without *)
(* a lock.                                                                 *)
StartNotifierThread(t, k) ==
    /\ pc[t] = "run"
    /\ k = "hook" => ~notifierThreadRunning
    /\ kind' = [kind EXCEPT ![t] = k]
    /\ pc' = [pc EXCEPT ![t] = IF notifierThreadRunning THEN "enter" ELSE "start"]
    /\ UNCHANGED <<fileVars, waitVars, globalVars, pipe, procVars, ready>>

Continue(t) == IF kind[t] = "hook" THEN "run" ELSE "enter"

StartLock(t) ==
    /\ pc[t] = "start" /\ initMutex = None
    /\ \/ /\ notifierThreadRunning
          /\ pc' = [pc EXCEPT ![t] = Continue(t)]
          /\ UNCHANGED <<initMutex, npc>>
       \/ /\ ~notifierThreadRunning
          /\ pc' = [pc EXCEPT ![t] = "starting"]
          /\ initMutex' = t /\ npc' = "create"
    /\ UNCHANGED <<kind, fileVars, waitVars, notifierCount, notifierThreadRunning,
                   triggerPipe, pipe, masks, poll, buf, ready>>

Started(t) ==
    /\ pc[t] = "starting" /\ triggerPipe # None
    /\ pc' = [pc EXCEPT ![t] = Continue(t)]
    /\ notifierThreadRunning' = TRUE /\ initMutex' = None
    /\ UNCHANGED <<kind, fileVars, waitVars, notifierCount, triggerPipe, pipe, procVars,
                   ready>>

------------------------------------------------------------------------------
(* TclpWaitForEvent.                                                       *)

WaitForFiles(t) == kind[t] = "poll" \/ numFdBits[t] > 0

Wanted(t) == IF kind[t] = "poll" THEN {"WANT"} ELSE {}

(* With an alert pending, the thread goes on and off the list at once.     *)
EnterWait(t) ==
    /\ pc[t] = "enter"
    /\ pollState' = [pollState EXCEPT ![t] = Wanted(t)]
    /\ readyMasks' = [readyMasks EXCEPT ![t] = {}]
    /\ IF WaitForFiles(t) THEN Trigger ELSE UNCHANGED pipe
    /\ \/ /\ eventReady[t]
          /\ eventReady' = [eventReady EXCEPT ![t] = FALSE]
          /\ pc' = [pc EXCEPT ![t] = "run"] /\ kind' = [kind EXCEPT ![t] = "hook"]
          /\ UNCHANGED waitingList
       \/ /\ ~eventReady[t]
          /\ pc' = [pc EXCEPT ![t] = "wait"]
          /\ waitingList' = IF WaitForFiles(t) THEN <<t>> \o waitingList ELSE waitingList
          /\ UNCHANGED <<eventReady, kind>>
    /\ UNCHANGED <<fileVars, globalVars, procVars, ready>>

Seen(t, f) == {c \in Condition : <<f, c>> \in readyMasks[t]}

(* Mutant: the notifier thread is not told that the list changed.          *)
LeaveTriggerForgotten(t) == UNCHANGED pipe

LeaveTrigger(t) == IF OnList(t) THEN Trigger ELSE UNCHANGED pipe
LeaveList(t) == IF OnList(t) THEN Unlink(t) ELSE UNCHANGED waitingList

(* The thread wakes up, leaves the list and queues its file events; its    *)
(* readyMasks are not used again before they are cleared.                  *)
LeaveWait(t) ==
    /\ pc[t] = "wait"
    /\ eventReady[t] \/ kind[t] = "timed" \/ Spurious
    /\ pc' = [pc EXCEPT ![t] = "run"] /\ kind' = [kind EXCEPT ![t] = "hook"]
    /\ eventReady' = [eventReady EXCEPT ![t] = FALSE]
    /\ readyMasks' = [readyMasks EXCEPT ![t] = {}]
    /\ LeaveList(t) /\ LeaveTrigger(t)
    /\ LET hit == {f \in Fd : Registered(f, t) /\ Seen(t, f) # {}} IN
       /\ events' = [events EXCEPT ![t] = [f \in Fd |->
             IF f \in hit /\ handler[t][f].readyMask = {} THEN @[f] + 1 ELSE @[f]]]
       /\ handler' = [handler EXCEPT ![t] = [f \in Fd |->
             IF f \in hit THEN [@[f] EXCEPT !.readyMask = Seen(t, f)] ELSE @[f]]]
    /\ UNCHANGED <<checkMasks, numFdBits, pollState, globalVars, procVars, ready>>

------------------------------------------------------------------------------
(* The notifier thread.                                                    *)

NotifierStarts ==
    /\ npc = "create"
    /\ triggerPipe' = "open" /\ pipe' = {} /\ buf' = "uninit"
    /\ npc' = "masks"
    /\ UNCHANGED <<pc, kind, fileVars, waitVars, notifierCount, notifierThreadRunning,
                   initMutex, masks, poll, ready>>

(* The bits of a thread below numFdBits: those the notifier thread sees.   *)
BitsOf(t) == {x \in checkMasks[t] : x[1] < numFdBits[t]}

WantsPoll(t) == "WANT" \in pollState[t]

NotifierMasks ==
    /\ npc = "masks"
    /\ masks' = UNION {BitsOf(t) : t \in {u \in Thread : OnList(u)}}
    /\ poll' = \E t \in Thread : OnList(t) /\ WantsPoll(t)
    /\ pollState' = [t \in Thread |-> IF OnList(t) /\ WantsPoll(t)
                                      THEN pollState[t] \cup {"DONE"} ELSE pollState[t]]
    /\ npc' = "select"
    /\ UNCHANGED <<pc, kind, fileVars, readyMasks, eventReady, waitingList, globalVars,
                   pipe, buf, ready>>

(* select returns with the bits that are ready.                            *)
NotifierSelects ==
    /\ npc = "select"
    /\ poll \/ pipe # {} \/ masks \cap ready # {}
    /\ masks' = masks \cap ready
    /\ npc' = "alert"
    /\ UNCHANGED <<pc, kind, fileVars, waitVars, globalVars, pipe, poll, buf, ready>>

(* A signal interrupts select.                                             *)
NotifierInterrupted ==
    /\ npc = "select"
    /\ npc' = "masks" /\ masks' = {} /\ poll' = FALSE
    /\ UNCHANGED <<pc, kind, fileVars, waitVars, globalVars, pipe, buf, ready>>

Alertable(t) == BitsOf(t) \cap masks # {} \/ "DONE" \in pollState[t]

(* Mutant: the waiter is taken off the list but its flag is not set.       *)
AlertSingleThreadUnflagged(t) ==
    /\ UNCHANGED eventReady
    /\ Unlink(t)
    /\ pollState' = [pollState EXCEPT ![t] = {}]

AlertSingleThread(t) ==
    /\ eventReady' = [eventReady EXCEPT ![t] = TRUE]
    /\ Unlink(t)
    /\ pollState' = [pollState EXCEPT ![t] = {}]

(* AlertSingleThread clears nextPtr of the thread it takes off the list,   *)
(* which ends the loop over the list.                                      *)
NotifierAlerts ==
    /\ npc = "alert"
    /\ \/ \E i \in DOMAIN waitingList : LET t == waitingList[i] IN
             /\ Alertable(t)
             /\ \A j \in 1..(i - 1) : ~Alertable(waitingList[j])
             /\ readyMasks' = [readyMasks EXCEPT ![t] = @ \cup (BitsOf(t) \cap masks)]
             /\ AlertSingleThread(t)
       \/ /\ \A i \in DOMAIN waitingList : ~Alertable(waitingList[i])
          /\ UNCHANGED waitVars
    /\ npc' = "read"
    /\ UNCHANGED <<pc, kind, fileVars, globalVars, pipe, masks, poll, buf, ready>>

(* Mutant: "q" is taken for any other byte.                                *)
NotifierReadsOn ==
    /\ npc = "read"
    /\ npc' = "masks" /\ buf' = "nul"
    /\ pipe' = {} /\ masks' = {} /\ poll' = FALSE
    /\ UNCHANGED <<pc, kind, fileVars, waitVars, globalVars, ready>>

(* Everything in the pipe is read, up to a "q".  Then buf is tested, even  *)
(* if nothing was read.                                                    *)
NotifierReads ==
    /\ npc = "read"
    /\ LET last == IF "q" \in pipe THEN "q" ELSE IF pipe # {} THEN "nul" ELSE buf IN
       /\ buf' = last
       /\ \/ last \in {"q", "uninit"} /\ npc' = "exit"
          \/ last \in {"nul", "uninit"} /\ npc' = "masks"
    /\ pipe' = {} /\ masks' = {} /\ poll' = FALSE
    /\ UNCHANGED <<pc, kind, fileVars, waitVars, globalVars, ready>>

NotifierExits ==
    /\ npc = "exit"
    /\ npc' = "none" /\ triggerPipe' = None
    /\ UNCHANGED <<pc, kind, fileVars, waitVars, notifierCount, notifierThreadRunning,
                   initMutex, pipe, masks, poll, buf, ready>>

------------------------------------------------------------------------------
(* Finalisation and fork.                                                  *)

(* The ThreadSpecificData of the threads of S goes with them.              *)
Forget(S) ==
    /\ handler' = [t \in Thread |-> IF t \in S THEN NoHandlers ELSE handler[t]]
    /\ checkMasks' = [t \in Thread |-> IF t \in S THEN {} ELSE checkMasks[t]]
    /\ numFdBits' = [t \in Thread |-> IF t \in S THEN 0 ELSE numFdBits[t]]
    /\ events' = [t \in Thread |-> IF t \in S THEN [f \in Fd |-> 0] ELSE events[t]]

(* Mutant: the notifier thread is stopped by any thread that exits.        *)
LastNotifierAny == triggerPipe # None

LastNotifier == notifierCount = 1 /\ triggerPipe # None

TclpFinalizeNotifier(t) ==
    /\ pc[t] = "run" /\ initMutex = None
    /\ notifierCount' = notifierCount - 1
    /\ \/ /\ LastNotifier
          /\ initMutex' = t /\ pc' = [pc EXCEPT ![t] = "quit"]
          /\ pipe' = IF triggerPipe = "open" THEN pipe \cup {"q"} ELSE pipe
       \/ /\ ~LastNotifier
          /\ pc' = [pc EXCEPT ![t] = "off"]
          /\ UNCHANGED <<initMutex, pipe>>
    /\ Forget({t})
    /\ UNCHANGED <<kind, waitVars, notifierThreadRunning, triggerPipe, procVars, ready>>

(* The pipe is gone and the notifier thread is joined.                     *)
FinalizeJoined(t) ==
    /\ pc[t] = "quit" /\ triggerPipe = None /\ npc = "none"
    /\ pc' = [pc EXCEPT ![t] = "off"]
    /\ notifierThreadRunning' = FALSE /\ initMutex' = None
    /\ UNCHANGED <<kind, fileVars, waitVars, notifierCount, triggerPipe, pipe, procVars,
                   ready>>

ChildCount == 1

(* The child that t forks has no other thread.  It initialises the         *)
(* notifier anew and starts another notifier thread.                       *)
AtForkChild(t) ==
    /\ Forks /\ pc[t] = "run"
    /\ ForkAtStart \/ notifierThreadRunning \/ triggerPipe = None
    /\ pc' = [u \in Thread |-> IF u = t THEN "starting" ELSE "off"]
    /\ kind' = [kind EXCEPT ![t] = "hook"]
    /\ Forget(Thread \ {t})
    /\ eventReady' = [u \in Thread |-> FALSE]
    /\ IF notifierThreadRunning
       THEN triggerPipe' = None /\ waitingList' = <<>>
       ELSE /\ triggerPipe' = IF triggerPipe = None THEN None ELSE "parent"
            /\ UNCHANGED waitingList
    /\ notifierThreadRunning' = FALSE /\ notifierCount' = ChildCount
    /\ initMutex' = t /\ npc' = "create" /\ pipe' = {}
    /\ UNCHANGED <<readyMasks, pollState, masks, poll, buf, ready>>

(* A condition of a descriptor changes.                                    *)
FileChanges(x) ==
    /\ ready' = IF x \in ready THEN ready \ {x} ELSE ready \cup {x}
    /\ UNCHANGED <<pc, kind, fileVars, waitVars, globalVars, pipe, procVars>>

------------------------------------------------------------------------------
ThreadStep(t) ==
    \/ \E f \in Fd, m \in SUBSET Condition : TclpCreateFileHandler(t, f, m)
    \/ \E f \in Fd : TclpDeleteFileHandler(t, f) \/ FileHandlerEventProc(t, f)
    \/ \E k \in Kinds \cup {"hook"} : StartNotifierThread(t, k)
    \/ StartLock(t) \/ Started(t) \/ EnterWait(t) \/ LeaveWait(t)
    \/ TclpInitNotifier(t) \/ TclpFinalizeNotifier(t) \/ FinalizeJoined(t)
    \/ TclpAlertNotifier(t) \/ AtForkChild(t)

NotifierThreadProc ==
    \/ NotifierStarts \/ NotifierMasks \/ NotifierSelects \/ NotifierInterrupted
    \/ NotifierAlerts \/ NotifierReads \/ NotifierExits

Next ==
    \/ \E t \in Thread : ThreadStep(t)
    \/ NotifierThreadProc
    \/ \E x \in Bits : FileChanges(x)

Spec == Init /\ [][Next]_vars

(* The notifier thread and the threads inside TclpWaitForEvent,            *)
(* StartNotifierThread and TclpFinalizeNotifier are scheduled, locks are   *)
(* granted, and signals do not interrupt every select.                     *)
Fairness ==
    /\ WF_vars(NotifierStarts \/ NotifierMasks \/ NotifierAlerts \/ NotifierReads
               \/ NotifierExits)
    /\ SF_vars(NotifierSelects)
    /\ \A t \in Thread :
          /\ WF_vars(Started(t) \/ EnterWait(t) \/ LeaveWait(t) \/ FinalizeJoined(t))
          /\ SF_vars(StartLock(t))

FairSpec == Spec /\ Fairness

------------------------------------------------------------------------------
(* Properties.                                                             *)

(* Every variable stays in its type.                                       *)
TypeOK ==
    /\ pc \in [Thread -> {"off", "run", "start", "starting", "enter", "wait", "quit"}]
    /\ kind \in [Thread -> Kinds \cup {"hook"}]
    /\ handler \in [Thread -> [Fd -> FileHandler \cup {None}]]
    /\ checkMasks \in [Thread -> SUBSET Bits] /\ numFdBits \in [Thread -> Nat]
    /\ readyMasks \in [Thread -> SUBSET Bits]
    /\ pollState \in [Thread -> SUBSET {"WANT", "DONE"}]
    /\ eventReady \in [Thread -> BOOLEAN]
    /\ events \in [Thread -> [Fd -> 0..MaxEvents]]
    /\ waitingList \in Seq(Thread)
    /\ notifierCount = Cardinality({t \in Thread : pc[t] \notin {"off", "quit"}})
    /\ notifierThreadRunning \in BOOLEAN
    /\ triggerPipe \in {None, "open", "parent"} /\ pipe \subseteq {"nul", "q"}
    /\ initMutex \in Thread \cup {None}
    /\ npc \in {"none", "create", "masks", "select", "alert", "read", "exit"}
    /\ masks \subseteq Bits /\ poll \in BOOLEAN /\ buf \in {"uninit", "nul", "q"}
    /\ ready \subseteq Bits

(* What the notifier thread sees of a thread is what its file handlers     *)
(* want, through every change of handlers: the masks are exact and         *)
(* numFdBits covers them.                                                  *)
MasksExact ==
    \A t \in Thread :
       BitsOf(t) = {x \in Bits : Registered(x[1], t) /\ x[2] \in handler[t][x[1]].mask}

(* A thread is on the list once and only while it waits, and one that      *)
(* waits for files is taken off it only with an alert.                     *)
NoWaiterDropped ==
    /\ \A i, j \in DOMAIN waitingList : waitingList[i] = waitingList[j] => i = j
    /\ \A t \in Thread :
          /\ OnList(t) => pc[t] = "wait"
          /\ pc[t] = "wait" /\ WaitForFiles(t) => OnList(t) \/ eventReady[t]

(* Every thread that waits has a notifier thread that will look at the     *)
(* list again, although notifier threads stop and start with the first and *)
(* the last thread.                                                        *)
WaitersHaveNotifier ==
    \A t \in Thread : pc[t] \in {"enter", "wait"} =>
       /\ triggerPipe = "open" /\ notifierThreadRunning
       /\ npc \in {"masks", "select", "alert", "read"} /\ "q" \notin pipe

(* The notifier thread does not sleep in select with masks other than      *)
(* those of the threads on the list, or with a poll unserved: whoever      *)
(* changed the list since has left a byte in the pipe.                     *)
SelectIsCurrent ==
    npc = "select" /\ pipe = {} =>
       /\ masks = UNION {BitsOf(t) : t \in {u \in Thread : OnList(u)}}
       /\ poll \/ \A t \in Thread : OnList(t) => ~WantsPoll(t)

(* A handler with conditions seen has an event in the queue, so that none  *)
(* need be queued for it.                                                  *)
ReadyMeansQueued ==
    \A t \in Thread, f \in Fd :
       Registered(f, t) /\ handler[t][f].readyMask # {} => events[t][f] > 0

(* What select, the notifier thread and the queue know of the file         *)
(* handlers is what the handlers are.                                      *)
FileHandlersExact == MasksExact /\ ReadyMeansQueued

(* A thread waiting for a file that stays ready, or polling, returns,      *)
(* unless other threads return from their waits again and again.           *)
Served(t) ==
    \/ pc[t] # "wait"
    \/ kind[t] # "poll" /\ BitsOf(t) \cap ready = {}

WaiterServed ==
    \A t \in Thread :
       \/ []<><<\E u \in Thread \ {t} : LeaveWait(u)>>_vars
       \/ []<>Served(t)

(* The last thread to finalise its notifier is not left waiting for the    *)
(* notifier thread.                                                        *)
FinalizeEnds == \A t \in Thread : pc[t] = "quit" ~> pc[t] = "off"
=============================================================================
