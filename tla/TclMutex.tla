------------------------------ MODULE TclMutex ------------------------------
(***************************************************************************)
(* The re-entrant mutexes and the condition variables of                   *)
(* unix/tclUnixThrd.c: one Tcl_Mutex and one Tcl_Condition, made at their  *)
(* first use.                                                              *)
(*                                                                         *)
(* Three locations are read without a lock: *mutexPtr, *condPtr and the    *)
(* field thread of a mutex.  A racing read returns any value written since *)
(* the reader last wrote the location or met its writer at a lock; the     *)
(* variables ending in View hold these values.  That a pointer is seen     *)
(* only after what it points to is assumed, as x86 guarantees.             *)
(***************************************************************************)
EXTENDS Naturals

CONSTANTS
    Thread,
    Obj,       \* memory that PMutex structures are allocated from
    MaxDepth,  \* bound on the locks a thread holds at once
    NULL, Made

ASSUME MutexConstants ==
    /\ NULL \notin Thread /\ NULL \notin Obj /\ Made # NULL
    /\ MaxDepth \in Nat \ {0}

VARIABLES
    ptr, ptrView,    \* *mutexPtr
    cond, condView,  \* *condPtr: NULL, or Made
    globalLock,      \* its holder, or NULL
    alive,           \* the PMutex structures allocated
    mutex,           \* per structure: who has locked its pthread_mutex_t
    thread, threadView,  \* its field thread
    counter,         \* its field counter: additional locks
    pc,              \* where each thread is
    local,           \* its pmutexPtr
    saved,           \* its copy of the counter in PCondWait
    held             \* the locks its program has taken and not undone

ptrVars  == <<ptr, ptrView, alive>>
condVars == <<cond, condView>>
objVars  == <<mutex, thread, threadView, counter>>
vars == <<ptrVars, condVars, objVars, globalLock, pc, local, saved, held>>

Owners == Thread \cup {NULL}
Ptrs   == Obj \cup {NULL}

Pcs == {"idle", "global", "double", "publish", "compare", "native", "own",
        "release", "cglobal", "cdouble", "csave", "csleep", "asleep", "awake",
        "restore"}

Init ==
    /\ ptr = NULL /\ ptrView = [t \in Thread |-> {NULL}]
    /\ cond = NULL /\ condView = [t \in Thread |-> {NULL}]
    /\ globalLock = NULL /\ alive = {}
    /\ mutex = [o \in Obj |-> NULL]
    /\ thread = [o \in Obj |-> NULL]
    /\ threadView = [o \in Obj |-> [t \in Thread |-> {NULL}]]
    /\ counter = [o \in Obj |-> 0]
    /\ pc = [t \in Thread |-> "idle"]
    /\ local = [t \in Thread |-> NULL]
    /\ saved = [t \in Thread |-> 0]
    /\ held = [t \in Thread |-> 0]

Goto(t, l) == pc' = [pc EXCEPT ![t] = l]

(* What the threads may read after t writes v: t itself reads what it has  *)
(* written, another also what it could read before.                        *)
Seen(view, t, v) == [u \in Thread |-> IF u = t THEN {v} ELSE view[u] \cup {v}]

(* Assigns the field thread of a mutex.                                    *)
SetThread(o, t, v) ==
    /\ thread' = [thread EXCEPT ![o] = v]
    /\ threadView' = [threadView EXCEPT ![o] = Seen(threadView[o], t, v)]

(* Locking the pthread mutex o shows t all that its earlier holders wrote. *)
TakeNative(o, t) ==
    /\ mutex[o] = NULL
    /\ mutex' = [mutex EXCEPT ![o] = t]
    /\ threadView' = [threadView EXCEPT ![o][t] = {thread[o]}]
    /\ condView' = [condView EXCEPT ![t] = {cond}]

------------------------------------------------------------------------------
(* Tcl_MutexLock                                                           *)

(* The first check of *mutexPtr, without a lock.                           *)
Tcl_MutexLock(t) ==
    /\ pc[t] = "idle" /\ held[t] < MaxDepth
    /\ \E p \in ptrView[t] :
          IF p = NULL
          THEN Goto(t, "global") /\ UNCHANGED <<local, ptrView>>
          ELSE /\ Goto(t, "compare")
               /\ local' = [local EXCEPT ![t] = p]
               /\ ptrView' = [ptrView EXCEPT ![t] = {p}]
    /\ UNCHANGED <<ptr, alive, condVars, objVars, globalLock, saved, held>>

LockGlobal(t) ==
    /\ pc[t] = "global" /\ globalLock = NULL
    /\ globalLock' = t
    /\ ptrView' = [ptrView EXCEPT ![t] = {ptr}]
    /\ Goto(t, "double")
    /\ UNCHANGED <<ptr, alive, condVars, objVars, local, saved, held>>

(* The second check, and PMutexInit of a new structure.                    *)
AllocMutex(t) ==
    /\ pc[t] = "double" /\ ptr = NULL
    /\ \E o \in Obj \ alive :
          /\ alive' = alive \cup {o}
          /\ local' = [local EXCEPT ![t] = o]
          /\ mutex' = [mutex EXCEPT ![o] = NULL]
          /\ thread' = [thread EXCEPT ![o] = NULL]
          /\ threadView' = [threadView EXCEPT ![o] = [u \in Thread |-> {NULL}]]
          /\ counter' = [counter EXCEPT ![o] = 0]
    /\ Goto(t, "publish")
    /\ UNCHANGED <<ptr, ptrView, condVars, globalLock, saved, held>>

PublishMutex(t) ==
    /\ pc[t] = "publish"
    /\ ptr' = local[t]
    /\ ptrView' = Seen(ptrView, t, local[t])
    /\ globalLock' = NULL
    /\ Goto(t, "compare")
    /\ UNCHANGED <<alive, condVars, objVars, local, saved, held>>

(* The second check finds that another thread has made the mutex.          *)
FoundMutex(t) ==
    /\ pc[t] = "double" /\ ptr # NULL
    /\ local' = [local EXCEPT ![t] = ptr]
    /\ globalLock' = NULL
    /\ Goto(t, "compare")
    /\ UNCHANGED <<ptrVars, condVars, objVars, saved, held>>

(* PMutexLock compares the field thread, without a lock.                   *)
LockAgain(t) ==
    /\ pc[t] = "compare" /\ t \in threadView[local[t]][t]
    /\ counter' = [counter EXCEPT ![local[t]] = @ + 1]
    /\ held' = [held EXCEPT ![t] = @ + 1]
    /\ Goto(t, "idle")
    /\ UNCHANGED <<ptrVars, condVars, mutex, thread, threadView, globalLock,
                   local, saved>>

LockFirst(t) ==
    /\ pc[t] = "compare" /\ \E v \in threadView[local[t]][t] : v # t
    /\ Goto(t, "native")
    /\ UNCHANGED <<ptrVars, condVars, objVars, globalLock, local, saved, held>>

NativeLock(t) ==
    /\ pc[t] = "native"
    /\ TakeNative(local[t], t)
    /\ Goto(t, "own")
    /\ UNCHANGED <<ptrVars, cond, thread, counter, globalLock, local, saved, held>>

TakeOwnership(t) ==
    /\ pc[t] = "own"
    /\ SetThread(local[t], t, t)
    /\ held' = [held EXCEPT ![t] = @ + 1]
    /\ Goto(t, "idle")
    /\ UNCHANGED <<ptrVars, condVars, mutex, counter, globalLock, local, saved>>

------------------------------------------------------------------------------
(* Tcl_MutexUnlock, called by a program that has locked the mutex          *)

UnlockInner(t) ==
    /\ pc[t] = "idle" /\ held[t] > 0
    /\ \E p \in ptrView[t] :
          /\ p # NULL /\ counter[p] # 0
          /\ local' = [local EXCEPT ![t] = p]
          /\ counter' = [counter EXCEPT ![p] = @ - 1]
    /\ held' = [held EXCEPT ![t] = @ - 1]
    /\ UNCHANGED <<ptrVars, condVars, mutex, thread, threadView, globalLock, pc,
                   saved>>

UnlockOuter(t) ==
    /\ pc[t] = "idle" /\ held[t] > 0
    /\ \E p \in ptrView[t] :
          /\ p # NULL /\ counter[p] = 0
          /\ local' = [local EXCEPT ![t] = p]
          /\ SetThread(p, t, NULL)
    /\ held' = [held EXCEPT ![t] = @ - 1]
    /\ Goto(t, "release")
    /\ UNCHANGED <<ptrVars, condVars, mutex, counter, globalLock, saved>>

NativeUnlock(t) ==
    /\ pc[t] = "release"
    /\ mutex' = [mutex EXCEPT ![local[t]] = NULL]
    /\ Goto(t, "idle")
    /\ UNCHANGED <<ptrVars, condVars, thread, threadView, counter, globalLock,
                   local, saved, held>>

------------------------------------------------------------------------------
(* Tcl_ConditionWait, called by a program that has locked the mutex        *)

Tcl_ConditionWait(t) ==
    /\ pc[t] = "idle" /\ held[t] > 0
    /\ \E c \in condView[t] : Goto(t, IF c = NULL THEN "cglobal" ELSE "csave")
    /\ UNCHANGED <<ptrVars, condVars, objVars, globalLock, local, saved, held>>

LockGlobalForCond(t) ==
    /\ pc[t] = "cglobal" /\ globalLock = NULL
    /\ globalLock' = t
    /\ condView' = [condView EXCEPT ![t] = {cond}]
    /\ Goto(t, "cdouble")
    /\ UNCHANGED <<ptrVars, cond, objVars, local, saved, held>>

MakeCondition(t) ==
    /\ pc[t] = "cdouble"
    /\ cond' = Made
    /\ condView' = IF cond = NULL THEN Seen(condView, t, Made) ELSE condView
    /\ globalLock' = NULL
    /\ Goto(t, "csave")
    /\ UNCHANGED <<ptrVars, objVars, local, saved, held>>

(* A mutant of SaveCounter: the counter is left to the next owner.         *)
SaveKeepsCounter(t) ==
    /\ pc[t] = "csave"
    /\ \E p \in ptrView[t] \ {NULL} :
          /\ local' = [local EXCEPT ![t] = p]
          /\ saved' = [saved EXCEPT ![t] = counter[p]]
          /\ SetThread(p, t, NULL)
    /\ Goto(t, "csleep")
    /\ UNCHANGED <<ptrVars, condVars, mutex, counter, globalLock, held>>

(* PCondWait and PCondTimedWait set the levels aside ...                   *)
SaveCounter(t) ==
    /\ pc[t] = "csave"
    /\ \E p \in ptrView[t] \ {NULL} :
          /\ local' = [local EXCEPT ![t] = p]
          /\ saved' = [saved EXCEPT ![t] = counter[p]]
          /\ counter' = [counter EXCEPT ![p] = 0]
          /\ SetThread(p, t, NULL)
    /\ Goto(t, "csleep")
    /\ UNCHANGED <<ptrVars, condVars, mutex, globalLock, held>>

(* ... unlock and sleep in one step (pthread_cond_wait) ...                *)
Sleep(t) ==
    /\ pc[t] = "csleep"
    /\ mutex' = [mutex EXCEPT ![local[t]] = NULL]
    /\ Goto(t, "asleep")
    /\ UNCHANGED <<ptrVars, condVars, thread, threadView, counter, globalLock,
                   local, saved, held>>

(* ... until a notification, a timeout or a spurious wakeup ...            *)
WakeUnasked(t) ==
    /\ pc[t] = "asleep"
    /\ Goto(t, "awake")
    /\ UNCHANGED <<ptrVars, condVars, objVars, globalLock, local, saved, held>>

Reacquire(t) ==
    /\ pc[t] = "awake"
    /\ TakeNative(local[t], t)
    /\ Goto(t, "restore")
    /\ UNCHANGED <<ptrVars, cond, thread, counter, globalLock, local, saved, held>>

(* ... and take them back.                                                 *)
RestoreCounter(t) ==
    /\ pc[t] = "restore"
    /\ SetThread(local[t], t, t)
    /\ counter' = [counter EXCEPT ![local[t]] = saved[t]]
    /\ Goto(t, "idle")
    /\ UNCHANGED <<ptrVars, condVars, mutex, globalLock, local, saved, held>>

(* A mutant of Tcl_ConditionNotify: pthread_cond_signal wakes one thread.  *)
NotifyOne(t) ==
    /\ pc[t] = "idle"
    /\ \E c \in condView[t], u \in Thread :
          /\ pc[u] = "asleep" /\ c # NULL
          /\ Goto(u, "awake")
    /\ UNCHANGED <<ptrVars, condVars, objVars, globalLock, local, saved, held>>

(* Whether or not the caller holds the mutex.                              *)
Tcl_ConditionNotify(t) ==
    /\ pc[t] = "idle"
    /\ \E c \in condView[t] :
          pc' = [u \in Thread |->
                   IF c # NULL /\ pc[u] = "asleep" THEN "awake" ELSE pc[u]]
    /\ UNCHANGED <<ptrVars, condVars, objVars, globalLock, local, saved, held>>

------------------------------------------------------------------------------
(* TclpFinalizeMutex and TclpFinalizeCondition: the caller makes sure that *)
(* nobody uses the mutex, and that all threads know it is gone.            *)
Tcl_MutexFinalize ==
    /\ ptr # NULL /\ \A t \in Thread : pc[t] = "idle" /\ held[t] = 0
    /\ alive' = alive \ {ptr}
    /\ ptr' = NULL /\ ptrView' = [t \in Thread |-> {NULL}]
    /\ UNCHANGED <<condVars, objVars, globalLock, pc, local, saved, held>>

Tcl_ConditionFinalize ==
    /\ cond # NULL /\ \A t \in Thread : pc[t] = "idle" /\ held[t] = 0
    /\ cond' = NULL /\ condView' = [t \in Thread |-> {NULL}]
    /\ UNCHANGED <<ptrVars, objVars, globalLock, pc, local, saved, held>>

LockStep(t) ==
    \/ Tcl_MutexLock(t) \/ LockGlobal(t) \/ AllocMutex(t) \/ PublishMutex(t)
    \/ FoundMutex(t) \/ LockAgain(t) \/ LockFirst(t) \/ NativeLock(t)
    \/ TakeOwnership(t)

UnlockStep(t) == UnlockInner(t) \/ UnlockOuter(t) \/ NativeUnlock(t)

WaitStep(t) ==
    \/ Tcl_ConditionWait(t) \/ LockGlobalForCond(t) \/ MakeCondition(t)
    \/ SaveCounter(t) \/ Sleep(t) \/ WakeUnasked(t) \/ Reacquire(t)
    \/ RestoreCounter(t)

Next ==
    \/ \E t \in Thread :
          LockStep(t) \/ UnlockStep(t) \/ WaitStep(t) \/ Tcl_ConditionNotify(t)
    \/ Tcl_MutexFinalize
    \/ Tcl_ConditionFinalize

Spec == Init /\ [][Next]_vars

------------------------------------------------------------------------------
(* Properties                                                              *)

TypeOK ==
    /\ ptr \in Ptrs /\ ptrView \in [Thread -> SUBSET Ptrs]
    /\ cond \in {NULL, Made} /\ condView \in [Thread -> SUBSET {NULL, Made}]
    /\ globalLock \in Owners /\ alive \in SUBSET Obj
    /\ mutex \in [Obj -> Owners] /\ thread \in [Obj -> Owners]
    /\ threadView \in [Obj -> [Thread -> SUBSET Owners]]
    /\ counter \in [Obj -> Nat]
    /\ pc \in [Thread -> Pcs] /\ local \in [Thread -> Ptrs]
    /\ saved \in [Thread -> Nat] /\ held \in [Thread -> Nat]

(* The levels of locking that the structure records for a thread; between  *)
(* SaveCounter and RestoreCounter they are in its local variable.          *)
Depth(t) ==
    IF ptr = NULL THEN 0
    ELSE IF mutex[ptr] # t THEN 0
    ELSE IF pc[t] \in {"csleep", "restore"} THEN saved[t] + 1
    ELSE counter[ptr] + 1

Aside(t) == IF pc[t] \in {"asleep", "awake"} THEN saved[t] + 1 ELSE 0

(* The mutex is a re-entrant lock, although two threads may make it at the *)
(* same time and read its owner without a lock.                            *)
Abstract == INSTANCE ReentrantLock WITH
                depth <- [t \in Thread |-> Depth(t)],
                aside <- [t \in Thread |-> Aside(t)]

ImplementsReentrantLock == Abstract!Spec

(* Whenever a thread is outside these procedures, the structure counts as  *)
(* many locks as its program has taken: none is lost or gained by nesting, *)
(* by waiting, or by making the mutex twice.                               *)
CountExact == \A t \in Thread : pc[t] = "idle" => Depth(t) = held[t]

(* The assertions of PMutexUnlock and PCondWait (the caller is the owner)  *)
(* and of PMutexDestroy (nobody is).                                       *)
AssertsHold ==
    /\ \A t \in Thread : pc[t] \in {"idle", "csave"} /\ held[t] > 0 =>
          ptr # NULL /\ thread[ptr] = t
    /\ ptr # NULL /\ (\A t \in Thread : pc[t] = "idle" /\ held[t] = 0) =>
          thread[ptr] = NULL /\ counter[ptr] = 0

(* A thread that notifies while it holds the mutex leaves nobody asleep:   *)
(* it cannot miss that the condition variable has been made.               *)
NoMissedNotify ==
    [][\A t \in Thread :
         Tcl_ConditionNotify(t) /\ held[t] > 0 =>
           \A u \in Thread : pc'[u] # "asleep"]_vars
=============================================================================
