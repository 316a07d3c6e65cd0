---------------------------- MODULE ReentrantLock ----------------------------
(***************************************************************************)
(* What Tcl_MutexLock, Tcl_MutexUnlock and Tcl_ConditionWait promise: a    *)
(* thread may lock again what it holds, is released by as many unlocks,    *)
(* and waiting for a condition gives up every level and gets all of them   *)
(* back.  No two threads ever hold the lock.                               *)
(***************************************************************************)
EXTENDS Naturals

CONSTANT Thread

VARIABLES
    depth,   \* per thread: locks it has not undone
    aside    \* per thread: the locks it gave up to wait for a condition

vars == <<depth, aside>>

Init ==
    /\ depth = [t \in Thread |-> 0]
    /\ aside = [t \in Thread |-> 0]

FreeFor(t) == \A u \in Thread \ {t} : depth[u] = 0

Lock(t) ==
    /\ FreeFor(t) /\ aside[t] = 0
    /\ depth' = [depth EXCEPT ![t] = depth[t] + 1]
    /\ UNCHANGED aside

Unlock(t) ==
    /\ depth[t] > 0
    /\ depth' = [depth EXCEPT ![t] = depth[t] - 1]
    /\ UNCHANGED aside

Wait(t) ==
    /\ depth[t] > 0
    /\ aside' = [aside EXCEPT ![t] = depth[t]]
    /\ depth' = [depth EXCEPT ![t] = 0]

Wake(t) ==
    /\ FreeFor(t) /\ aside[t] > 0
    /\ depth' = [depth EXCEPT ![t] = aside[t]]
    /\ aside' = [aside EXCEPT ![t] = 0]

Next == \E t \in Thread : Lock(t) \/ Unlock(t) \/ Wait(t) \/ Wake(t)

Spec == Init /\ [][Next]_vars
=============================================================================
