-------------------------- MODULE TclMutex_proofs --------------------------
(***************************************************************************)
(* Proofs about TclMutex, for any number of threads and any depth.         *)
(* A thread reads its own name from the field thread exactly if it owns    *)
(* the mutex, since nobody else ever writes that name: this makes the      *)
(* comparison without the lock safe (OwnerInv).  It rests on there being   *)
(* one structure at a time, which every user has found (PtrInv).           *)
(***************************************************************************)
EXTENDS TclMutex, TLAPS

(* Threads that have read *mutexPtr and use what it points to.             *)
Using == {"compare", "native", "own", "release", "csleep", "asleep", "awake",
          "restore"}

(* Threads that hold the pthread mutex and are not named in the structure. *)
Unnamed == {"own", "release", "csleep", "restore"}

(* There is at most one structure, and no user can miss it.                *)
PtrInv ==
    /\ \A t \in Thread : ptrView[t] \subseteq {NULL, ptr}
    /\ \A t \in Thread : held[t] > 0 \/ pc[t] \in Using =>
          ptr # NULL /\ ptrView[t] = {ptr}
    /\ \A t \in Thread : pc[t] \in Using => local[t] = ptr
    /\ \A t \in Thread : pc[t] \in {"double", "publish", "cdouble"} <=> globalLock = t
    /\ \A t \in Thread : pc[t] = "double" => ptrView[t] = {ptr}

(* A structure that is about to be published is initialised.               *)
FreshInv ==
    \A t \in Thread : pc[t] = "publish" =>
       /\ ptr = NULL /\ local[t] \in Obj
       /\ mutex[local[t]] = NULL /\ thread[local[t]] = NULL
       /\ counter[local[t]] = 0
       /\ threadView[local[t]] = [u \in Thread |-> {NULL}]

(* Who holds the pthread mutex, whom the structure names, and what threads *)
(* can read of it.                                                         *)
OwnerInv ==
    ptr # NULL =>
      /\ \A t \in Thread : mutex[ptr] = t <=>
            \/ pc[t] \in Unnamed
            \/ held[t] > 0 /\ pc[t] \notin {"asleep", "awake"}
      /\ \A t \in Thread : thread[ptr] = t <=> mutex[ptr] = t /\ pc[t] \notin Unnamed
      /\ \A t \in Thread : thread[ptr] = t => threadView[ptr][t] = {t}
      /\ \A t \in Thread : thread[ptr] # t => t \notin threadView[ptr][t]

(* Where the levels of locking are counted.                                *)
LevelInv ==
    /\ \A t \in Thread : pc[t] \in {"native", "own", "release", "global",
                                    "double", "publish"} => held[t] = 0
    /\ \A t \in Thread : pc[t] \in {"csleep", "asleep", "awake", "restore"} =>
          held[t] = saved[t] + 1
    /\ \A t \in Thread : pc[t] \in {"cglobal", "cdouble", "csave"} => held[t] > 0
    /\ ptr # NULL =>
         /\ \A t \in Thread : thread[ptr] = t => held[t] = counter[ptr] + 1
         /\ thread[ptr] = NULL => counter[ptr] = 0

(* Whoever holds the mutex while a thread sleeps has locked it since, and  *)
(* so knows that the condition variable exists.                            *)
CondInv ==
    /\ \A t \in Thread : condView[t] \subseteq {NULL, cond}
    /\ \A t \in Thread : pc[t] \in {"csave", "csleep", "asleep"} => cond = Made
    /\ \A t, u \in Thread :
          pc[u] = "asleep" /\ ptr # NULL /\ mutex[ptr] = t => condView[t] = {Made}

(* The inductive invariant.                                                *)
IInv == TypeOK /\ PtrInv /\ FreshInv /\ OwnerInv /\ LevelInv /\ CondInv

------------------------------------------------------------------------------
LEMMA InitIInv == Init => IInv
  BY MutexConstants
  DEF Init, IInv, TypeOK, PtrInv, FreshInv, OwnerInv, LevelInv, CondInv, Ptrs,
      Owners, Pcs, Using, Unnamed

(* Every step keeps the types.                                             *)
LEMMA TypeStep ==
  ASSUME IInv, [Next]_vars
  PROVE  TypeOK'
<1> USE MutexConstants DEF TypeOK, PtrInv, FreshInv, LevelInv, IInv, Ptrs, Owners, Pcs, Using
<1>1. ASSUME NEW t \in Thread, Tcl_MutexLock(t) PROVE TypeOK'
  <2>1. CASE NULL \in ptrView[t] /\ Goto(t, "global") /\ UNCHANGED <<local, ptrView>>
    BY <1>1, <2>1 DEF Tcl_MutexLock, Goto, vars, ptrVars, condVars, objVars
  <2>2. ASSUME NEW p \in ptrView[t], p # NULL, Goto(t, "compare"),
               local' = [local EXCEPT ![t] = p],
               ptrView' = [ptrView EXCEPT ![t] = {p}]
        PROVE  TypeOK'
    <3>1. p = ptr
      BY <2>2
    <3> QED
      BY <1>1, <2>2, <3>1 DEF Tcl_MutexLock, Goto, vars, ptrVars, condVars, objVars
  <2> QED
    BY <1>1, <2>1, <2>2 DEF Tcl_MutexLock
<1>2. ASSUME NEW t \in Thread, LockGlobal(t) PROVE TypeOK'
  BY <1>2 DEF LockGlobal, Goto, vars, ptrVars, condVars, objVars
<1>3. ASSUME NEW t \in Thread, AllocMutex(t) PROVE TypeOK'
  BY <1>3 DEF AllocMutex, Goto, vars, ptrVars, condVars, objVars
<1>4. ASSUME NEW t \in Thread, PublishMutex(t) PROVE TypeOK'
  BY <1>4 DEF PublishMutex, Goto, Seen, vars, ptrVars, condVars, objVars
<1>5. ASSUME NEW t \in Thread, FoundMutex(t) PROVE TypeOK'
  BY <1>5 DEF FoundMutex, Goto, vars, ptrVars, condVars, objVars
<1>6. ASSUME NEW t \in Thread, LockAgain(t) PROVE TypeOK'
  BY <1>6 DEF LockAgain, Goto, vars, ptrVars, condVars, objVars
<1>7. ASSUME NEW t \in Thread, LockFirst(t) PROVE TypeOK'
  BY <1>7 DEF LockFirst, Goto, vars, ptrVars, condVars, objVars
<1>8. ASSUME NEW t \in Thread, NativeLock(t) PROVE TypeOK'
  BY <1>8 DEF NativeLock, Goto, TakeNative, vars, ptrVars, condVars, objVars
<1>9. ASSUME NEW t \in Thread, TakeOwnership(t) PROVE TypeOK'
  BY <1>9 DEF TakeOwnership, Goto, SetThread, Seen, vars, ptrVars, condVars,
      objVars
<1>10. ASSUME NEW t \in Thread, UnlockInner(t) PROVE TypeOK'
  <2>1. ptrView[t] = {ptr} /\ ptr # NULL
    BY <1>10 DEF UnlockInner
  <2>2. /\ counter' = [counter EXCEPT ![ptr] = counter[ptr] - 1] /\ counter[ptr] # 0
        /\ local' = [local EXCEPT ![t] = ptr]
    BY <1>10, <2>1 DEF UnlockInner
  <2> QED
    BY <1>10, <2>1, <2>2 DEF UnlockInner, vars, ptrVars, condVars, objVars
<1>11. ASSUME NEW t \in Thread, UnlockOuter(t) PROVE TypeOK'
  <2>1. ptrView[t] = {ptr} /\ ptr # NULL
    BY <1>11 DEF UnlockOuter
  <2>2. /\ SetThread(ptr, t, NULL) /\ counter[ptr] = 0
        /\ local' = [local EXCEPT ![t] = ptr]
    BY <1>11, <2>1 DEF UnlockOuter
  <2> QED
    BY <1>11, <2>1, <2>2 DEF UnlockOuter, Goto, SetThread, Seen, vars, ptrVars, condVars, objVars
<1>12. ASSUME NEW t \in Thread, NativeUnlock(t) PROVE TypeOK'
  BY <1>12 DEF NativeUnlock, Goto, vars, ptrVars, condVars, objVars
<1>13. ASSUME NEW t \in Thread, Tcl_ConditionWait(t) PROVE TypeOK'
  BY <1>13 DEF Tcl_ConditionWait, Goto, vars, ptrVars, condVars, objVars
<1>14. ASSUME NEW t \in Thread, LockGlobalForCond(t) PROVE TypeOK'
  BY <1>14 DEF LockGlobalForCond, Goto, vars, ptrVars, condVars, objVars
<1>15. ASSUME NEW t \in Thread, MakeCondition(t) PROVE TypeOK'
  BY <1>15 DEF MakeCondition, Goto, Seen, vars, ptrVars, condVars, objVars
<1>16. ASSUME NEW t \in Thread, SaveCounter(t) PROVE TypeOK'
  <2>1. ptrView[t] = {ptr} /\ ptr # NULL
    BY <1>16 DEF SaveCounter
  <2>2. /\ SetThread(ptr, t, NULL) /\ counter' = [counter EXCEPT ![ptr] = 0]
        /\ local' = [local EXCEPT ![t] = ptr]
        /\ saved' = [saved EXCEPT ![t] = counter[ptr]]
    BY <1>16, <2>1 DEF SaveCounter
  <2> QED
    BY <1>16, <2>1, <2>2 DEF SaveCounter, Goto, SetThread, Seen, vars, ptrVars, condVars, objVars
<1>17. ASSUME NEW t \in Thread, Sleep(t) PROVE TypeOK'
  BY <1>17 DEF Sleep, Goto, vars, ptrVars, condVars, objVars
<1>18. ASSUME NEW t \in Thread, WakeUnasked(t) PROVE TypeOK'
  BY <1>18 DEF WakeUnasked, Goto, vars, ptrVars, condVars, objVars
<1>19. ASSUME NEW t \in Thread, Reacquire(t) PROVE TypeOK'
  BY <1>19 DEF Reacquire, Goto, TakeNative, vars, ptrVars, condVars, objVars
<1>20. ASSUME NEW t \in Thread, RestoreCounter(t) PROVE TypeOK'
  BY <1>20 DEF RestoreCounter, Goto, SetThread, Seen, vars, ptrVars, condVars,
      objVars
<1>21. ASSUME NEW t \in Thread, Tcl_ConditionNotify(t) PROVE TypeOK'
  BY <1>21 DEF Tcl_ConditionNotify, vars, ptrVars, condVars, objVars
<1>22. CASE Tcl_MutexFinalize
  BY <1>22 DEF Tcl_MutexFinalize, vars, ptrVars, condVars, objVars
<1>23. CASE Tcl_ConditionFinalize
  BY <1>23 DEF Tcl_ConditionFinalize, vars, ptrVars, condVars, objVars
<1>24. CASE UNCHANGED vars
  BY <1>24 DEF vars, ptrVars, condVars, objVars
<1> QED
  BY <1>1, <1>2, <1>3, <1>4, <1>5, <1>6, <1>7, <1>8, <1>9, <1>10, <1>11,
      <1>12, <1>13, <1>14, <1>15, <1>16, <1>17, <1>18, <1>19, <1>20, <1>21,
      <1>22, <1>23, <1>24 DEF Next, LockStep, UnlockStep, WaitStep

(* Every step keeps the structure unique and found.                        *)
LEMMA PtrStep ==
  ASSUME IInv, [Next]_vars
  PROVE  PtrInv'
<1> USE MutexConstants DEF TypeOK, PtrInv, FreshInv, LevelInv, IInv, Ptrs, Owners, Pcs, Using
<1>1. ASSUME NEW t \in Thread, Tcl_MutexLock(t) PROVE PtrInv'
  <2>1. CASE NULL \in ptrView[t] /\ Goto(t, "global") /\ UNCHANGED <<local, ptrView>>
    BY <1>1, <2>1 DEF Tcl_MutexLock, Goto, vars, ptrVars, condVars, objVars
  <2>2. ASSUME NEW p \in ptrView[t], p # NULL, Goto(t, "compare"),
               local' = [local EXCEPT ![t] = p],
               ptrView' = [ptrView EXCEPT ![t] = {p}]
        PROVE  PtrInv'
    <3>1. p = ptr
      BY <2>2
    <3> QED
      BY <1>1, <2>2, <3>1 DEF Tcl_MutexLock, Goto, vars, ptrVars, condVars, objVars
  <2> QED
    BY <1>1, <2>1, <2>2 DEF Tcl_MutexLock
<1>2. ASSUME NEW t \in Thread, LockGlobal(t) PROVE PtrInv'
  BY <1>2 DEF LockGlobal, Goto, vars, ptrVars, condVars, objVars
<1>3. ASSUME NEW t \in Thread, AllocMutex(t) PROVE PtrInv'
  BY <1>3 DEF AllocMutex, Goto, vars, ptrVars, condVars, objVars
<1>4. ASSUME NEW t \in Thread, PublishMutex(t) PROVE PtrInv'
  BY <1>4 DEF PublishMutex, Goto, Seen, vars, ptrVars, condVars, objVars
<1>5. ASSUME NEW t \in Thread, FoundMutex(t) PROVE PtrInv'
  BY <1>5 DEF FoundMutex, Goto, vars, ptrVars, condVars, objVars
<1>6. ASSUME NEW t \in Thread, LockAgain(t) PROVE PtrInv'
  BY <1>6 DEF LockAgain, Goto, vars, ptrVars, condVars, objVars
<1>7. ASSUME NEW t \in Thread, LockFirst(t) PROVE PtrInv'
  BY <1>7 DEF LockFirst, Goto, vars, ptrVars, condVars, objVars
<1>8. ASSUME NEW t \in Thread, NativeLock(t) PROVE PtrInv'
  BY <1>8 DEF NativeLock, Goto, TakeNative, vars, ptrVars, condVars, objVars
<1>9. ASSUME NEW t \in Thread, TakeOwnership(t) PROVE PtrInv'
  BY <1>9 DEF TakeOwnership, Goto, SetThread, Seen, vars, ptrVars, condVars,
      objVars
<1>10. ASSUME NEW t \in Thread, UnlockInner(t) PROVE PtrInv'
  <2>1. ptrView[t] = {ptr} /\ ptr # NULL
    BY <1>10 DEF UnlockInner
  <2>2. /\ counter' = [counter EXCEPT ![ptr] = counter[ptr] - 1] /\ counter[ptr] # 0
        /\ local' = [local EXCEPT ![t] = ptr]
    BY <1>10, <2>1 DEF UnlockInner
  <2> QED
    BY <1>10, <2>1, <2>2 DEF UnlockInner, vars, ptrVars, condVars, objVars
<1>11. ASSUME NEW t \in Thread, UnlockOuter(t) PROVE PtrInv'
  <2>1. ptrView[t] = {ptr} /\ ptr # NULL
    BY <1>11 DEF UnlockOuter
  <2>2. /\ SetThread(ptr, t, NULL) /\ counter[ptr] = 0
        /\ local' = [local EXCEPT ![t] = ptr]
    BY <1>11, <2>1 DEF UnlockOuter
  <2> QED
    BY <1>11, <2>1, <2>2 DEF UnlockOuter, Goto, SetThread, Seen, vars, ptrVars, condVars, objVars
<1>12. ASSUME NEW t \in Thread, NativeUnlock(t) PROVE PtrInv'
  BY <1>12 DEF NativeUnlock, Goto, vars, ptrVars, condVars, objVars
<1>13. ASSUME NEW t \in Thread, Tcl_ConditionWait(t) PROVE PtrInv'
  BY <1>13 DEF Tcl_ConditionWait, Goto, vars, ptrVars, condVars, objVars
<1>14. ASSUME NEW t \in Thread, LockGlobalForCond(t) PROVE PtrInv'
  BY <1>14 DEF LockGlobalForCond, Goto, vars, ptrVars, condVars, objVars
<1>15. ASSUME NEW t \in Thread, MakeCondition(t) PROVE PtrInv'
  BY <1>15 DEF MakeCondition, Goto, Seen, vars, ptrVars, condVars, objVars
<1>16. ASSUME NEW t \in Thread, SaveCounter(t) PROVE PtrInv'
  <2>1. ptrView[t] = {ptr} /\ ptr # NULL
    BY <1>16 DEF SaveCounter
  <2>2. /\ SetThread(ptr, t, NULL) /\ counter' = [counter EXCEPT ![ptr] = 0]
        /\ local' = [local EXCEPT ![t] = ptr]
        /\ saved' = [saved EXCEPT ![t] = counter[ptr]]
    BY <1>16, <2>1 DEF SaveCounter
  <2> QED
    BY <1>16, <2>1, <2>2 DEF SaveCounter, Goto, SetThread, Seen, vars, ptrVars, condVars, objVars
<1>17. ASSUME NEW t \in Thread, Sleep(t) PROVE PtrInv'
  BY <1>17 DEF Sleep, Goto, vars, ptrVars, condVars, objVars
<1>18. ASSUME NEW t \in Thread, WakeUnasked(t) PROVE PtrInv'
  BY <1>18 DEF WakeUnasked, Goto, vars, ptrVars, condVars, objVars
<1>19. ASSUME NEW t \in Thread, Reacquire(t) PROVE PtrInv'
  BY <1>19 DEF Reacquire, Goto, TakeNative, vars, ptrVars, condVars, objVars
<1>20. ASSUME NEW t \in Thread, RestoreCounter(t) PROVE PtrInv'
  BY <1>20 DEF RestoreCounter, Goto, SetThread, Seen, vars, ptrVars, condVars,
      objVars
<1>21. ASSUME NEW t \in Thread, Tcl_ConditionNotify(t) PROVE PtrInv'
  BY <1>21 DEF Tcl_ConditionNotify, vars, ptrVars, condVars, objVars
<1>22. CASE Tcl_MutexFinalize
  BY <1>22 DEF Tcl_MutexFinalize, vars, ptrVars, condVars, objVars
<1>23. CASE Tcl_ConditionFinalize
  BY <1>23 DEF Tcl_ConditionFinalize, vars, ptrVars, condVars, objVars
<1>24. CASE UNCHANGED vars
  BY <1>24 DEF vars, ptrVars, condVars, objVars
<1> QED
  BY <1>1, <1>2, <1>3, <1>4, <1>5, <1>6, <1>7, <1>8, <1>9, <1>10, <1>11,
      <1>12, <1>13, <1>14, <1>15, <1>16, <1>17, <1>18, <1>19, <1>20, <1>21,
      <1>22, <1>23, <1>24 DEF Next, LockStep, UnlockStep, WaitStep

(* A structure is initialised before it is published.                      *)
LEMMA FreshStep ==
  ASSUME IInv, [Next]_vars
  PROVE  FreshInv'
<1> USE MutexConstants DEF TypeOK, PtrInv, FreshInv, LevelInv, IInv, Ptrs, Owners, Pcs, Using
<1>1. ASSUME NEW t \in Thread, Tcl_MutexLock(t) PROVE FreshInv'
  <2>1. CASE NULL \in ptrView[t] /\ Goto(t, "global") /\ UNCHANGED <<local, ptrView>>
    BY <1>1, <2>1 DEF Tcl_MutexLock, Goto, vars, ptrVars, condVars, objVars
  <2>2. ASSUME NEW p \in ptrView[t], p # NULL, Goto(t, "compare"),
               local' = [local EXCEPT ![t] = p],
               ptrView' = [ptrView EXCEPT ![t] = {p}]
        PROVE  FreshInv'
    <3>1. p = ptr
      BY <2>2
    <3> QED
      BY <1>1, <2>2, <3>1 DEF Tcl_MutexLock, Goto, vars, ptrVars, condVars, objVars
  <2> QED
    BY <1>1, <2>1, <2>2 DEF Tcl_MutexLock
<1>2. ASSUME NEW t \in Thread, LockGlobal(t) PROVE FreshInv'
  BY <1>2 DEF LockGlobal, Goto, vars, ptrVars, condVars, objVars
<1>3. ASSUME NEW t \in Thread, AllocMutex(t) PROVE FreshInv'
  BY <1>3 DEF AllocMutex, Goto, vars, ptrVars, condVars, objVars
<1>4. ASSUME NEW t \in Thread, PublishMutex(t) PROVE FreshInv'
  BY <1>4 DEF PublishMutex, Goto, Seen, vars, ptrVars, condVars, objVars
<1>5. ASSUME NEW t \in Thread, FoundMutex(t) PROVE FreshInv'
  BY <1>5 DEF FoundMutex, Goto, vars, ptrVars, condVars, objVars
<1>6. ASSUME NEW t \in Thread, LockAgain(t) PROVE FreshInv'
  BY <1>6 DEF LockAgain, Goto, vars, ptrVars, condVars, objVars
<1>7. ASSUME NEW t \in Thread, LockFirst(t) PROVE FreshInv'
  BY <1>7 DEF LockFirst, Goto, vars, ptrVars, condVars, objVars
<1>8. ASSUME NEW t \in Thread, NativeLock(t) PROVE FreshInv'
  BY <1>8 DEF NativeLock, Goto, TakeNative, vars, ptrVars, condVars, objVars
<1>9. ASSUME NEW t \in Thread, TakeOwnership(t) PROVE FreshInv'
  BY <1>9 DEF TakeOwnership, Goto, SetThread, Seen, vars, ptrVars, condVars,
      objVars
<1>10. ASSUME NEW t \in Thread, UnlockInner(t) PROVE FreshInv'
  <2>1. ptrView[t] = {ptr} /\ ptr # NULL
    BY <1>10 DEF UnlockInner
  <2>2. /\ counter' = [counter EXCEPT ![ptr] = counter[ptr] - 1] /\ counter[ptr] # 0
        /\ local' = [local EXCEPT ![t] = ptr]
    BY <1>10, <2>1 DEF UnlockInner
  <2> QED
    BY <1>10, <2>1, <2>2 DEF UnlockInner, vars, ptrVars, condVars, objVars
<1>11. ASSUME NEW t \in Thread, UnlockOuter(t) PROVE FreshInv'
  <2>1. ptrView[t] = {ptr} /\ ptr # NULL
    BY <1>11 DEF UnlockOuter
  <2>2. /\ SetThread(ptr, t, NULL) /\ counter[ptr] = 0
        /\ local' = [local EXCEPT ![t] = ptr]
    BY <1>11, <2>1 DEF UnlockOuter
  <2> QED
    BY <1>11, <2>1, <2>2 DEF UnlockOuter, Goto, SetThread, Seen, vars, ptrVars, condVars, objVars
<1>12. ASSUME NEW t \in Thread, NativeUnlock(t) PROVE FreshInv'
  BY <1>12 DEF NativeUnlock, Goto, vars, ptrVars, condVars, objVars
<1>13. ASSUME NEW t \in Thread, Tcl_ConditionWait(t) PROVE FreshInv'
  BY <1>13 DEF Tcl_ConditionWait, Goto, vars, ptrVars, condVars, objVars
<1>14. ASSUME NEW t \in Thread, LockGlobalForCond(t) PROVE FreshInv'
  BY <1>14 DEF LockGlobalForCond, Goto, vars, ptrVars, condVars, objVars
<1>15. ASSUME NEW t \in Thread, MakeCondition(t) PROVE FreshInv'
  BY <1>15 DEF MakeCondition, Goto, Seen, vars, ptrVars, condVars, objVars
<1>16. ASSUME NEW t \in Thread, SaveCounter(t) PROVE FreshInv'
  <2>1. ptrView[t] = {ptr} /\ ptr # NULL
    BY <1>16 DEF SaveCounter
  <2>2. /\ SetThread(ptr, t, NULL) /\ counter' = [counter EXCEPT ![ptr] = 0]
        /\ local' = [local EXCEPT ![t] = ptr]
        /\ saved' = [saved EXCEPT ![t] = counter[ptr]]
    BY <1>16, <2>1 DEF SaveCounter
  <2> QED
    BY <1>16, <2>1, <2>2 DEF SaveCounter, Goto, SetThread, Seen, vars, ptrVars, condVars, objVars
<1>17. ASSUME NEW t \in Thread, Sleep(t) PROVE FreshInv'
  BY <1>17 DEF Sleep, Goto, vars, ptrVars, condVars, objVars
<1>18. ASSUME NEW t \in Thread, WakeUnasked(t) PROVE FreshInv'
  BY <1>18 DEF WakeUnasked, Goto, vars, ptrVars, condVars, objVars
<1>19. ASSUME NEW t \in Thread, Reacquire(t) PROVE FreshInv'
  BY <1>19 DEF Reacquire, Goto, TakeNative, vars, ptrVars, condVars, objVars
<1>20. ASSUME NEW t \in Thread, RestoreCounter(t) PROVE FreshInv'
  BY <1>20 DEF RestoreCounter, Goto, SetThread, Seen, vars, ptrVars, condVars,
      objVars
<1>21. ASSUME NEW t \in Thread, Tcl_ConditionNotify(t) PROVE FreshInv'
  <2>1. \A u \in Thread : pc'[u] = "publish" => pc[u] = "publish"
    BY <1>21 DEF Tcl_ConditionNotify
  <2> QED
    BY <1>21, <2>1 DEF Tcl_ConditionNotify, vars, ptrVars, condVars, objVars
<1>22. CASE Tcl_MutexFinalize
  BY <1>22 DEF Tcl_MutexFinalize, vars, ptrVars, condVars, objVars
<1>23. CASE Tcl_ConditionFinalize
  BY <1>23 DEF Tcl_ConditionFinalize, vars, ptrVars, condVars, objVars
<1>24. CASE UNCHANGED vars
  BY <1>24 DEF vars, ptrVars, condVars, objVars
<1> QED
  BY <1>1, <1>2, <1>3, <1>4, <1>5, <1>6, <1>7, <1>8, <1>9, <1>10, <1>11,
      <1>12, <1>13, <1>14, <1>15, <1>16, <1>17, <1>18, <1>19, <1>20, <1>21,
      <1>22, <1>23, <1>24 DEF Next, LockStep, UnlockStep, WaitStep

(* Every step keeps the owner exact, and its name readable by it alone.    *)
LEMMA OwnerStep ==
  ASSUME IInv, [Next]_vars
  PROVE  OwnerInv'
<1> USE MutexConstants DEF TypeOK, PtrInv, FreshInv, OwnerInv, LevelInv, IInv, Ptrs,
        Owners, Pcs, Using, Unnamed
<1>1. ASSUME NEW t \in Thread, Tcl_MutexLock(t) PROVE OwnerInv'
  <2>1. CASE NULL \in ptrView[t] /\ Goto(t, "global") /\ UNCHANGED <<local, ptrView>>
    BY <1>1, <2>1 DEF Tcl_MutexLock, Goto, vars, ptrVars, condVars, objVars
  <2>2. ASSUME NEW p \in ptrView[t], p # NULL, Goto(t, "compare"),
               local' = [local EXCEPT ![t] = p],
               ptrView' = [ptrView EXCEPT ![t] = {p}]
        PROVE  OwnerInv'
    <3>1. p = ptr
      BY <2>2
    <3> QED
      BY <1>1, <2>2, <3>1 DEF Tcl_MutexLock, Goto, vars, ptrVars, condVars, objVars
  <2> QED
    BY <1>1, <2>1, <2>2 DEF Tcl_MutexLock
<1>2. ASSUME NEW t \in Thread, LockGlobal(t) PROVE OwnerInv'
  BY <1>2 DEF LockGlobal, Goto, vars, ptrVars, condVars, objVars
<1>3. ASSUME NEW t \in Thread, AllocMutex(t) PROVE OwnerInv'
  BY <1>3 DEF AllocMutex, Goto, vars, ptrVars, condVars, objVars
<1>4. ASSUME NEW t \in Thread, PublishMutex(t) PROVE OwnerInv'
  BY <1>4 DEF PublishMutex, Goto, Seen, vars, ptrVars, condVars, objVars
<1>5. ASSUME NEW t \in Thread, FoundMutex(t) PROVE OwnerInv'
  BY <1>5 DEF FoundMutex, Goto, vars, ptrVars, condVars, objVars
<1>6. ASSUME NEW t \in Thread, LockAgain(t) PROVE OwnerInv'
  BY <1>6 DEF LockAgain, Goto, vars, ptrVars, condVars, objVars
<1>7. ASSUME NEW t \in Thread, LockFirst(t) PROVE OwnerInv'
  BY <1>7 DEF LockFirst, Goto, vars, ptrVars, condVars, objVars
<1>8. ASSUME NEW t \in Thread, NativeLock(t) PROVE OwnerInv'
  BY <1>8 DEF NativeLock, Goto, TakeNative, vars, ptrVars, condVars, objVars
<1>9. ASSUME NEW t \in Thread, TakeOwnership(t) PROVE OwnerInv'
  BY <1>9 DEF TakeOwnership, Goto, SetThread, Seen, vars, ptrVars, condVars,
      objVars
<1>10. ASSUME NEW t \in Thread, UnlockInner(t) PROVE OwnerInv'
  <2>1. ptrView[t] = {ptr} /\ ptr # NULL
    BY <1>10 DEF UnlockInner
  <2>2. /\ counter' = [counter EXCEPT ![ptr] = counter[ptr] - 1] /\ counter[ptr] # 0
        /\ local' = [local EXCEPT ![t] = ptr]
    BY <1>10, <2>1 DEF UnlockInner
  <2>3. mutex[ptr] = t /\ thread[ptr] = t /\ held[t] > 0
    BY <1>10, <2>1 DEF UnlockInner
  <2> QED
    BY <1>10, <2>1, <2>2, <2>3 DEF UnlockInner, vars, ptrVars, condVars, objVars
<1>11. ASSUME NEW t \in Thread, UnlockOuter(t) PROVE OwnerInv'
  <2>1. ptrView[t] = {ptr} /\ ptr # NULL
    BY <1>11 DEF UnlockOuter
  <2>2. /\ SetThread(ptr, t, NULL) /\ counter[ptr] = 0
        /\ local' = [local EXCEPT ![t] = ptr]
    BY <1>11, <2>1 DEF UnlockOuter
  <2>3. mutex[ptr] = t /\ thread[ptr] = t /\ held[t] > 0
    BY <1>11, <2>1 DEF UnlockOuter
  <2> QED
    BY <1>11, <2>1, <2>2, <2>3 DEF UnlockOuter, Goto, SetThread, Seen, vars, ptrVars, condVars, objVars
<1>12. ASSUME NEW t \in Thread, NativeUnlock(t) PROVE OwnerInv'
  BY <1>12 DEF NativeUnlock, Goto, vars, ptrVars, condVars, objVars
<1>13. ASSUME NEW t \in Thread, Tcl_ConditionWait(t) PROVE OwnerInv'
  BY <1>13 DEF Tcl_ConditionWait, Goto, vars, ptrVars, condVars, objVars
<1>14. ASSUME NEW t \in Thread, LockGlobalForCond(t) PROVE OwnerInv'
  BY <1>14 DEF LockGlobalForCond, Goto, vars, ptrVars, condVars, objVars
<1>15. ASSUME NEW t \in Thread, MakeCondition(t) PROVE OwnerInv'
  BY <1>15 DEF MakeCondition, Goto, Seen, vars, ptrVars, condVars, objVars
<1>16. ASSUME NEW t \in Thread, SaveCounter(t) PROVE OwnerInv'
  <2>1. ptrView[t] = {ptr} /\ ptr # NULL
    BY <1>16 DEF SaveCounter
  <2>2. /\ SetThread(ptr, t, NULL) /\ counter' = [counter EXCEPT ![ptr] = 0]
        /\ local' = [local EXCEPT ![t] = ptr]
        /\ saved' = [saved EXCEPT ![t] = counter[ptr]]
    BY <1>16, <2>1 DEF SaveCounter
  <2>3. mutex[ptr] = t /\ thread[ptr] = t /\ held[t] > 0
    BY <1>16, <2>1 DEF SaveCounter
  <2> QED
    BY <1>16, <2>1, <2>2, <2>3 DEF SaveCounter, Goto, SetThread, Seen, vars, ptrVars, condVars, objVars
<1>17. ASSUME NEW t \in Thread, Sleep(t) PROVE OwnerInv'
  BY <1>17 DEF Sleep, Goto, vars, ptrVars, condVars, objVars
<1>18. ASSUME NEW t \in Thread, WakeUnasked(t) PROVE OwnerInv'
  BY <1>18 DEF WakeUnasked, Goto, vars, ptrVars, condVars, objVars
<1>19. ASSUME NEW t \in Thread, Reacquire(t) PROVE OwnerInv'
  BY <1>19 DEF Reacquire, Goto, TakeNative, vars, ptrVars, condVars, objVars
<1>20. ASSUME NEW t \in Thread, RestoreCounter(t) PROVE OwnerInv'
  BY <1>20 DEF RestoreCounter, Goto, SetThread, Seen, vars, ptrVars, condVars,
      objVars
<1>21. ASSUME NEW t \in Thread, Tcl_ConditionNotify(t) PROVE OwnerInv'
  BY <1>21 DEF Tcl_ConditionNotify, vars, ptrVars, condVars, objVars
<1>22. CASE Tcl_MutexFinalize
  BY <1>22 DEF Tcl_MutexFinalize, vars, ptrVars, condVars, objVars
<1>23. CASE Tcl_ConditionFinalize
  BY <1>23 DEF Tcl_ConditionFinalize, vars, ptrVars, condVars, objVars
<1>24. CASE UNCHANGED vars
  BY <1>24 DEF vars, ptrVars, condVars, objVars
<1> QED
  BY <1>1, <1>2, <1>3, <1>4, <1>5, <1>6, <1>7, <1>8, <1>9, <1>10, <1>11,
      <1>12, <1>13, <1>14, <1>15, <1>16, <1>17, <1>18, <1>19, <1>20, <1>21,
      <1>22, <1>23, <1>24 DEF Next, LockStep, UnlockStep, WaitStep

(* Every step keeps the levels exact.                                      *)
LEMMA LevelStep ==
  ASSUME IInv, [Next]_vars
  PROVE  LevelInv'
<1> USE MutexConstants DEF TypeOK, PtrInv, FreshInv, OwnerInv, LevelInv, IInv, Ptrs,
        Owners, Pcs, Using, Unnamed
<1>1. ASSUME NEW t \in Thread, Tcl_MutexLock(t) PROVE LevelInv'
  <2>1. CASE NULL \in ptrView[t] /\ Goto(t, "global") /\ UNCHANGED <<local, ptrView>>
    BY <1>1, <2>1 DEF Tcl_MutexLock, Goto, vars, ptrVars, condVars, objVars
  <2>2. ASSUME NEW p \in ptrView[t], p # NULL, Goto(t, "compare"),
               local' = [local EXCEPT ![t] = p],
               ptrView' = [ptrView EXCEPT ![t] = {p}]
        PROVE  LevelInv'
    <3>1. p = ptr
      BY <2>2
    <3> QED
      BY <1>1, <2>2, <3>1 DEF Tcl_MutexLock, Goto, vars, ptrVars, condVars, objVars
  <2> QED
    BY <1>1, <2>1, <2>2 DEF Tcl_MutexLock
<1>2. ASSUME NEW t \in Thread, LockGlobal(t) PROVE LevelInv'
  BY <1>2 DEF LockGlobal, Goto, vars, ptrVars, condVars, objVars
<1>3. ASSUME NEW t \in Thread, AllocMutex(t) PROVE LevelInv'
  BY <1>3 DEF AllocMutex, Goto, vars, ptrVars, condVars, objVars
<1>4. ASSUME NEW t \in Thread, PublishMutex(t) PROVE LevelInv'
  BY <1>4 DEF PublishMutex, Goto, Seen, vars, ptrVars, condVars, objVars
<1>5. ASSUME NEW t \in Thread, FoundMutex(t) PROVE LevelInv'
  BY <1>5 DEF FoundMutex, Goto, vars, ptrVars, condVars, objVars
<1>6. ASSUME NEW t \in Thread, LockAgain(t) PROVE LevelInv'
  BY <1>6 DEF LockAgain, Goto, vars, ptrVars, condVars, objVars
<1>7. ASSUME NEW t \in Thread, LockFirst(t) PROVE LevelInv'
  BY <1>7 DEF LockFirst, Goto, vars, ptrVars, condVars, objVars
<1>8. ASSUME NEW t \in Thread, NativeLock(t) PROVE LevelInv'
  BY <1>8 DEF NativeLock, Goto, TakeNative, vars, ptrVars, condVars, objVars
<1>9. ASSUME NEW t \in Thread, TakeOwnership(t) PROVE LevelInv'
  BY <1>9 DEF TakeOwnership, Goto, SetThread, Seen, vars, ptrVars, condVars,
      objVars
<1>10. ASSUME NEW t \in Thread, UnlockInner(t) PROVE LevelInv'
  <2>1. ptrView[t] = {ptr} /\ ptr # NULL
    BY <1>10 DEF UnlockInner
  <2>2. /\ counter' = [counter EXCEPT ![ptr] = counter[ptr] - 1] /\ counter[ptr] # 0
        /\ local' = [local EXCEPT ![t] = ptr]
    BY <1>10, <2>1 DEF UnlockInner
  <2>3. mutex[ptr] = t /\ thread[ptr] = t /\ held[t] > 0
    BY <1>10, <2>1 DEF UnlockInner
  <2> QED
    BY <1>10, <2>1, <2>2, <2>3 DEF UnlockInner, vars, ptrVars, condVars, objVars
<1>11. ASSUME NEW t \in Thread, UnlockOuter(t) PROVE LevelInv'
  <2>1. ptrView[t] = {ptr} /\ ptr # NULL
    BY <1>11 DEF UnlockOuter
  <2>2. /\ SetThread(ptr, t, NULL) /\ counter[ptr] = 0
        /\ local' = [local EXCEPT ![t] = ptr]
    BY <1>11, <2>1 DEF UnlockOuter
  <2>3. mutex[ptr] = t /\ thread[ptr] = t /\ held[t] > 0
    BY <1>11, <2>1 DEF UnlockOuter
  <2> QED
    BY <1>11, <2>1, <2>2, <2>3 DEF UnlockOuter, Goto, SetThread, Seen, vars, ptrVars, condVars, objVars
<1>12. ASSUME NEW t \in Thread, NativeUnlock(t) PROVE LevelInv'
  BY <1>12 DEF NativeUnlock, Goto, vars, ptrVars, condVars, objVars
<1>13. ASSUME NEW t \in Thread, Tcl_ConditionWait(t) PROVE LevelInv'
  BY <1>13 DEF Tcl_ConditionWait, Goto, vars, ptrVars, condVars, objVars
<1>14. ASSUME NEW t \in Thread, LockGlobalForCond(t) PROVE LevelInv'
  BY <1>14 DEF LockGlobalForCond, Goto, vars, ptrVars, condVars, objVars
<1>15. ASSUME NEW t \in Thread, MakeCondition(t) PROVE LevelInv'
  BY <1>15 DEF MakeCondition, Goto, Seen, vars, ptrVars, condVars, objVars
<1>16. ASSUME NEW t \in Thread, SaveCounter(t) PROVE LevelInv'
  <2>1. ptrView[t] = {ptr} /\ ptr # NULL
    BY <1>16 DEF SaveCounter
  <2>2. /\ SetThread(ptr, t, NULL) /\ counter' = [counter EXCEPT ![ptr] = 0]
        /\ local' = [local EXCEPT ![t] = ptr]
        /\ saved' = [saved EXCEPT ![t] = counter[ptr]]
    BY <1>16, <2>1 DEF SaveCounter
  <2>3. mutex[ptr] = t /\ thread[ptr] = t /\ held[t] > 0
    BY <1>16, <2>1 DEF SaveCounter
  <2> QED
    BY <1>16, <2>1, <2>2, <2>3 DEF SaveCounter, Goto, SetThread, Seen, vars, ptrVars, condVars, objVars
<1>17. ASSUME NEW t \in Thread, Sleep(t) PROVE LevelInv'
  BY <1>17 DEF Sleep, Goto, vars, ptrVars, condVars, objVars
<1>18. ASSUME NEW t \in Thread, WakeUnasked(t) PROVE LevelInv'
  BY <1>18 DEF WakeUnasked, Goto, vars, ptrVars, condVars, objVars
<1>19. ASSUME NEW t \in Thread, Reacquire(t) PROVE LevelInv'
  BY <1>19 DEF Reacquire, Goto, TakeNative, vars, ptrVars, condVars, objVars
<1>20. ASSUME NEW t \in Thread, RestoreCounter(t) PROVE LevelInv'
  BY <1>20 DEF RestoreCounter, Goto, SetThread, Seen, vars, ptrVars, condVars,
      objVars
<1>21. ASSUME NEW t \in Thread, Tcl_ConditionNotify(t) PROVE LevelInv'
  BY <1>21 DEF Tcl_ConditionNotify, vars, ptrVars, condVars, objVars
<1>22. CASE Tcl_MutexFinalize
  BY <1>22 DEF Tcl_MutexFinalize, vars, ptrVars, condVars, objVars
<1>23. CASE Tcl_ConditionFinalize
  BY <1>23 DEF Tcl_ConditionFinalize, vars, ptrVars, condVars, objVars
<1>24. CASE UNCHANGED vars
  BY <1>24 DEF vars, ptrVars, condVars, objVars
<1> QED
  BY <1>1, <1>2, <1>3, <1>4, <1>5, <1>6, <1>7, <1>8, <1>9, <1>10, <1>11,
      <1>12, <1>13, <1>14, <1>15, <1>16, <1>17, <1>18, <1>19, <1>20, <1>21,
      <1>22, <1>23, <1>24 DEF Next, LockStep, UnlockStep, WaitStep

(* Every step keeps what the threads know of the condition variable.       *)
LEMMA CondStep ==
  ASSUME IInv, [Next]_vars
  PROVE  CondInv'
<1> USE MutexConstants DEF TypeOK, PtrInv, FreshInv, OwnerInv, LevelInv, CondInv, IInv,
        Ptrs, Owners, Pcs, Using, Unnamed
<1>1. ASSUME NEW t \in Thread, Tcl_MutexLock(t) PROVE CondInv'
  <2>1. CASE NULL \in ptrView[t] /\ Goto(t, "global") /\ UNCHANGED <<local, ptrView>>
    BY <1>1, <2>1 DEF Tcl_MutexLock, Goto, vars, ptrVars, condVars, objVars
  <2>2. ASSUME NEW p \in ptrView[t], p # NULL, Goto(t, "compare"),
               local' = [local EXCEPT ![t] = p],
               ptrView' = [ptrView EXCEPT ![t] = {p}]
        PROVE  CondInv'
    <3>1. p = ptr
      BY <2>2
    <3> QED
      BY <1>1, <2>2, <3>1 DEF Tcl_MutexLock, Goto, vars, ptrVars, condVars, objVars
  <2> QED
    BY <1>1, <2>1, <2>2 DEF Tcl_MutexLock
<1>2. ASSUME NEW t \in Thread, LockGlobal(t) PROVE CondInv'
  BY <1>2 DEF LockGlobal, Goto, vars, ptrVars, condVars, objVars
<1>3. ASSUME NEW t \in Thread, AllocMutex(t) PROVE CondInv'
  BY <1>3 DEF AllocMutex, Goto, vars, ptrVars, condVars, objVars
<1>4. ASSUME NEW t \in Thread, PublishMutex(t) PROVE CondInv'
  BY <1>4 DEF PublishMutex, Goto, Seen, vars, ptrVars, condVars, objVars
<1>5. ASSUME NEW t \in Thread, FoundMutex(t) PROVE CondInv'
  BY <1>5 DEF FoundMutex, Goto, vars, ptrVars, condVars, objVars
<1>6. ASSUME NEW t \in Thread, LockAgain(t) PROVE CondInv'
  BY <1>6 DEF LockAgain, Goto, vars, ptrVars, condVars, objVars
<1>7. ASSUME NEW t \in Thread, LockFirst(t) PROVE CondInv'
  BY <1>7 DEF LockFirst, Goto, vars, ptrVars, condVars, objVars
<1>8. ASSUME NEW t \in Thread, NativeLock(t) PROVE CondInv'
  BY <1>8 DEF NativeLock, Goto, TakeNative, vars, ptrVars, condVars, objVars
<1>9. ASSUME NEW t \in Thread, TakeOwnership(t) PROVE CondInv'
  BY <1>9 DEF TakeOwnership, Goto, SetThread, Seen, vars, ptrVars, condVars,
      objVars
<1>10. ASSUME NEW t \in Thread, UnlockInner(t) PROVE CondInv'
  <2>1. ptrView[t] = {ptr} /\ ptr # NULL
    BY <1>10 DEF UnlockInner
  <2>2. /\ counter' = [counter EXCEPT ![ptr] = counter[ptr] - 1] /\ counter[ptr] # 0
        /\ local' = [local EXCEPT ![t] = ptr]
    BY <1>10, <2>1 DEF UnlockInner
  <2> QED
    BY <1>10, <2>1, <2>2 DEF UnlockInner, vars, ptrVars, condVars, objVars
<1>11. ASSUME NEW t \in Thread, UnlockOuter(t) PROVE CondInv'
  <2>1. ptrView[t] = {ptr} /\ ptr # NULL
    BY <1>11 DEF UnlockOuter
  <2>2. /\ SetThread(ptr, t, NULL) /\ counter[ptr] = 0
        /\ local' = [local EXCEPT ![t] = ptr]
    BY <1>11, <2>1 DEF UnlockOuter
  <2> QED
    BY <1>11, <2>1, <2>2 DEF UnlockOuter, Goto, SetThread, Seen, vars, ptrVars, condVars, objVars
<1>12. ASSUME NEW t \in Thread, NativeUnlock(t) PROVE CondInv'
  BY <1>12 DEF NativeUnlock, Goto, vars, ptrVars, condVars, objVars
<1>13. ASSUME NEW t \in Thread, Tcl_ConditionWait(t) PROVE CondInv'
  BY <1>13 DEF Tcl_ConditionWait, Goto, vars, ptrVars, condVars, objVars
<1>14. ASSUME NEW t \in Thread, LockGlobalForCond(t) PROVE CondInv'
  BY <1>14 DEF LockGlobalForCond, Goto, vars, ptrVars, condVars, objVars
<1>15. ASSUME NEW t \in Thread, MakeCondition(t) PROVE CondInv'
  BY <1>15 DEF MakeCondition, Goto, Seen, vars, ptrVars, condVars, objVars
<1>16. ASSUME NEW t \in Thread, SaveCounter(t) PROVE CondInv'
  <2>1. ptrView[t] = {ptr} /\ ptr # NULL
    BY <1>16 DEF SaveCounter
  <2>2. /\ SetThread(ptr, t, NULL) /\ counter' = [counter EXCEPT ![ptr] = 0]
        /\ local' = [local EXCEPT ![t] = ptr]
        /\ saved' = [saved EXCEPT ![t] = counter[ptr]]
    BY <1>16, <2>1 DEF SaveCounter
  <2> QED
    BY <1>16, <2>1, <2>2 DEF SaveCounter, Goto, SetThread, Seen, vars, ptrVars, condVars, objVars
<1>17. ASSUME NEW t \in Thread, Sleep(t) PROVE CondInv'
  BY <1>17 DEF Sleep, Goto, vars, ptrVars, condVars, objVars
<1>18. ASSUME NEW t \in Thread, WakeUnasked(t) PROVE CondInv'
  BY <1>18 DEF WakeUnasked, Goto, vars, ptrVars, condVars, objVars
<1>19. ASSUME NEW t \in Thread, Reacquire(t) PROVE CondInv'
  BY <1>19 DEF Reacquire, Goto, TakeNative, vars, ptrVars, condVars, objVars
<1>20. ASSUME NEW t \in Thread, RestoreCounter(t) PROVE CondInv'
  BY <1>20 DEF RestoreCounter, Goto, SetThread, Seen, vars, ptrVars, condVars,
      objVars
<1>21. ASSUME NEW t \in Thread, Tcl_ConditionNotify(t) PROVE CondInv'
  BY <1>21 DEF Tcl_ConditionNotify, vars, ptrVars, condVars, objVars
<1>22. CASE Tcl_MutexFinalize
  BY <1>22 DEF Tcl_MutexFinalize, vars, ptrVars, condVars, objVars
<1>23. CASE Tcl_ConditionFinalize
  BY <1>23 DEF Tcl_ConditionFinalize, vars, ptrVars, condVars, objVars
<1>24. CASE UNCHANGED vars
  BY <1>24 DEF vars, ptrVars, condVars, objVars
<1> QED
  BY <1>1, <1>2, <1>3, <1>4, <1>5, <1>6, <1>7, <1>8, <1>9, <1>10, <1>11,
      <1>12, <1>13, <1>14, <1>15, <1>16, <1>17, <1>18, <1>19, <1>20, <1>21,
      <1>22, <1>23, <1>24 DEF Next, LockStep, UnlockStep, WaitStep

(* Spec keeps the inductive invariant.                                     *)
THEOREM Invariance == Spec => []IInv
<1>1. IInv /\ [Next]_vars => IInv'
  BY TypeStep, PtrStep, FreshStep, OwnerStep, LevelStep, CondStep DEF IInv
<1> QED
  BY <1>1, InitIInv, PTL DEF Spec

(* The count of the structure is the count of the program, for any number  *)
(* of threads and any depth of nesting.                                    *)
THEOREM CountIsExact == Spec => []CountExact
<1>1. IInv => CountExact
  BY MutexConstants
  DEF IInv, TypeOK, PtrInv, OwnerInv, LevelInv, CountExact, Depth, Using, Unnamed,
      Owners, Ptrs
<1> QED
  BY <1>1, Invariance, PTL

(* No assertion of PMutexUnlock, PCondWait or PMutexDestroy fails.         *)
THEOREM AssertionsHold == Spec => []AssertsHold
<1>1. IInv => AssertsHold
  BY MutexConstants
  DEF IInv, TypeOK, PtrInv, OwnerInv, LevelInv, AssertsHold, Using, Unnamed,
      Owners, Ptrs
<1> QED
  BY <1>1, Invariance, PTL

(* A notification by the holder of the mutex reaches every sleeper.        *)
THEOREM NotifyMissesNobody == Spec => NoMissedNotify
<1>1. ASSUME IInv, NEW t \in Thread, Tcl_ConditionNotify(t), held[t] > 0,
             NEW u \in Thread
      PROVE  pc'[u] # "asleep"
  <2>1. ptr # NULL /\ mutex[ptr] = t
    BY <1>1 DEF IInv, PtrInv, OwnerInv, Tcl_ConditionNotify
  <2>2. pc[u] = "asleep" => condView[t] = {Made}
    BY <1>1, <2>1 DEF IInv, CondInv
  <2> QED
    BY <1>1, <2>2, MutexConstants DEF Tcl_ConditionNotify
<1>2. IInv => [\A t \in Thread :
                 Tcl_ConditionNotify(t) /\ held[t] > 0 =>
                   \A u \in Thread : pc'[u] # "asleep"]_vars
  BY <1>1
<1> QED
  BY <1>2, Invariance, PTL DEF NoMissedNotify

------------------------------------------------------------------------------
(* Steps that neither take nor give up a level.                            *)
LEMMA SilentSteps ==
  ASSUME IInv, IInv', NEW t \in Thread,
         \/ Tcl_MutexLock(t) \/ LockGlobal(t) \/ AllocMutex(t) \/ PublishMutex(t)
         \/ FoundMutex(t) \/ LockFirst(t) \/ TakeOwnership(t) \/ UnlockOuter(t)
         \/ Tcl_ConditionWait(t) \/ LockGlobalForCond(t) \/ MakeCondition(t)
         \/ SaveCounter(t) \/ WakeUnasked(t) \/ RestoreCounter(t)
         \/ Tcl_ConditionNotify(t)
  PROVE  \A u \in Thread : Depth(u)' = Depth(u) /\ Aside(u)' = Aside(u)
<1> USE MutexConstants DEF IInv, TypeOK, PtrInv, FreshInv, OwnerInv, LevelInv, Ptrs,
        Owners, Pcs, Using, Unnamed, Depth, Aside
<1>1. CASE Tcl_MutexLock(t)
  <2>1. \A u \in Thread : pc[u] \in {"csleep", "restore", "asleep", "awake"} <=>
                              pc'[u] \in {"csleep", "restore", "asleep", "awake"}
    BY <1>1 DEF Tcl_MutexLock, Goto
  <2> QED
    BY <1>1, <2>1 DEF Tcl_MutexLock, Goto, vars, ptrVars, condVars, objVars
<1>2. CASE LockGlobal(t)
  BY <1>2 DEF LockGlobal, Goto, vars, ptrVars, condVars, objVars
<1>3. CASE AllocMutex(t)
  BY <1>3 DEF AllocMutex, Goto, vars, ptrVars, condVars, objVars
<1>4. CASE PublishMutex(t)
  BY <1>4 DEF PublishMutex, Goto, Seen, vars, ptrVars, condVars, objVars
<1>5. CASE FoundMutex(t)
  BY <1>5 DEF FoundMutex, Goto, vars, ptrVars, condVars, objVars
<1>6. CASE LockFirst(t)
  BY <1>6 DEF LockFirst, Goto, vars, ptrVars, condVars, objVars
<1>7. CASE TakeOwnership(t)
  BY <1>7 DEF TakeOwnership, Goto, SetThread, Seen, vars, ptrVars, condVars,
      objVars
<1>8. CASE UnlockOuter(t)
  <2>1. ptrView[t] = {ptr} /\ ptr # NULL
    BY <1>8 DEF UnlockOuter
  <2>2. /\ SetThread(ptr, t, NULL) /\ counter[ptr] = 0
        /\ local' = [local EXCEPT ![t] = ptr]
    BY <1>8, <2>1 DEF UnlockOuter
  <2>3. mutex[ptr] = t /\ thread[ptr] = t /\ held[t] > 0
    BY <1>8, <2>1 DEF UnlockOuter
  <2> QED
    BY <1>8, <2>1, <2>2, <2>3 DEF UnlockOuter, Goto, SetThread, Seen, vars, ptrVars, condVars, objVars
<1>9. CASE Tcl_ConditionWait(t)
  BY <1>9 DEF Tcl_ConditionWait, Goto, vars, ptrVars, condVars, objVars
<1>10. CASE LockGlobalForCond(t)
  BY <1>10 DEF LockGlobalForCond, Goto, vars, ptrVars, condVars, objVars
<1>11. CASE MakeCondition(t)
  BY <1>11 DEF MakeCondition, Goto, Seen, vars, ptrVars, condVars, objVars
<1>12. CASE SaveCounter(t)
  <2>1. ptrView[t] = {ptr} /\ ptr # NULL
    BY <1>12 DEF SaveCounter
  <2>2. /\ SetThread(ptr, t, NULL) /\ counter' = [counter EXCEPT ![ptr] = 0]
        /\ local' = [local EXCEPT ![t] = ptr]
        /\ saved' = [saved EXCEPT ![t] = counter[ptr]]
    BY <1>12, <2>1 DEF SaveCounter
  <2>3. mutex[ptr] = t /\ thread[ptr] = t /\ held[t] > 0
    BY <1>12, <2>1 DEF SaveCounter
  <2> QED
    BY <1>12, <2>1, <2>2, <2>3 DEF SaveCounter, Goto, SetThread, Seen, vars, ptrVars, condVars, objVars
<1>13. CASE WakeUnasked(t)
  BY <1>13 DEF WakeUnasked, Goto, vars, ptrVars, condVars, objVars
<1>14. CASE RestoreCounter(t)
  BY <1>14 DEF RestoreCounter, Goto, SetThread, Seen, vars, ptrVars, condVars,
      objVars
<1>15. CASE Tcl_ConditionNotify(t)
  BY <1>15 DEF Tcl_ConditionNotify, vars, ptrVars, condVars, objVars
<1> QED
  BY <1>1, <1>2, <1>3, <1>4, <1>5, <1>6, <1>7, <1>8, <1>9, <1>10, <1>11,
      <1>12, <1>13, <1>14, <1>15

(* The mutex of tclUnixThrd.c is a re-entrant lock: every step of it is a  *)
(* step of ReentrantLock, or changes nothing there.                        *)
THEOREM Refinement == Spec => ImplementsReentrantLock
<1>1. Init => Abstract!Init
  BY DEF Init, Abstract!Init, Depth, Aside
<1>2. IInv /\ IInv' /\ [Next]_vars => [Abstract!Next]_(Abstract!vars)
  <2> SUFFICES ASSUME IInv, IInv', [Next]_vars
               PROVE  [Abstract!Next]_(Abstract!vars)
    OBVIOUS
  <2> USE MutexConstants
  <2>1. ASSUME NEW t \in Thread, NativeLock(t) PROVE Abstract!Lock(t)
    <3>1. \A u \in Thread : Depth(u)' = IF u = t THEN Depth(t) + 1 ELSE Depth(u)
      BY <2>1 DEF NativeLock, Goto, TakeNative, ptrVars, condVars, objVars, IInv, TypeOK, PtrInv,
         OwnerInv, LevelInv, Ptrs, Owners, Pcs, Using, Unnamed, Depth, Aside
    <3>2. \A u \in Thread : Aside(u)' = Aside(u)
      BY <2>1 DEF NativeLock, Goto, TakeNative, ptrVars, condVars, objVars, IInv, TypeOK, PtrInv,
         OwnerInv, LevelInv, Ptrs, Owners, Pcs, Using, Unnamed, Depth, Aside
    <3>3. (\A u \in Thread \ {t} : Depth(u) = 0) /\ Aside(t) = 0
      BY <2>1 DEF NativeLock, Goto, TakeNative, IInv, TypeOK, PtrInv,
         OwnerInv, LevelInv, Ptrs, Owners, Pcs, Using, Unnamed, Depth, Aside
    <3> QED
      BY <3>1, <3>2, <3>3 DEF Abstract!Lock, Abstract!FreeFor
  <2>2. ASSUME NEW t \in Thread, LockAgain(t) PROVE Abstract!Lock(t)
    <3>1. \A u \in Thread : Depth(u)' = IF u = t THEN Depth(t) + 1 ELSE Depth(u)
      BY <2>2 DEF LockAgain, Goto, ptrVars, condVars, objVars, IInv, TypeOK, PtrInv,
         OwnerInv, LevelInv, Ptrs, Owners, Pcs, Using, Unnamed, Depth, Aside
    <3>2. \A u \in Thread : Aside(u)' = Aside(u)
      BY <2>2 DEF LockAgain, Goto, ptrVars, condVars, objVars, IInv, TypeOK, PtrInv,
         OwnerInv, LevelInv, Ptrs, Owners, Pcs, Using, Unnamed, Depth, Aside
    <3>3. (\A u \in Thread \ {t} : Depth(u) = 0) /\ Aside(t) = 0
      BY <2>2 DEF LockAgain, Goto, IInv, TypeOK, PtrInv,
         OwnerInv, LevelInv, Ptrs, Owners, Pcs, Using, Unnamed, Depth, Aside
    <3> QED
      BY <3>1, <3>2, <3>3 DEF Abstract!Lock, Abstract!FreeFor
  <2>3. ASSUME NEW t \in Thread, UnlockInner(t) PROVE Abstract!Unlock(t)
    <3>1. ptrView[t] = {ptr} /\ ptr # NULL
      BY <2>3 DEF UnlockInner, IInv, PtrInv
    <3>2. counter' = [counter EXCEPT ![ptr] = counter[ptr] - 1] /\ counter[ptr] # 0
      BY <2>3, <3>1 DEF UnlockInner
    <3>3. mutex[ptr] = t
      BY <2>3, <3>1 DEF UnlockInner, IInv, OwnerInv
    <3>4. \A u \in Thread : Depth(u)' = IF u = t THEN Depth(t) - 1 ELSE Depth(u)
      BY <2>3, <3>1, <3>2, <3>3 DEF UnlockInner, ptrVars, IInv, TypeOK, Ptrs, Depth
    <3>5. \A u \in Thread : Aside(u)' = Aside(u)
      BY <2>3 DEF UnlockInner, Aside
    <3>6. Depth(t) > 0
      BY <2>3, <3>1, <3>3 DEF UnlockInner, IInv, TypeOK, Ptrs, Depth
    <3> QED
      BY <3>4, <3>5, <3>6 DEF Abstract!Unlock
  <2>4. ASSUME NEW t \in Thread, NativeUnlock(t) PROVE Abstract!Unlock(t)
    <3>1. \A u \in Thread : Depth(u)' = IF u = t THEN Depth(t) - 1 ELSE Depth(u)
      BY <2>4 DEF NativeUnlock, Goto, ptrVars, condVars, objVars, IInv, TypeOK, PtrInv,
         OwnerInv, LevelInv, Ptrs, Owners, Pcs, Using, Unnamed, Depth, Aside
    <3>2. \A u \in Thread : Aside(u)' = Aside(u)
      BY <2>4 DEF NativeUnlock, Goto, ptrVars, condVars, objVars, IInv, TypeOK, PtrInv,
         OwnerInv, LevelInv, Ptrs, Owners, Pcs, Using, Unnamed, Depth, Aside
    <3>3. Depth(t) > 0
      BY <2>4 DEF NativeUnlock, Goto, IInv, TypeOK, PtrInv,
         OwnerInv, LevelInv, Ptrs, Owners, Pcs, Using, Unnamed, Depth, Aside
    <3> QED
      BY <3>1, <3>2, <3>3 DEF Abstract!Unlock
  <2>5. ASSUME NEW t \in Thread, Sleep(t) PROVE Abstract!Wait(t)
    <3>1. \A u \in Thread : Depth(u)' = IF u = t THEN 0 ELSE Depth(u)
      BY <2>5 DEF Sleep, Goto, ptrVars, condVars, objVars, IInv, TypeOK, PtrInv,
         OwnerInv, LevelInv, Ptrs, Owners, Pcs, Using, Unnamed, Depth, Aside
    <3>2. \A u \in Thread : Aside(u)' = IF u = t THEN Depth(t) ELSE Aside(u)
      BY <2>5 DEF Sleep, Goto, ptrVars, condVars, objVars, IInv, TypeOK, PtrInv,
         OwnerInv, LevelInv, Ptrs, Owners, Pcs, Using, Unnamed, Depth, Aside
    <3>3. Depth(t) > 0
      BY <2>5 DEF Sleep, Goto, IInv, TypeOK, PtrInv,
         OwnerInv, LevelInv, Ptrs, Owners, Pcs, Using, Unnamed, Depth, Aside
    <3> QED
      BY <3>1, <3>2, <3>3 DEF Abstract!Wait
  <2>6. ASSUME NEW t \in Thread, Reacquire(t) PROVE Abstract!Wake(t)
    <3>1. \A u \in Thread : Depth(u)' = IF u = t THEN Aside(t) ELSE Depth(u)
      BY <2>6 DEF Reacquire, Goto, TakeNative, ptrVars, condVars, objVars, IInv, TypeOK, PtrInv,
         OwnerInv, LevelInv, Ptrs, Owners, Pcs, Using, Unnamed, Depth, Aside
    <3>2. \A u \in Thread : Aside(u)' = IF u = t THEN 0 ELSE Aside(u)
      BY <2>6 DEF Reacquire, Goto, TakeNative, ptrVars, condVars, objVars, IInv, TypeOK, PtrInv,
         OwnerInv, LevelInv, Ptrs, Owners, Pcs, Using, Unnamed, Depth, Aside
    <3>3. (\A u \in Thread \ {t} : Depth(u) = 0) /\ Aside(t) > 0
      BY <2>6 DEF Reacquire, Goto, TakeNative, IInv, TypeOK, PtrInv,
         OwnerInv, LevelInv, Ptrs, Owners, Pcs, Using, Unnamed, Depth, Aside
    <3> QED
      BY <3>1, <3>2, <3>3 DEF Abstract!Wake, Abstract!FreeFor
  <2>7. ASSUME NEW t \in Thread,
               \/ Tcl_MutexLock(t) \/ LockGlobal(t) \/ AllocMutex(t)
               \/ PublishMutex(t) \/ FoundMutex(t) \/ LockFirst(t)
               \/ TakeOwnership(t) \/ UnlockOuter(t) \/ Tcl_ConditionWait(t)
               \/ LockGlobalForCond(t) \/ MakeCondition(t) \/ SaveCounter(t)
               \/ WakeUnasked(t) \/ RestoreCounter(t) \/ Tcl_ConditionNotify(t)
        PROVE  UNCHANGED Abstract!vars
    BY <2>7, SilentSteps DEF Abstract!vars
  <2>8. CASE Tcl_MutexFinalize \/ Tcl_ConditionFinalize
    <3>1. \A u \in Thread : Depth(u)' = Depth(u) /\ Aside(u)' = Aside(u)
      BY <2>8 DEF Tcl_MutexFinalize, Tcl_ConditionFinalize, ptrVars, condVars, objVars,
         IInv, TypeOK, PtrInv, OwnerInv, Ptrs, Owners, Pcs, Using, Unnamed, Depth, Aside
    <3> QED
      BY <3>1 DEF Abstract!vars
  <2>9. CASE UNCHANGED vars
    BY <2>9 DEF vars, ptrVars, condVars, objVars, Depth, Aside, Abstract!vars
  <2> QED
    BY <2>1, <2>2, <2>3, <2>4, <2>5, <2>6, <2>7, <2>8, <2>9
    DEF Next, LockStep, UnlockStep, WaitStep, Abstract!Next
<1> QED
  BY <1>1, <1>2, Invariance, PTL DEF Spec, ImplementsReentrantLock, Abstract!Spec
=============================================================================
