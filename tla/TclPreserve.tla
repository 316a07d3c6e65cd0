---------------------------- MODULE TclPreserve ----------------------------
(***************************************************************************)
(* Tcl_Preserve, Tcl_Release, Tcl_EventuallyFree and the TclHandle         *)
(* functions, generic/tclPreserve.c: memory blocks whose release is put    *)
(* off while somebody uses them.                                           *)
(*                                                                         *)
(* A holder is one use of a block: it preserves the block, then releases   *)
(* it, possibly from within the block's own free procedure.  A step on the *)
(* array is one critical section of preserveMutex; a handle is used by one *)
(* thread and needs no lock.                                               *)
(***************************************************************************)
EXTENDS Integers, Sequences, FiniteSets

CONSTANTS
    Block,       \* the addresses given to Tcl_Preserve
    Holder,      \* uses of blocks and handles
    Handle,      \* the addresses of HandleStructs
    InitialSize, \* INITIAL_SIZE
    None         \* NULL

ASSUME PreserveConstants ==
    /\ None \notin Block \cup Handle \cup [valid : BOOLEAN, refCount : Nat]
    /\ Block \cap Handle = {}
    /\ IsFiniteSet(Holder)
    /\ InitialSize \in Nat \ {0}

VARIABLES
    refArray,    \* the slots in use of the reference array
    spaceAvl,    \* its size
    state,       \* per block: "live", "doomed", "freeing" or "freed"
    frees,       \* history, per block: how often its free procedure was called
    holds,       \* per holder: the block or handle it holds
    handle,      \* per handle: its HandleStruct, or None
    panicked     \* Tcl_Panic was called

blockVars == <<refArray, spaceAvl, state, frees, panicked>>
vars == <<blockVars, holds, handle>>

Reference == [clientData : Block, refCount : Nat \ {0}, mustFree : BOOLEAN]

Init ==
    /\ refArray = <<>> /\ spaceAvl = 0
    /\ state = [b \in Block |-> "live"] /\ frees = [b \in Block |-> 0]
    /\ holds = [h \in Holder |-> None]
    /\ handle = [x \in Handle |-> None]
    /\ panicked = FALSE

IsSlot(i, b) == i \in DOMAIN refArray /\ refArray[i].clientData = b
HasSlot(b) == \E i \in DOMAIN refArray : refArray[i].clientData = b

------------------------------------------------------------------------------
(* The reference array.                                                    *)

(* A block may be preserved as long as it is not freed; while it is being  *)
(* freed, by its free procedure.                                           *)
Tcl_Preserve(h, b) ==
    /\ holds[h] = None /\ state[b] # "freed"
    /\ \/ \E i \in DOMAIN refArray :
             /\ IsSlot(i, b)
             /\ refArray' = [refArray EXCEPT ![i].refCount = @ + 1]
             /\ UNCHANGED spaceAvl
       \/ /\ ~HasSlot(b)
          /\ refArray' = Append(refArray, [clientData |-> b, refCount |-> 1,
                                           mustFree |-> FALSE])
          /\ spaceAvl' = IF Len(refArray) # spaceAvl THEN spaceAvl
                         ELSE IF spaceAvl = 0 THEN InitialSize ELSE 2 * spaceAvl
    /\ holds' = [holds EXCEPT ![h] = b]
    /\ UNCHANGED <<state, frees, handle, panicked>>

(* Mutant: the last slot is dropped instead of the one released.           *)
WithoutSlotLast(i) == SubSeq(refArray, 1, Len(refArray) - 1)

(* The last slot overwrites the i-th.                                      *)
WithoutSlot(i) ==
    LET n == Len(refArray) IN
    [j \in 1..(n - 1) |-> IF j = i THEN refArray[n] ELSE refArray[j]]

(* The free procedure is called.                                           *)
StartFree(b) ==
    /\ state' = [state EXCEPT ![b] = "freeing"]
    /\ frees' = [frees EXCEPT ![b] = @ + 1]

ReleaseSlot(i) ==
    IF refArray[i].refCount > 1
    THEN /\ refArray' = [refArray EXCEPT ![i].refCount = @ - 1]
         /\ UNCHANGED <<state, frees>>
    ELSE /\ refArray' = WithoutSlot(i)
         /\ IF refArray[i].mustFree
            THEN StartFree(refArray[i].clientData)
            ELSE UNCHANGED <<state, frees>>

Tcl_Release(h) ==
    /\ holds[h] \in Block
    /\ \/ /\ \E i \in DOMAIN refArray : IsSlot(i, holds[h]) /\ ReleaseSlot(i)
          /\ UNCHANGED panicked
       \/ /\ ~HasSlot(holds[h])
          /\ panicked' = TRUE
          /\ UNCHANGED <<refArray, state, frees>>
    /\ holds' = [holds EXCEPT ![h] = None]
    /\ UNCHANGED <<spaceAvl, handle>>

(* Mutant: references are not looked for.                                  *)
EventuallyFreeNow(b) ==
    /\ state[b] = "live"
    /\ StartFree(b)
    /\ UNCHANGED <<refArray, spaceAvl, holds, handle, panicked>>

(* Mutant: mustFree is not set.                                            *)
EventuallyFreeForgets(b) ==
    /\ state[b] = "live"
    /\ IF HasSlot(b)
       THEN state' = [state EXCEPT ![b] = "doomed"] /\ UNCHANGED frees
       ELSE StartFree(b)
    /\ UNCHANGED <<refArray, spaceAvl, holds, handle, panicked>>

(* Mutant: a block without references is doomed, not freed.                *)
EventuallyFreeDefers(b) ==
    /\ state[b] = "live"
    /\ refArray' = [i \in DOMAIN refArray |->
                       IF IsSlot(i, b) THEN [refArray[i] EXCEPT !.mustFree = TRUE]
                       ELSE refArray[i]]
    /\ state' = [state EXCEPT ![b] = "doomed"]
    /\ UNCHANGED <<spaceAvl, frees, holds, handle, panicked>>

(* Called once for a block.                                                *)
Tcl_EventuallyFree(b) ==
    /\ state[b] = "live"
    /\ \/ \E i \in DOMAIN refArray :
             /\ IsSlot(i, b)
             /\ panicked' = (panicked \/ refArray[i].mustFree)
             /\ refArray' = [refArray EXCEPT ![i].mustFree = TRUE]
             /\ state' = [state EXCEPT ![b] = "doomed"]
             /\ UNCHANGED frees
       \/ /\ ~HasSlot(b)
          /\ StartFree(b)
          /\ UNCHANGED <<refArray, panicked>>
    /\ UNCHANGED <<spaceAvl, holds, handle>>

(* The free procedure, which has released what it preserved, returns.      *)
FreeProcReturns(b) ==
    /\ state[b] = "freeing" /\ \A h \in Holder : holds[h] # b
    /\ state' = [state EXCEPT ![b] = "freed"]
    /\ UNCHANGED <<refArray, spaceAvl, frees, holds, handle, panicked>>

(* malloc returns the address of a freed block.                            *)
Allocate(b) ==
    /\ state[b] = "freed"
    /\ state' = [state EXCEPT ![b] = "live"]
    /\ frees' = [frees EXCEPT ![b] = 0]
    /\ UNCHANGED <<refArray, spaceAvl, holds, handle, panicked>>

(* At the end of the process, with nothing preserved any more.             *)
TclFinalizePreserve ==
    /\ \A h \in Holder : holds[h] \notin Block
    /\ refArray' = <<>> /\ spaceAvl' = 0
    /\ UNCHANGED <<state, frees, holds, handle, panicked>>

------------------------------------------------------------------------------
(* Handles: a HandleStruct lives until its block is gone and nobody is     *)
(* interested any more.                                                    *)

TclHandleCreate(x) ==
    /\ handle[x] = None
    /\ handle' = [handle EXCEPT ![x] = [valid |-> TRUE, refCount |-> 0]]
    /\ UNCHANGED <<blockVars, holds>>

TclHandleFree(x) ==
    /\ handle[x] # None /\ handle[x].valid
    /\ handle' = [handle EXCEPT ![x] = IF @.refCount = 0 THEN None
                                       ELSE [@ EXCEPT !.valid = FALSE]]
    /\ UNCHANGED <<blockVars, holds>>

(* By a holder that has the handle from the live block, or from another    *)
(* interested holder.                                                      *)
TclHandlePreserve(h, x) ==
    /\ holds[h] = None /\ handle[x] # None
    /\ handle' = [handle EXCEPT ![x].refCount = @ + 1]
    /\ holds' = [holds EXCEPT ![h] = x]
    /\ UNCHANGED blockVars

(* Mutant: the handle stays when its block is already gone.                *)
HandleReleaseLeaks(h) ==
    /\ holds[h] \in Handle
    /\ handle' = [handle EXCEPT ![holds[h]].refCount = @ - 1]
    /\ holds' = [holds EXCEPT ![h] = None]
    /\ UNCHANGED blockVars

TclHandleRelease(h) ==
    /\ holds[h] \in Handle
    /\ LET x == holds[h] IN
       handle' = [handle EXCEPT ![x] =
                     IF handle[x].refCount <= 1 /\ ~handle[x].valid THEN None
                     ELSE [handle[x] EXCEPT !.refCount = @ - 1]]
    /\ holds' = [holds EXCEPT ![h] = None]
    /\ UNCHANGED blockVars

------------------------------------------------------------------------------
Next ==
    \/ \E h \in Holder, b \in Block : Tcl_Preserve(h, b)
    \/ \E h \in Holder : Tcl_Release(h) \/ TclHandleRelease(h)
    \/ \E b \in Block :
          Tcl_EventuallyFree(b) \/ FreeProcReturns(b) \/ Allocate(b)
    \/ \E x \in Handle : TclHandleCreate(x) \/ TclHandleFree(x)
    \/ \E h \in Holder, x \in Handle : TclHandlePreserve(h, x)
    \/ TclFinalizePreserve

Spec == Init /\ [][Next]_vars

(* Every holder releases what it holds.                                    *)
Fairness == \A h \in Holder : WF_vars(Tcl_Release(h))

FairSpec == Spec /\ Fairness

------------------------------------------------------------------------------
(* Properties.                                                             *)

Users(b) == {h \in Holder : holds[h] = b}

(* Every variable stays in its type; no slot has a count of zero.          *)
TypeOK ==
    /\ refArray \in Seq(Reference) /\ spaceAvl \in Nat
    /\ state \in [Block -> {"live", "doomed", "freeing", "freed"}]
    /\ frees \in [Block -> Nat]
    /\ holds \in [Holder -> Block \cup Handle \cup {None}]
    /\ handle \in [Handle -> [valid : BOOLEAN, refCount : Nat] \cup {None}]
    /\ panicked \in BOOLEAN

(* The array is exact: the blocks in use have one slot each, with as many  *)
(* references as the block has users and with mustFree set once the block  *)
(* is doomed, the slots in use fit in the array, and callers that pair     *)
(* their calls never meet a panic.                                         *)
OneSlotPerBlock ==
    \A i, j \in DOMAIN refArray :
       refArray[i].clientData = refArray[j].clientData => i = j
SlotsCount ==
    \A i \in DOMAIN refArray :
       refArray[i].refCount = Cardinality(Users(refArray[i].clientData))
UsersHaveSlot == \A h \in Holder : holds[h] \in Block => HasSlot(holds[h])
SlotsDoomed ==
    \A i \in DOMAIN refArray :
       refArray[i].mustFree <=> state[refArray[i].clientData] = "doomed"

ArrayExact ==
    /\ OneSlotPerBlock /\ SlotsCount /\ UsersHaveSlot /\ SlotsDoomed
    /\ Len(refArray) <= spaceAvl /\ ~panicked

(* The free procedure of a block is called once after Tcl_EventuallyFree,  *)
(* although it may itself preserve and release the block, and put off only *)
(* as long as somebody uses the block.                                     *)
FreedOnceUnused ==
    /\ \A b \in Block : frees[b] = IF state[b] \in {"live", "doomed"} THEN 0 ELSE 1
    /\ \A b \in Block : state[b] = "doomed" => Users(b) # {}

(* The free procedure is called only when nobody uses the block.           *)
FreedWhenUnused ==
    [][\A b \in Block : frees'[b] > frees[b] => Users(b)' = {}]_vars

(* A handle is there as long as its block is, and until the last one       *)
(* interested is gone; it is freed then.                                   *)
HandleExact ==
    \A x \in Handle :
       IF handle[x] = None THEN Users(x) = {}
       ELSE /\ handle[x].refCount = Cardinality(Users(x))
            /\ handle[x].valid \/ Users(x) # {}

(* A doomed block is freed, unless somebody preserves it again and again.  *)
EventuallyFreed ==
    \A b \in Block :
       \/ []<><<\E h \in Holder : Tcl_Preserve(h, b)>>_vars
       \/ state[b] = "doomed" ~> state[b] \in {"freeing", "freed"}
=============================================================================
