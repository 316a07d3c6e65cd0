------------------------- MODULE TclPreserve_proofs -------------------------
(***************************************************************************)
(* Proofs about TclPreserve, for every set of blocks, handles and holders. *)
(* The invariant is inductive as the runs check it: the exactness of the   *)
(* array and the bookkeeping of frees rest on each other.                  *)
(***************************************************************************)
EXTENDS TclPreserve, FiniteSetTheorems, SequenceTheorems, TLAPS

(* The inductive invariant.                                                *)
IInv == TypeOK /\ ArrayExact /\ FreedOnceUnused /\ HandleExact

------------------------------------------------------------------------------
(* Sets of users are finite, and empty exactly if their size is zero.      *)
LEMMA HolderSets ==
  ASSUME NEW S \in SUBSET Holder
  PROVE  /\ IsFiniteSet(S) /\ Cardinality(S) \in Nat
         /\ Cardinality(S) = 0 <=> S = {}
<1>1. IsFiniteSet(S)
  BY PreserveConstants, FS_Subset
<1> QED
  BY <1>1, FS_EmptySet, FS_CardinalityType

(* A holder that begins a use is one user more of what it uses.            *)
LEMMA TakeUser ==
  ASSUME NEW h \in Holder, NEW c \in Block \cup Handle,
         holds \in [Holder -> Block \cup Handle \cup {None}],
         holds[h] = None, holds' = [holds EXCEPT ![h] = c]
  PROVE  /\ Cardinality(Users(c)') = Cardinality(Users(c)) + 1
         /\ Users(c)' # {}
         /\ \A d \in Block \cup Handle : d # c => Users(d)' = Users(d)
<1>1. c # None
  BY PreserveConstants
<1>2. Users(c)' = Users(c) \cup {h} /\ h \notin Users(c)
  BY <1>1 DEF Users
<1>3. Cardinality(Users(c) \cup {h}) = Cardinality(Users(c)) + 1
  <2>1. Users(c) \in SUBSET Holder
    BY DEF Users
  <2> QED
    BY <2>1, <1>2, HolderSets, FS_AddElement
<1>4. ASSUME NEW d \in Block \cup Handle, d # c PROVE Users(d)' = Users(d)
  <2>1. d # None
    BY PreserveConstants
  <2> QED
    BY <1>4, <2>1 DEF Users
<1> QED
  BY <1>2, <1>3, <1>4

(* A holder that ends a use is one user less.                              *)
LEMMA DropUser ==
  ASSUME NEW h \in Holder, NEW c \in Block \cup Handle,
         holds \in [Holder -> Block \cup Handle \cup {None}],
         holds[h] = c, holds' = [holds EXCEPT ![h] = None]
  PROVE  /\ Cardinality(Users(c)) \in Nat \ {0}
         /\ Cardinality(Users(c)') = Cardinality(Users(c)) - 1
         /\ Users(c)' = {} <=> Cardinality(Users(c)) = 1
         /\ \A d \in Block \cup Handle : d # c => Users(d)' = Users(d)
<1>1. c # None
  BY PreserveConstants
<1>2. Users(c)' = Users(c) \ {h} /\ h \in Users(c)
  BY <1>1 DEF Users
<1>3. Users(c) \in SUBSET Holder /\ Users(c)' \in SUBSET Holder
  BY <1>2 DEF Users
<1>4. Cardinality(Users(c) \ {h}) = Cardinality(Users(c)) - 1
  BY <1>2, <1>3, HolderSets, FS_RemoveElement
<1>5. Cardinality(Users(c)) \in Nat \ {0}
  BY <1>2, <1>3, HolderSets
<1>6. Users(c)' = {} <=> Cardinality(Users(c)) = 1
  <2>1. Cardinality(Users(c)') = 0 <=> Users(c)' = {}
    BY <1>3, HolderSets
  <2> QED
    BY <2>1, <1>2, <1>4, <1>5
<1>7. ASSUME NEW d \in Block \cup Handle, d # c PROVE Users(d)' = Users(d)
  <2>1. d # None
    BY PreserveConstants
  <2> QED
    BY <1>7, <2>1 DEF Users
<1> QED
  BY <1>2, <1>4, <1>5, <1>6, <1>7

(* Overwriting the i-th slot by the last removes it and no other.          *)
LEMMA WithoutSlotProperties ==
  ASSUME refArray \in Seq(Reference), NEW i \in 1..Len(refArray)
  PROVE  /\ WithoutSlot(i) \in Seq(Reference)
         /\ Len(WithoutSlot(i)) = Len(refArray) - 1
         /\ \A j \in 1..(Len(refArray) - 1) :
               WithoutSlot(i)[j] = refArray[IF j = i THEN Len(refArray) ELSE j]
<1> DEFINE n == Len(refArray)
<1>1. n \in Nat \ {0} /\ refArray \in [1..n -> Reference]
  BY LenProperties
<1>2. \A j \in 1..(n - 1) : WithoutSlot(i)[j] = refArray[IF j = i THEN n ELSE j]
  BY <1>1 DEF WithoutSlot
<1>3. WithoutSlot(i) \in [1..(n - 1) -> Reference]
  BY <1>1 DEF WithoutSlot
<1>4. n - 1 \in Nat
  BY <1>1
<1>5. WithoutSlot(i) \in Seq(Reference) /\ Len(WithoutSlot(i)) = n - 1
  BY <1>3, <1>4
<1> QED
  BY <1>2, <1>5

(* What a step may do to the number of frees: see FreedWhenUnused.         *)
FreeStep == \A b \in Block : frees'[b] > frees[b] => Users(b)' = {}

(* Slots are about blocks.                                                 *)
LEMMA SlotsNameBlocks ==
  ASSUME TypeOK
  PROVE  \A i \in DOMAIN refArray : refArray[i].clientData \in Block
<1>1. \A i \in DOMAIN refArray : refArray[i] \in Reference
  BY LenProperties DEF TypeOK
<1> QED
  BY <1>1 DEF Reference

(* A step that calls no free procedure.                                    *)
LEMMA SameFrees ==
  ASSUME TypeOK, UNCHANGED frees
  PROVE  FreeStep
BY DEF TypeOK, FreeStep

(* A step that only changes the state of a block that neither was doomed   *)
(* nor becomes so.                                                         *)
LEMMA ChangedState ==
  ASSUME IInv, NEW b \in Block, state[b] # "doomed",
         state' \in [Block -> {"live", "doomed", "freeing", "freed"}],
         frees' \in [Block -> Nat],
         \A c \in Block \ {b} : state'[c] = state[c] /\ frees'[c] = frees[c],
         state'[b] # "doomed", frees'[b] = IF state'[b] = "live" THEN 0 ELSE 1,
         UNCHANGED <<refArray, spaceAvl, holds, handle, panicked>>
  PROVE  IInv'
<1> USE DEF IInv
<1>1. \A c : Users(c)' = Users(c)
  BY DEF Users
<1>2. TypeOK'
  BY DEF TypeOK
<1>3. \A i \in DOMAIN refArray : refArray[i].clientData \in Block
  BY SlotsNameBlocks
<1>4. SlotsDoomed'
  BY <1>3 DEF ArrayExact, SlotsDoomed
<1>5. SlotsCount'
  <2>1. \A i \in DOMAIN refArray, c \in Block : c = refArray[i].clientData =>
           refArray[i].refCount = Cardinality(Users(c)')
    BY <1>1 DEF ArrayExact, SlotsCount
  <2> QED
    BY <2>1, <1>3 DEF SlotsCount
<1>6. OneSlotPerBlock' /\ UsersHaveSlot'
  BY DEF ArrayExact, OneSlotPerBlock, UsersHaveSlot, HasSlot
<1>7. ArrayExact'
  BY <1>4, <1>5, <1>6 DEF ArrayExact
<1>8. FreedOnceUnused'
  <2>1. \A c \in Block : frees'[c] = IF state'[c] \in {"live", "doomed"} THEN 0 ELSE 1
    BY DEF FreedOnceUnused
  <2>2. \A c \in Block : state'[c] = "doomed" => Users(c)' # {}
    BY <1>1 DEF FreedOnceUnused
  <2> QED
    BY <2>1, <2>2 DEF FreedOnceUnused
<1>9. HandleExact'
  BY <1>1 DEF HandleExact
<1> QED
  BY <1>2, <1>7, <1>8, <1>9

(* Calling the free procedure of a block that was not freed.               *)
LEMMA StartFreeProperties ==
  ASSUME TypeOK, FreedOnceUnused, NEW b \in Block, state[b] \in {"live", "doomed"},
         StartFree(b)
  PROVE  /\ state' \in [Block -> {"live", "doomed", "freeing", "freed"}]
         /\ frees' \in [Block -> Nat]
         /\ \A c \in Block \ {b} : state'[c] = state[c] /\ frees'[c] = frees[c]
         /\ state'[b] = "freeing" /\ frees'[b] = 1
<1>1. /\ state' \in [Block -> {"live", "doomed", "freeing", "freed"}]
      /\ \A c \in Block \ {b} : state'[c] = state[c]
      /\ state'[b] = "freeing"
  BY DEF StartFree, TypeOK
<1>2. /\ frees' = [frees EXCEPT ![b] = frees[b] + 1] /\ frees \in [Block -> Nat]
      /\ frees[b] = 0
  BY DEF StartFree, TypeOK, FreedOnceUnused
<1>3. /\ frees' \in [Block -> Nat] /\ frees'[b] = 1
      /\ \A c \in Block \ {b} : frees'[c] = frees[c]
  BY <1>2
<1> QED
  BY <1>1, <1>3

------------------------------------------------------------------------------
(* The initial state satisfies the invariant.                              *)
LEMMA InitIInv == Init => IInv
<1> SUFFICES ASSUME Init PROVE IInv
  OBVIOUS
<1>1. \A c \in Block \cup Handle : Users(c) = {}
  BY PreserveConstants DEF Init, Users
<1>2. TypeOK
  <2>1. refArray \in Seq(Reference) /\ spaceAvl \in Nat /\ panicked \in BOOLEAN
    BY EmptySeq DEF Init
  <2>2. /\ state \in [Block -> {"live", "doomed", "freeing", "freed"}]
        /\ frees \in [Block -> Nat]
        /\ holds \in [Holder -> Block \cup Handle \cup {None}]
    BY DEF Init
  <2>3. handle \in [Handle -> [valid : BOOLEAN, refCount : Nat] \cup {None}]
    BY DEF Init
  <2> QED
    BY <2>1, <2>2, <2>3 DEF TypeOK
<1>3. ArrayExact
  BY PreserveConstants DEF Init, ArrayExact, OneSlotPerBlock, SlotsCount, UsersHaveSlot,
     SlotsDoomed
<1>4. FreedOnceUnused
  BY DEF Init, FreedOnceUnused
<1>5. HandleExact
  BY <1>1 DEF Init, HandleExact
<1> QED
  BY <1>2, <1>3, <1>4, <1>5 DEF IInv

(* Tcl_Preserve, when the block has a slot.                                *)
LEMMA PreserveOldSlot ==
  ASSUME IInv, NEW h \in Holder, NEW b \in Block, Tcl_Preserve(h, b), HasSlot(b)
  PROVE  IInv'
<1> USE DEF IInv, Tcl_Preserve
<1>1. PICK i \in DOMAIN refArray :
         /\ IsSlot(i, b)
         /\ refArray' = [refArray EXCEPT ![i].refCount = @ + 1]
         /\ UNCHANGED spaceAvl
  OBVIOUS
<1> DEFINE n == Len(refArray)
           e == [refArray[i] EXCEPT !.refCount = @ + 1]
<1>2. /\ n \in Nat /\ DOMAIN refArray = 1..n /\ i \in 1..n
      /\ refArray[i] \in Reference
  BY LenProperties DEF TypeOK
<1>3. e \in Reference /\ e.clientData = b /\ e.mustFree = refArray[i].mustFree
      /\ e.refCount = refArray[i].refCount + 1
  BY <1>1, <1>2 DEF Reference, IsSlot
<1>4. refArray' = [refArray EXCEPT ![i] = e]
  BY <1>1
<1>5. /\ refArray' \in Seq(Reference) /\ Len(refArray') = n
      /\ \A j \in 1..n : refArray'[j] = IF j = i THEN e ELSE refArray[j]
  BY <1>2, <1>3, <1>4, ExceptSeq DEF TypeOK
<1>6. DOMAIN refArray' = 1..n
  BY <1>5, LenProperties
<1>7. /\ Cardinality(Users(b)') = Cardinality(Users(b)) + 1 /\ Users(b)' # {}
      /\ \A d \in Block \cup Handle : d # b => Users(d)' = Users(d)
  BY TakeUser DEF TypeOK
<1>8. TypeOK'
  BY <1>1, <1>5 DEF TypeOK
<1>9. \A j \in 1..n : /\ refArray[j] \in Reference
                      /\ refArray'[j].clientData = refArray[j].clientData
                      /\ refArray'[j].mustFree = refArray[j].mustFree
  BY <1>1, <1>2, <1>3, <1>5, LenProperties DEF TypeOK, IsSlot
<1>10. OneSlotPerBlock'
  BY <1>2, <1>6, <1>9 DEF ArrayExact, OneSlotPerBlock
<1>11. SlotsCount'
  <2>1. ASSUME NEW j \in 1..n, NEW c \in Block, c = refArray'[j].clientData
        PROVE  refArray'[j].refCount = Cardinality(Users(c)')
    <3>1. CASE j = i
      <4>1. c = b
        BY <3>1, <2>1, <1>2, <1>3, <1>5
      <4>2. refArray[i].refCount = Cardinality(Users(b))
        BY <1>1, <1>2 DEF ArrayExact, SlotsCount, IsSlot
      <4> QED
        BY <3>1, <4>1, <4>2, <1>2, <1>3, <1>5, <1>7
    <3>2. CASE j # i
      <4>1. c # b /\ c = refArray[j].clientData
        BY <3>2, <2>1, <1>1, <1>2, <1>9 DEF ArrayExact, OneSlotPerBlock, IsSlot
      <4>2. Users(c)' = Users(c)
        BY <4>1, <1>7
      <4> QED
        BY <3>2, <4>1, <4>2, <1>2, <1>5 DEF ArrayExact, SlotsCount
    <3> QED
      BY <3>1, <3>2
  <2>2. \A j \in 1..n : refArray'[j].clientData \in Block
    BY <1>9 DEF Reference
  <2> QED
    BY <2>1, <2>2, <1>6 DEF SlotsCount
<1>12. UsersHaveSlot'
  <2>1. \A c : HasSlot(c) => HasSlot(c)'
    BY <1>2, <1>6, <1>9 DEF HasSlot
  <2>2. \A g \in Holder : holds'[g] = holds[g] \/ holds'[g] = b
    BY DEF TypeOK
  <2> QED
    BY <2>1, <2>2 DEF ArrayExact, UsersHaveSlot
<1>13. SlotsDoomed'
  BY <1>2, <1>6, <1>9 DEF ArrayExact, SlotsDoomed
<1>14. ArrayExact'
  BY <1>1, <1>5, <1>10, <1>11, <1>12, <1>13 DEF ArrayExact
<1>15. FreedOnceUnused'
  BY <1>7 DEF FreedOnceUnused
<1>16. HandleExact'
  BY <1>7, PreserveConstants DEF HandleExact
<1> QED
  BY <1>8, <1>14, <1>15, <1>16

(* Tcl_Preserve, when the block gets a new slot.                           *)
LEMMA PreserveNewSlot ==
  ASSUME IInv, NEW h \in Holder, NEW b \in Block, Tcl_Preserve(h, b), ~HasSlot(b)
  PROVE  IInv'
<1> USE DEF IInv, Tcl_Preserve
<1> DEFINE n == Len(refArray)
           e == [clientData |-> b, refCount |-> 1, mustFree |-> FALSE]
<1>1. /\ refArray' = Append(refArray, e)
      /\ spaceAvl' = IF n # spaceAvl THEN spaceAvl
                     ELSE IF spaceAvl = 0 THEN InitialSize ELSE 2 * spaceAvl
  BY DEF HasSlot, IsSlot
<1>2. n \in Nat /\ DOMAIN refArray = 1..n /\ \A j \in 1..n : refArray[j] \in Reference
  BY LenProperties DEF TypeOK
<1>3. e \in Reference
  BY DEF Reference
<1>4. /\ refArray' \in Seq(Reference) /\ Len(refArray') = n + 1
      /\ \A j \in 1..n : refArray'[j] = refArray[j]
      /\ refArray'[n + 1] = e
  BY <1>1, <1>3, AppendProperties DEF TypeOK
<1>5. DOMAIN refArray' = 1..(n + 1) /\ \A j \in 1..(n + 1) : j = n + 1 \/ j \in 1..n
  <2>1. DOMAIN refArray' = 1..(n + 1)
    BY <1>4, LenProperties
  <2>2. ASSUME NEW m \in Nat PROVE \A j \in 1..(m + 1) : j = m + 1 \/ j \in 1..m
    OBVIOUS
  <2> QED
    BY <2>1, <2>2, <1>2
<1>19. /\ e.clientData = b /\ e.refCount = 1 /\ e.mustFree = FALSE
       /\ n + 1 \in DOMAIN refArray' /\ \A j \in 1..n : j \in DOMAIN refArray'
  <2>1. ASSUME NEW m \in Nat
        PROVE  m + 1 \in 1..(m + 1) /\ \A j \in 1..m : j \in 1..(m + 1)
    OBVIOUS
  <2> QED
    BY <2>1, <1>2, <1>5
<1>6. /\ Cardinality(Users(b)') = Cardinality(Users(b)) + 1 /\ Users(b)' # {}
      /\ \A d \in Block \cup Handle : d # b => Users(d)' = Users(d)
  BY TakeUser DEF TypeOK
<1>7. Users(b) = {}
  BY DEF ArrayExact, UsersHaveSlot, Users
<1>8. Cardinality(Users(b)') = 1
  BY <1>6, <1>7, FS_EmptySet
<1>9. \A j \in 1..n : refArray[j].clientData # b /\ refArray[j].clientData \in Block
  BY <1>2 DEF HasSlot, Reference
<1>10. spaceAvl' \in Nat /\ n + 1 <= spaceAvl'
  <2>1. InitialSize \in Nat /\ InitialSize # 0
    BY PreserveConstants
  <2>2. spaceAvl \in Nat /\ n <= spaceAvl
    BY DEF TypeOK, ArrayExact
  <2>3. CASE n # spaceAvl
    <3>1. \A m, k \in Nat : m <= k /\ m # k => m + 1 <= k
      OBVIOUS
    <3> QED
      BY <3>1, <2>2, <2>3, <1>1, <1>2
  <2>4. CASE n = spaceAvl /\ n = 0
    BY <2>1, <2>2, <2>4, <1>1, <1>2
  <2>5. CASE n = spaceAvl /\ n # 0
    <3>1. spaceAvl' = 2 * spaceAvl
      BY <2>5, <1>1
    <3> QED
      BY <3>1, <2>2, <2>5
  <2> QED
    BY <2>3, <2>4, <2>5
<1>11. TypeOK'
  BY <1>4, <1>10 DEF TypeOK
<1>12. OneSlotPerBlock'
  <2>1. \A j, k \in 1..n : refArray[j].clientData = refArray[k].clientData => j = k
    BY <1>2 DEF ArrayExact, OneSlotPerBlock
  <2>2. ASSUME NEW j \in 1..(n + 1), NEW k \in 1..(n + 1),
               refArray'[j].clientData = refArray'[k].clientData
        PROVE  j = k
    <3>1. CASE j = n + 1 /\ k \in 1..n
      BY <2>2, <3>1, <1>4, <1>9, <1>19
    <3>2. CASE k = n + 1 /\ j \in 1..n
      BY <2>2, <3>2, <1>4, <1>9, <1>19
    <3>3. CASE j \in 1..n /\ k \in 1..n
      BY <2>1, <2>2, <3>3, <1>4
    <3> QED
      BY <3>1, <3>2, <3>3, <1>5
  <2> QED
    BY <2>2, <1>5 DEF OneSlotPerBlock
<1>13. SlotsCount'
  <2>1. ASSUME NEW j \in 1..(n + 1), NEW c \in Block, c = refArray'[j].clientData
        PROVE  refArray'[j].refCount = Cardinality(Users(c)')
    <3>1. CASE j = n + 1
      BY <3>1, <2>1, <1>4, <1>8
    <3>2. CASE j \in 1..n
      <4>1. c # b /\ c = refArray[j].clientData
        BY <3>2, <2>1, <1>4, <1>9
      <4>2. Users(c)' = Users(c)
        BY <4>1, <1>6
      <4> QED
        BY <3>2, <4>1, <4>2, <1>2, <1>4 DEF ArrayExact, SlotsCount
    <3> QED
      BY <3>1, <3>2, <1>2
  <2>2. \A j \in 1..(n + 1) : refArray'[j].clientData \in Block
    <3>1. refArray'[n + 1].clientData = b
      BY <1>4, <1>19
    <3>2. \A j \in 1..n : refArray'[j].clientData \in Block
      BY <1>4, <1>9
    <3> QED
      BY <3>1, <3>2, <1>5
  <2> QED
    BY <2>1, <2>2, <1>5 DEF SlotsCount
<1>14. UsersHaveSlot'
  <2>1. HasSlot(b)' /\ \A c : HasSlot(c) => HasSlot(c)'
    BY <1>2, <1>4, <1>19 DEF HasSlot
  <2>2. \A g \in Holder : holds'[g] = holds[g] \/ holds'[g] = b
    BY DEF TypeOK
  <2> QED
    BY <2>1, <2>2 DEF ArrayExact, UsersHaveSlot
<1>15. SlotsDoomed'
  <2>1. state[b] # "doomed"
    BY <1>7 DEF FreedOnceUnused
  <2> QED
    <3>1. ASSUME NEW j \in 1..n
          PROVE  refArray'[j].mustFree <=> state'[refArray'[j].clientData] = "doomed"
      BY <1>2, <1>4 DEF ArrayExact, SlotsDoomed
    <3>2. refArray'[n + 1].mustFree <=> state'[refArray'[n + 1].clientData] = "doomed"
      BY <2>1, <1>4, <1>19
    <3> QED
      BY <3>1, <3>2, <1>5 DEF SlotsDoomed
<1>16. ArrayExact'
  BY <1>4, <1>10, <1>12, <1>13, <1>14, <1>15 DEF ArrayExact
<1>17. FreedOnceUnused'
  BY <1>6 DEF FreedOnceUnused
<1>18. HandleExact'
  BY <1>6, PreserveConstants DEF HandleExact
<1> QED
  BY <1>11, <1>16, <1>17, <1>18

(* Tcl_Release, when references remain.                                    *)
LEMMA ReleaseCounted ==
  ASSUME IInv, NEW h \in Holder, Tcl_Release(h), NEW b \in Block, b = holds[h],
         NEW i \in DOMAIN refArray, IsSlot(i, b), refArray[i].refCount > 1
  PROVE  IInv' /\ frees' = frees
<1> USE DEF IInv, Tcl_Release
<1> DEFINE n == Len(refArray)
           e == [refArray[i] EXCEPT !.refCount = @ - 1]
<1>1. /\ n \in Nat /\ DOMAIN refArray = 1..n /\ i \in 1..n
      /\ \A j \in 1..n : refArray[j] \in Reference
  BY LenProperties DEF TypeOK
<1>2. PICK k \in DOMAIN refArray : IsSlot(k, b) /\ ReleaseSlot(k)
  BY DEF HasSlot, IsSlot
<1>3. k = i
  BY <1>2 DEF ArrayExact, OneSlotPerBlock, IsSlot
<1>4. /\ refArray' = [refArray EXCEPT ![i] = e]
      /\ UNCHANGED <<state, frees, spaceAvl, handle, panicked>>
  BY <1>2, <1>3 DEF ReleaseSlot, HasSlot, IsSlot
<1>5. e \in Reference /\ e.clientData = b /\ e.mustFree = refArray[i].mustFree
      /\ e.refCount = refArray[i].refCount - 1
  BY <1>1 DEF Reference, IsSlot
<1>6. /\ refArray' \in Seq(Reference) /\ Len(refArray') = n
      /\ \A j \in 1..n : refArray'[j] = IF j = i THEN e ELSE refArray[j]
  BY <1>1, <1>4, <1>5, ExceptSeq DEF TypeOK
<1>7. DOMAIN refArray' = 1..n
  BY <1>6, LenProperties
<1>8. refArray[i].refCount = Cardinality(Users(b))
  BY DEF ArrayExact, SlotsCount, IsSlot
<1>9. /\ Cardinality(Users(b)') = Cardinality(Users(b)) - 1 /\ Users(b)' # {}
      /\ \A d \in Block \cup Handle : d # b => Users(d)' = Users(d)
  <2>1. /\ Cardinality(Users(b)') = Cardinality(Users(b)) - 1
        /\ Users(b)' = {} <=> Cardinality(Users(b)) = 1
        /\ \A d \in Block \cup Handle : d # b => Users(d)' = Users(d)
    BY DropUser DEF TypeOK
  <2>2. Cardinality(Users(b)) # 1
    BY <1>1, <1>8 DEF Reference
  <2> QED
    BY <2>1, <2>2
<1>10. TypeOK'
  BY <1>4, <1>6 DEF TypeOK
<1>11. \A j \in 1..n : /\ refArray'[j].clientData = refArray[j].clientData
                       /\ refArray'[j].mustFree = refArray[j].mustFree
  BY <1>1, <1>5, <1>6 DEF IsSlot
<1>12. OneSlotPerBlock'
  BY <1>1, <1>7, <1>11 DEF ArrayExact, OneSlotPerBlock
<1>13. SlotsCount'
  <2>1. ASSUME NEW j \in 1..n, NEW c \in Block, c = refArray'[j].clientData
        PROVE  refArray'[j].refCount = Cardinality(Users(c)')
    <3>1. CASE j = i
      <4>1. c = b
        BY <3>1, <2>1, <1>1, <1>5, <1>6
      <4> QED
        BY <3>1, <4>1, <1>1, <1>5, <1>6, <1>8, <1>9
    <3>2. CASE j # i
      <4>1. c # b /\ c = refArray[j].clientData
        BY <3>2, <2>1, <1>1, <1>11 DEF ArrayExact, OneSlotPerBlock, IsSlot
      <4>2. Users(c)' = Users(c)
        BY <4>1, <1>9
      <4> QED
        BY <3>2, <4>1, <4>2, <1>1, <1>6 DEF ArrayExact, SlotsCount
    <3> QED
      BY <3>1, <3>2
  <2>2. \A j \in 1..n : refArray'[j].clientData \in Block
    BY <1>1, <1>11 DEF Reference
  <2> QED
    BY <2>1, <2>2, <1>7 DEF SlotsCount
<1>14. UsersHaveSlot'
  <2>1. \A c : HasSlot(c) => HasSlot(c)'
    BY <1>1, <1>7, <1>11 DEF HasSlot
  <2>2. \A g \in Holder : holds'[g] = holds[g] \/ holds'[g] = None
    BY DEF TypeOK
  <2> QED
    BY <2>1, <2>2, PreserveConstants DEF ArrayExact, UsersHaveSlot
<1>15. SlotsDoomed'
  BY <1>1, <1>4, <1>7, <1>11 DEF ArrayExact, SlotsDoomed
<1>16. ArrayExact'
  BY <1>4, <1>6, <1>12, <1>13, <1>14, <1>15 DEF ArrayExact
<1>17. FreedOnceUnused'
  <2>1. \A c \in Block : state[c] = "doomed" => Users(c)' # {}
    BY <1>9 DEF FreedOnceUnused
  <2> QED
    BY <2>1, <1>4 DEF FreedOnceUnused
<1>18. HandleExact'
  BY <1>4, <1>9, PreserveConstants DEF HandleExact
<1> QED
  BY <1>4, <1>10, <1>16, <1>17, <1>18

(* Tcl_Release of the last reference: the slot goes, and the block is      *)
(* freed if it is doomed.                                                  *)
LEMMA ReleaseLast ==
  ASSUME IInv, NEW h \in Holder, Tcl_Release(h), NEW b \in Block, b = holds[h],
         NEW i \in DOMAIN refArray, IsSlot(i, b), ~(refArray[i].refCount > 1)
  PROVE  /\ IInv' /\ Users(b)' = {}
         /\ \A c \in Block : frees'[c] # frees[c] => c = b
<1> USE DEF IInv, Tcl_Release
<1> DEFINE n == Len(refArray)
           from(j) == IF j = i THEN n ELSE j
<1>1. /\ n \in Nat \ {0} /\ DOMAIN refArray = 1..n /\ i \in 1..n
      /\ \A j \in 1..n : refArray[j] \in Reference
  BY LenProperties DEF TypeOK
<1>2. PICK k \in DOMAIN refArray : IsSlot(k, b) /\ ReleaseSlot(k)
  BY DEF HasSlot, IsSlot
<1>3. k = i
  BY <1>2 DEF ArrayExact, OneSlotPerBlock, IsSlot
<1>4. /\ refArray' = WithoutSlot(i)
      /\ UNCHANGED <<spaceAvl, handle, panicked>>
  BY <1>2, <1>3 DEF ReleaseSlot, HasSlot, IsSlot
<1>5. IF refArray[i].mustFree THEN StartFree(b) ELSE UNCHANGED <<state, frees>>
  BY <1>2, <1>3 DEF ReleaseSlot, IsSlot
<1>6. /\ refArray' \in Seq(Reference) /\ Len(refArray') = n - 1
      /\ \A j \in 1..(n - 1) : refArray'[j] = refArray[from(j)]
  BY <1>1, <1>4, WithoutSlotProperties DEF TypeOK
<1>7. DOMAIN refArray' = 1..(n - 1)
  BY <1>6, LenProperties
<1>8. /\ \A j \in 1..(n - 1) : from(j) \in 1..n /\ from(j) # i
      /\ \A j, l \in 1..(n - 1) : from(j) = from(l) => j = l
      /\ \A m \in 1..n : m # i => \E j \in 1..(n - 1) : from(j) = m
  <2>1. ASSUME NEW m \in Nat \ {0}, i \in 1..m
        PROVE  /\ \A j \in 1..(m - 1) : (IF j = i THEN m ELSE j) \in 1..m
                                       /\ (IF j = i THEN m ELSE j) # i
               /\ \A j, l \in 1..(m - 1) :
                     (IF j = i THEN m ELSE j) = (IF l = i THEN m ELSE l) => j = l
    BY <2>1
  <2>2. ASSUME NEW m \in Nat \ {0}, i \in 1..m, NEW a \in 1..m, a # i
        PROVE  \E j \in 1..(m - 1) : (IF j = i THEN m ELSE j) = a
    <3>1. CASE a = m
      BY <2>2, <3>1
    <3>2. CASE a # m
      <4>1. a \in 1..(m - 1)
        BY <2>2, <3>2
      <4> QED
        BY <2>2, <4>1
    <3> QED
      BY <3>1, <3>2
  <2> QED
    BY <2>1, <2>2, <1>1
<1> HIDE DEF from
<1>9. \A j \in 1..(n - 1) : /\ refArray'[j] = refArray[from(j)]
                            /\ refArray[from(j)].clientData \in Block \ {b}
  BY <1>1, <1>6, <1>8 DEF ArrayExact, OneSlotPerBlock, IsSlot, Reference
<1>10. /\ Users(b)' = {}
       /\ \A d \in Block \cup Handle : d # b => Users(d)' = Users(d)
  <2>1. Cardinality(Users(b)) = 1
    BY <1>1 DEF ArrayExact, SlotsCount, IsSlot, Reference
  <2> QED
    BY <2>1, DropUser DEF TypeOK
<1>11. /\ state' \in [Block -> {"live", "doomed", "freeing", "freed"}]
       /\ frees' \in [Block -> Nat]
       /\ \A c \in Block \ {b} : state'[c] = state[c] /\ frees'[c] = frees[c]
       /\ state'[b] # "doomed"
       /\ frees'[b] = IF state'[b] = "live" THEN 0 ELSE 1
  <2>1. refArray[i].mustFree <=> state[b] = "doomed"
    BY DEF ArrayExact, SlotsDoomed, IsSlot
  <2>2. CASE state[b] = "doomed"
    <3>1. StartFree(b)
      BY <2>1, <2>2, <1>5
    <3> QED
      BY <2>2, <3>1, StartFreeProperties
  <2>3. CASE state[b] # "doomed"
    BY <2>1, <2>3, <1>5 DEF TypeOK, FreedOnceUnused
  <2> QED
    BY <2>2, <2>3
<1>12. TypeOK'
  BY <1>4, <1>6, <1>11 DEF TypeOK
<1>13. OneSlotPerBlock'
  <2>1. ASSUME NEW j \in 1..(n - 1), NEW l \in 1..(n - 1),
               refArray'[j].clientData = refArray'[l].clientData
        PROVE  j = l
    BY <2>1, <1>1, <1>8, <1>9 DEF ArrayExact, OneSlotPerBlock
  <2> QED
    BY <2>1, <1>7 DEF OneSlotPerBlock
<1>14. SlotsCount'
  <2>1. ASSUME NEW j \in 1..(n - 1), NEW c \in Block, c = refArray'[j].clientData
        PROVE  refArray'[j].refCount = Cardinality(Users(c)')
    <3>1. c # b /\ c = refArray[from(j)].clientData
      BY <2>1, <1>9
    <3>2. Users(c)' = Users(c)
      BY <3>1, <1>10
    <3> QED
      BY <3>1, <3>2, <1>1, <1>8, <1>9 DEF ArrayExact, SlotsCount
  <2>2. \A j \in 1..(n - 1) : refArray'[j].clientData \in Block
    BY <1>9
  <2> QED
    BY <2>1, <2>2, <1>7 DEF SlotsCount
<1>15. UsersHaveSlot'
  <2>1. ASSUME NEW c, c # b, HasSlot(c) PROVE HasSlot(c)'
    <3>1. PICK m \in 1..n : refArray[m].clientData = c
      BY <2>1, <1>1 DEF HasSlot
    <3>2. PICK j \in 1..(n - 1) : from(j) = m
      BY <2>1, <3>1, <1>8 DEF IsSlot
    <3> QED
      BY <3>1, <3>2, <1>7, <1>9 DEF HasSlot
  <2>2. \A g \in Holder : holds'[g] # b
    BY <1>10 DEF Users
  <2>3. \A g \in Holder : holds'[g] = holds[g] \/ holds'[g] = None
    BY DEF TypeOK
  <2> QED
    BY <2>1, <2>2, <2>3, PreserveConstants DEF ArrayExact, UsersHaveSlot
<1>16. SlotsDoomed'
  <2>1. ASSUME NEW j \in 1..(n - 1)
        PROVE  refArray'[j].mustFree <=> state'[refArray'[j].clientData] = "doomed"
    BY <1>1, <1>8, <1>9, <1>11 DEF ArrayExact, SlotsDoomed
  <2> QED
    BY <2>1, <1>7 DEF SlotsDoomed
<1>17. ArrayExact'
  BY <1>1, <1>4, <1>6, <1>13, <1>14, <1>15, <1>16 DEF ArrayExact, TypeOK
<1>18. FreedOnceUnused'
  <2>1. \A c \in Block : state'[c] = "doomed" => Users(c)' # {}
    BY <1>10, <1>11 DEF FreedOnceUnused
  <2>2. \A c \in Block :
           frees'[c] = IF state'[c] \in {"live", "doomed"} THEN 0 ELSE 1
    BY <1>11 DEF FreedOnceUnused
  <2> QED
    BY <2>1, <2>2 DEF FreedOnceUnused
<1>19. HandleExact'
  BY <1>4, <1>10, PreserveConstants DEF HandleExact
<1> QED
  BY <1>10, <1>11, <1>12, <1>17, <1>18, <1>19

(* Tcl_Release: the caller holds the block, so that it has a slot.         *)
LEMMA ReleaseIInv ==
  ASSUME IInv, NEW h \in Holder, Tcl_Release(h)
  PROVE  IInv' /\ FreeStep
<1>1. PICK b \in Block : b = holds[h]
  BY DEF Tcl_Release
<1>2. PICK i \in DOMAIN refArray : IsSlot(i, b)
  BY <1>1 DEF IInv, ArrayExact, UsersHaveSlot, HasSlot, IsSlot
<1>3. CASE refArray[i].refCount > 1
  BY <1>1, <1>2, <1>3, ReleaseCounted, SameFrees DEF IInv
<1>4. CASE ~(refArray[i].refCount > 1)
  <2>1. /\ IInv' /\ Users(b)' = {}
        /\ \A c \in Block : frees'[c] # frees[c] => c = b
    BY <1>1, <1>2, <1>4, ReleaseLast
  <2>2. \A c \in Block : frees'[c] > frees[c] => frees'[c] # frees[c]
    BY DEF IInv, TypeOK
  <2> QED
    BY <2>1, <2>2 DEF FreeStep
<1> QED
  BY <1>3, <1>4

(* Tcl_EventuallyFree, when the block is in use: it is marked.             *)
LEMMA EventuallyFreeLater ==
  ASSUME IInv, NEW b \in Block, Tcl_EventuallyFree(b), HasSlot(b)
  PROVE  IInv' /\ FreeStep
<1> USE DEF IInv, Tcl_EventuallyFree
<1> DEFINE n == Len(refArray)
<1>1. PICK i \in DOMAIN refArray :
         /\ IsSlot(i, b)
         /\ panicked' = (panicked \/ refArray[i].mustFree)
         /\ refArray' = [refArray EXCEPT ![i].mustFree = TRUE]
         /\ state' = [state EXCEPT ![b] = "doomed"]
         /\ UNCHANGED frees
  OBVIOUS
<1> DEFINE e == [refArray[i] EXCEPT !.mustFree = TRUE]
<1>2. /\ n \in Nat /\ DOMAIN refArray = 1..n /\ i \in 1..n
      /\ \A j \in 1..n : refArray[j] \in Reference
  BY LenProperties DEF TypeOK
<1>3. e \in Reference /\ e.clientData = b /\ e.mustFree = TRUE
      /\ e.refCount = refArray[i].refCount
  BY <1>1, <1>2 DEF Reference, IsSlot
<1>4. refArray' = [refArray EXCEPT ![i] = e]
  BY <1>1
<1>5. /\ refArray' \in Seq(Reference) /\ Len(refArray') = n
      /\ \A j \in 1..n : refArray'[j] = IF j = i THEN e ELSE refArray[j]
  BY <1>2, <1>3, <1>4, ExceptSeq DEF TypeOK
<1>6. DOMAIN refArray' = 1..n
  BY <1>5, LenProperties
<1>7. \A j \in 1..n : /\ refArray'[j].clientData = refArray[j].clientData
                      /\ refArray'[j].refCount = refArray[j].refCount
                      /\ refArray[j].clientData \in Block
  BY <1>1, <1>2, <1>3, <1>5 DEF IsSlot, Reference
<1>8. ~panicked'
  <2>1. ~refArray[i].mustFree
    BY <1>1 DEF ArrayExact, SlotsDoomed, IsSlot
  <2> QED
    BY <1>1, <2>1 DEF ArrayExact
<1>9. \A c : Users(c)' = Users(c)
  BY DEF Users
<1>10. /\ state' \in [Block -> {"live", "doomed", "freeing", "freed"}]
       /\ \A c \in Block : state'[c] = IF c = b THEN "doomed" ELSE state[c]
  BY <1>1 DEF TypeOK
<1>11. TypeOK'
  BY <1>1, <1>5, <1>8, <1>10 DEF TypeOK
<1>12. OneSlotPerBlock'
  BY <1>2, <1>6, <1>7 DEF ArrayExact, OneSlotPerBlock
<1>13. SlotsCount'
  <2>1. ASSUME NEW j \in 1..n, NEW c \in Block, c = refArray'[j].clientData
        PROVE  refArray'[j].refCount = Cardinality(Users(c)')
    BY <2>1, <1>2, <1>7, <1>9 DEF ArrayExact, SlotsCount
  <2> QED
    BY <2>1, <1>6, <1>7 DEF SlotsCount
<1>14. UsersHaveSlot'
  <2>1. \A c : HasSlot(c) => HasSlot(c)'
    BY <1>2, <1>6, <1>7 DEF HasSlot
  <2> QED
    BY <2>1 DEF ArrayExact, UsersHaveSlot
<1>15. SlotsDoomed'
  <2>1. ASSUME NEW j \in 1..n
        PROVE  refArray'[j].mustFree <=> state'[refArray'[j].clientData] = "doomed"
    <3>1. CASE j = i
      BY <3>1, <1>1, <1>2, <1>3, <1>5, <1>10 DEF IsSlot
    <3>2. CASE j # i
      <4>1. refArray[j].clientData # b
        BY <3>2, <1>1, <1>2 DEF ArrayExact, OneSlotPerBlock, IsSlot
      <4> QED
        BY <3>2, <4>1, <1>2, <1>5, <1>7, <1>10 DEF ArrayExact, SlotsDoomed
    <3> QED
      BY <3>1, <3>2
  <2> QED
    BY <2>1, <1>6 DEF SlotsDoomed
<1>16. ArrayExact'
  BY <1>5, <1>8, <1>12, <1>13, <1>14, <1>15 DEF ArrayExact
<1>17. FreedOnceUnused'
  <2>1. Users(b) # {}
    <3>1. Cardinality(Users(b)) # 0 /\ Users(b) \in SUBSET Holder
      BY <1>1, <1>2 DEF ArrayExact, SlotsCount, IsSlot, Reference, Users
    <3> QED
      BY <3>1, HolderSets
  <2>2. \A c \in Block : state'[c] = "doomed" => Users(c)' # {}
    BY <2>1, <1>9, <1>10 DEF FreedOnceUnused
  <2>3. \A c \in Block :
           frees'[c] = IF state'[c] \in {"live", "doomed"} THEN 0 ELSE 1
    BY <1>1, <1>10 DEF FreedOnceUnused
  <2> QED
    BY <2>2, <2>3 DEF FreedOnceUnused
<1>18. HandleExact'
  BY <1>9 DEF HandleExact
<1> QED
  BY <1>1, <1>11, <1>16, <1>17, <1>18, SameFrees

(* Tcl_EventuallyFree, when nobody uses the block: it is freed.            *)
LEMMA EventuallyFreeAtOnce ==
  ASSUME IInv, NEW b \in Block, Tcl_EventuallyFree(b), ~HasSlot(b)
  PROVE  IInv' /\ FreeStep
<1> USE DEF IInv
<1>1. /\ StartFree(b) /\ state[b] = "live"
      /\ UNCHANGED <<refArray, panicked, spaceAvl, holds, handle>>
  BY DEF Tcl_EventuallyFree, HasSlot, IsSlot
<1>2. /\ state' \in [Block -> {"live", "doomed", "freeing", "freed"}]
      /\ frees' \in [Block -> Nat]
      /\ \A c \in Block \ {b} : state'[c] = state[c] /\ frees'[c] = frees[c]
      /\ state'[b] = "freeing" /\ frees'[b] = 1
  BY <1>1, StartFreeProperties
<1>3. Users(b) = {}
  BY DEF ArrayExact, UsersHaveSlot, Users
<1>4. \A c : Users(c)' = Users(c)
  BY <1>1 DEF Users
<1>5. IInv'
  BY <1>1, <1>2, ChangedState
<1>6. FreeStep
  <2>1. \A c \in Block \ {b} : ~(frees'[c] > frees[c])
    BY <1>2 DEF TypeOK
  <2> QED
    BY <2>1, <1>3, <1>4 DEF FreeStep
<1> QED
  BY <1>5, <1>6

(* The steps that only replace the state of a block without users.         *)
LEMMA OtherBlockSteps ==
  ASSUME IInv, NEW b \in Block, FreeProcReturns(b) \/ Allocate(b)
  PROVE  IInv' /\ FreeStep
<1> USE DEF IInv
<1>1. CASE FreeProcReturns(b)
  <2>1. /\ state' \in [Block -> {"live", "doomed", "freeing", "freed"}]
        /\ \A c \in Block \ {b} : state'[c] = state[c]
        /\ state'[b] = "freed" /\ state[b] = "freeing"
        /\ UNCHANGED <<refArray, spaceAvl, frees, holds, handle, panicked>>
    BY <1>1 DEF FreeProcReturns, TypeOK
  <2>2. /\ frees' \in [Block -> Nat] /\ frees'[b] = 1
        /\ \A c \in Block \ {b} : frees'[c] = frees[c]
    BY <2>1 DEF TypeOK, FreedOnceUnused
  <2> QED
    BY <2>1, <2>2, ChangedState, SameFrees
<1>2. CASE Allocate(b)
  <2>1. /\ state' \in [Block -> {"live", "doomed", "freeing", "freed"}]
        /\ \A c \in Block \ {b} : state'[c] = state[c]
        /\ state'[b] = "live" /\ state[b] = "freed"
        /\ UNCHANGED <<refArray, spaceAvl, holds, handle, panicked>>
    BY <1>2 DEF Allocate, TypeOK
  <2>2. /\ frees' \in [Block -> Nat] /\ frees'[b] = 0 /\ frees[b] = 1
        /\ \A c \in Block \ {b} : frees'[c] = frees[c]
    BY <1>2, <2>1 DEF Allocate, TypeOK, FreedOnceUnused
  <2>3. IInv'
    BY <2>1, <2>2, ChangedState
  <2>4. FreeStep
    <3>1. \A c \in Block \ {b} : ~(frees'[c] > frees[c])
      BY <2>2 DEF TypeOK
    <3>2. ~(frees'[b] > frees[b])
      BY <2>2
    <3> QED
      BY <3>1, <3>2 DEF FreeStep
  <2> QED
    BY <2>3, <2>4
<1> QED
  BY <1>1, <1>2

(* TclFinalizePreserve: without users the array is empty already.          *)
LEMMA FinalizeIInv ==
  ASSUME IInv, TclFinalizePreserve
  PROVE  IInv' /\ FreeStep
<1> USE DEF IInv, TclFinalizePreserve
<1>1. refArray' = <<>> /\ refArray' \in Seq(Reference) /\ Len(refArray') = 0
      /\ DOMAIN refArray' = {}
  BY EmptySeq
<1>2. \A c : Users(c)' = Users(c)
  BY DEF Users
<1>3. TypeOK'
  BY <1>1 DEF TypeOK
<1>4. OneSlotPerBlock' /\ SlotsCount' /\ UsersHaveSlot' /\ SlotsDoomed'
  BY <1>1 DEF OneSlotPerBlock, SlotsCount, UsersHaveSlot, SlotsDoomed
<1>5. ArrayExact'
  BY <1>1, <1>4 DEF ArrayExact
<1>6. FreedOnceUnused' /\ HandleExact'
  BY <1>2 DEF FreedOnceUnused, HandleExact
<1> QED
  BY <1>3, <1>5, <1>6, SameFrees

------------------------------------------------------------------------------
(* What the handle functions leave alone keeps the array exact, if the     *)
(* users of blocks stay the same.                                          *)
LEMMA HandleStep ==
  ASSUME IInv, UNCHANGED blockVars,
         \A c \in Block : Users(c)' = Users(c),
         \A g \in Holder : holds'[g] \in Block => holds[g] = holds'[g]
  PROVE  ArrayExact' /\ FreedOnceUnused' /\ FreeStep
<1> USE DEF IInv, blockVars
<1>1. SlotsCount'
  <2>1. \A j \in DOMAIN refArray : refArray[j].clientData \in Block
    BY SlotsNameBlocks
  <2>2. ASSUME NEW j \in DOMAIN refArray, NEW c \in Block, c = refArray[j].clientData
        PROVE  refArray[j].refCount = Cardinality(Users(c)')
    BY <2>2 DEF ArrayExact, SlotsCount
  <2> QED
    BY <2>1, <2>2 DEF SlotsCount
<1>2. UsersHaveSlot'
  <2>1. \A c : HasSlot(c)' = HasSlot(c)
    BY DEF HasSlot
  <2> QED
    BY <2>1 DEF ArrayExact, UsersHaveSlot
<1>3. OneSlotPerBlock' /\ SlotsDoomed'
  BY DEF ArrayExact, OneSlotPerBlock, SlotsDoomed
<1>4. ArrayExact'
  BY <1>1, <1>2, <1>3 DEF ArrayExact
<1>5. FreedOnceUnused'
  BY DEF FreedOnceUnused
<1> QED
  BY <1>4, <1>5, SameFrees

(* TclHandleCreate and TclHandleFree.                                      *)
LEMMA HandleOwnerSteps ==
  ASSUME IInv, NEW x \in Handle, TclHandleCreate(x) \/ TclHandleFree(x)
  PROVE  IInv' /\ FreeStep
<1> USE DEF IInv
<1> DEFINE HS == [valid : BOOLEAN, refCount : Nat]
<1>1. UNCHANGED <<blockVars, holds>>
  BY DEF TclHandleCreate, TclHandleFree
<1>2. \A c : Users(c)' = Users(c)
  BY <1>1 DEF Users
<1>3. ArrayExact' /\ FreedOnceUnused' /\ FreeStep
  BY <1>1, <1>2, HandleStep
<1>4. handle \in [Handle -> HS \cup {None}] /\ None \notin HS
  BY PreserveConstants DEF TypeOK
<1>5. CASE TclHandleCreate(x)
  <2> DEFINE e == [valid |-> TRUE, refCount |-> 0]
  <2>1. e \in HS /\ handle[x] = None /\ handle' = [handle EXCEPT ![x] = e]
    BY <1>5 DEF TclHandleCreate
  <2>2. /\ handle' \in [Handle -> HS \cup {None}] /\ handle'[x] = e
        /\ \A y \in Handle \ {x} : handle'[y] = handle[y]
    BY <2>1, <1>4
  <2>3. Users(x) = {} /\ Cardinality({}) = 0
    BY <2>1, FS_EmptySet DEF HandleExact
  <2>4. HandleExact'
    BY <2>1, <2>2, <2>3, <1>2, <1>4 DEF HandleExact
  <2> QED
    BY <2>2, <2>4, <1>1, <1>3 DEF TypeOK, blockVars
<1>6. CASE TclHandleFree(x)
  <2> DEFINE e == [handle[x] EXCEPT !.valid = FALSE]
  <2>1. handle[x] \in HS /\ handle[x] # None
    BY <1>4, <1>6 DEF TclHandleFree
  <2>2. e \in HS /\ e.refCount = handle[x].refCount
    BY <2>1
  <2>3. handle' = [handle EXCEPT ![x] = IF handle[x].refCount = 0 THEN None ELSE e]
    BY <1>6 DEF TclHandleFree
  <2>4. /\ handle' \in [Handle -> HS \cup {None}]
        /\ handle'[x] = IF handle[x].refCount = 0 THEN None ELSE e
        /\ \A y \in Handle \ {x} : handle'[y] = handle[y]
    BY <2>2, <2>3, <1>4
  <2>5. handle[x].refCount = Cardinality(Users(x)) /\ Users(x) \in SUBSET Holder
    BY <2>1 DEF HandleExact, Users
  <2>6. handle[x].refCount = 0 <=> Users(x) = {}
    BY <2>5, HolderSets
  <2>7. HandleExact'
    BY <2>2, <2>4, <2>5, <2>6, <1>2, <1>4 DEF HandleExact
  <2> QED
    BY <2>4, <2>7, <1>1, <1>3 DEF TypeOK, blockVars
<1> QED
  BY <1>5, <1>6

(* TclHandlePreserve.                                                      *)
LEMMA HandlePreserveIInv ==
  ASSUME IInv, NEW h \in Holder, NEW x \in Handle, TclHandlePreserve(h, x)
  PROVE  IInv' /\ FreeStep
<1> USE DEF IInv
<1> DEFINE HS == [valid : BOOLEAN, refCount : Nat]
           e == [handle[x] EXCEPT !.refCount = @ + 1]
<1>1. /\ UNCHANGED blockVars /\ holds[h] = None
      /\ holds' = [holds EXCEPT ![h] = x] /\ handle' = [handle EXCEPT ![x] = e]
  BY DEF TclHandlePreserve
<1>2. handle \in [Handle -> HS \cup {None}] /\ None \notin HS /\ handle[x] \in HS
  BY PreserveConstants DEF TypeOK, TclHandlePreserve
<1>3. e \in HS /\ e.refCount = handle[x].refCount + 1 /\ e # None
  BY <1>2
<1>4. /\ handle' \in [Handle -> HS \cup {None}] /\ handle'[x] = e
      /\ \A y \in Handle \ {x} : handle'[y] = handle[y]
  BY <1>1, <1>2, <1>3
<1>5. /\ Cardinality(Users(x)') = Cardinality(Users(x)) + 1 /\ Users(x)' # {}
      /\ \A d \in Block \cup Handle : d # x => Users(d)' = Users(d)
  BY <1>1, TakeUser DEF TypeOK
<1>6. ArrayExact' /\ FreedOnceUnused' /\ FreeStep
  <2>1. \A g \in Holder : holds'[g] \in Block => holds[g] = holds'[g]
    BY <1>1, PreserveConstants DEF TypeOK
  <2>2. \A c \in Block : Users(c)' = Users(c)
    BY <1>5, PreserveConstants
  <2> QED
    BY <1>1, <2>1, <2>2, HandleStep
<1>7. HandleExact'
  <2>1. handle'[x].refCount = Cardinality(Users(x)')
    BY <1>2, <1>3, <1>4, <1>5 DEF HandleExact
  <2> QED
    BY <2>1, <1>3, <1>4, <1>5 DEF HandleExact
<1>8. TypeOK'
  <2>1. holds' \in [Holder -> Block \cup Handle \cup {None}]
    BY <1>1 DEF TypeOK
  <2> QED
    BY <2>1, <1>1, <1>4 DEF TypeOK, blockVars
<1> QED
  BY <1>6, <1>7, <1>8

(* TclHandleRelease.                                                       *)
LEMMA HandleReleaseIInv ==
  ASSUME IInv, NEW h \in Holder, TclHandleRelease(h)
  PROVE  IInv' /\ FreeStep
<1> USE DEF IInv
<1> DEFINE HS == [valid : BOOLEAN, refCount : Nat]
<1>1. PICK x \in Handle : x = holds[h]
  BY DEF TclHandleRelease
<1> DEFINE e == [handle[x] EXCEPT !.refCount = @ - 1]
<1>2. /\ UNCHANGED blockVars /\ holds' = [holds EXCEPT ![h] = None]
      /\ handle' = [handle EXCEPT ![x] =
                       IF handle[x].refCount <= 1 /\ ~handle[x].valid THEN None ELSE e]
  <2>1. handle' = [handle EXCEPT ![holds[h]] =
                      IF handle[holds[h]].refCount <= 1 /\ ~handle[holds[h]].valid
                      THEN None
                      ELSE [handle[holds[h]] EXCEPT !.refCount = @ - 1]]
    BY DEF TclHandleRelease
  <2>2. UNCHANGED blockVars /\ holds' = [holds EXCEPT ![h] = None]
    BY DEF TclHandleRelease
  <2> QED
    BY <2>1, <2>2, <1>1
<1>3. /\ Cardinality(Users(x)) \in Nat \ {0}
      /\ Cardinality(Users(x)') = Cardinality(Users(x)) - 1
      /\ Users(x)' = {} <=> Cardinality(Users(x)) = 1
      /\ \A d \in Block \cup Handle : d # x => Users(d)' = Users(d)
  BY <1>1, <1>2, DropUser DEF TypeOK
<1>4. handle \in [Handle -> HS \cup {None}] /\ None \notin HS
  BY PreserveConstants DEF TypeOK
<1>5. handle[x] # None /\ handle[x] \in HS /\ handle[x].refCount = Cardinality(Users(x))
  <2>1. Users(x) # {}
    BY <1>1 DEF Users
  <2> QED
    BY <2>1, <1>4 DEF HandleExact
<1>6. e \in HS /\ e.refCount = handle[x].refCount - 1 /\ e.valid = handle[x].valid
      /\ e # None
  <2>1. handle[x].refCount - 1 \in Nat
    BY <1>3, <1>5
  <2> QED
    BY <2>1, <1>4, <1>5
<1>7. /\ handle' \in [Handle -> HS \cup {None}]
      /\ handle'[x] = IF handle[x].refCount <= 1 /\ ~handle[x].valid THEN None ELSE e
      /\ \A y \in Handle \ {x} : handle'[y] = handle[y]
  BY <1>2, <1>4, <1>6
<1>8. ArrayExact' /\ FreedOnceUnused' /\ FreeStep
  <2>1. \A g \in Holder : holds'[g] \in Block => holds[g] = holds'[g]
    BY <1>2, PreserveConstants DEF TypeOK
  <2>2. \A c \in Block : Users(c)' = Users(c)
    BY <1>3, PreserveConstants
  <2> QED
    BY <1>2, <2>1, <2>2, HandleStep
<1>9. HandleExact'
  <2>1. handle[x].refCount <= 1 <=> Users(x)' = {}
    BY <1>3, <1>5
  <2>2. IF handle'[x] = None THEN Users(x)' = {}
        ELSE /\ handle'[x].refCount = Cardinality(Users(x)')
             /\ handle'[x].valid \/ Users(x)' # {}
    BY <2>1, <1>3, <1>5, <1>6, <1>7
  <2>3. \A y \in Handle \ {x} : Users(y)' = Users(y)
    BY <1>3
  <2> QED
    BY <2>2, <2>3, <1>7 DEF HandleExact
<1>10. TypeOK'
  <2>1. holds' \in [Holder -> Block \cup Handle \cup {None}]
    BY <1>2 DEF TypeOK
  <2> QED
    BY <2>1, <1>2, <1>7 DEF TypeOK, blockVars
<1> QED
  BY <1>8, <1>9, <1>10

------------------------------------------------------------------------------
(* Every step preserves the invariant, and calls a free procedure only     *)
(* when nobody uses the block.                                             *)
LEMMA NextIInv == IInv /\ [Next]_vars => IInv' /\ FreeStep
<1> SUFFICES ASSUME IInv, [Next]_vars PROVE IInv' /\ FreeStep
  OBVIOUS
<1>1. ASSUME NEW h \in Holder, NEW b \in Block, Tcl_Preserve(h, b)
      PROVE  IInv' /\ FreeStep
  <2>1. IInv'
    BY <1>1, PreserveOldSlot, PreserveNewSlot
  <2>2. UNCHANGED frees
    BY <1>1 DEF Tcl_Preserve
  <2> QED
    BY <2>1, <2>2, SameFrees DEF IInv
<1>2. ASSUME NEW h \in Holder, Tcl_Release(h) PROVE IInv' /\ FreeStep
  BY <1>2, ReleaseIInv
<1>3. ASSUME NEW h \in Holder, TclHandleRelease(h) PROVE IInv' /\ FreeStep
  BY <1>3, HandleReleaseIInv
<1>4. ASSUME NEW b \in Block, Tcl_EventuallyFree(b) PROVE IInv' /\ FreeStep
  BY <1>4, EventuallyFreeLater, EventuallyFreeAtOnce
<1>5. ASSUME NEW b \in Block, FreeProcReturns(b) \/ Allocate(b)
      PROVE  IInv' /\ FreeStep
  BY <1>5, OtherBlockSteps
<1>6. ASSUME NEW x \in Handle, TclHandleCreate(x) \/ TclHandleFree(x)
      PROVE  IInv' /\ FreeStep
  BY <1>6, HandleOwnerSteps
<1>7. ASSUME NEW h \in Holder, NEW x \in Handle, TclHandlePreserve(h, x)
      PROVE  IInv' /\ FreeStep
  BY <1>7, HandlePreserveIInv
<1>8. ASSUME TclFinalizePreserve PROVE IInv' /\ FreeStep
  BY <1>8, FinalizeIInv
<1>9. ASSUME UNCHANGED vars PROVE IInv' /\ FreeStep
  <2>1. UNCHANGED <<blockVars, holds, handle>> /\ \A c : Users(c)' = Users(c)
    BY <1>9 DEF vars, Users
  <2>2. ArrayExact' /\ FreedOnceUnused' /\ FreeStep
    BY <2>1, HandleStep
  <2> QED
    BY <2>1, <2>2 DEF IInv, TypeOK, HandleExact, blockVars
<1> QED
  BY <1>1, <1>2, <1>3, <1>4, <1>5, <1>6, <1>7, <1>8, <1>9 DEF Next

(* The invariant holds throughout every behaviour.                         *)
THEOREM Invariance == Spec => []IInv
<1>1. IInv /\ [Next]_vars => IInv'
  BY NextIInv
<1> QED
  BY <1>1, InitIInv, PTL DEF Spec

(* Every variable stays in its type.                                       *)
THEOREM TypeCorrect == Spec => []TypeOK
<1>1. IInv => TypeOK
  BY DEF IInv
<1> QED
  BY <1>1, Invariance, PTL

(* The reference array has exactly one slot for each block in use, counts  *)
(* its users and never overflows, whatever the free procedures do, and     *)
(* callers that pair their calls never meet a panic.                       *)
THEOREM ArrayIsExact == Spec => []ArrayExact
<1>1. IInv => ArrayExact
  BY DEF IInv
<1> QED
  BY <1>1, Invariance, PTL

(* A block is freed exactly once after Tcl_EventuallyFree, and its release *)
(* is put off only while it has users.                                     *)
THEOREM FreedOnce == Spec => []FreedOnceUnused
<1>1. IInv => FreedOnceUnused
  BY DEF IInv
<1> QED
  BY <1>1, Invariance, PTL

(* Tcl_Release and Tcl_EventuallyFree never free a block somebody uses.    *)
THEOREM FreedOnlyUnused == Spec => FreedWhenUnused
<1>1. IInv /\ [Next]_vars =>
         [\A b \in Block : frees'[b] > frees[b] => Users(b)' = {}]_vars
  BY NextIInv DEF FreeStep
<1> QED
  BY <1>1, Invariance, PTL DEF Spec, FreedWhenUnused

(* A HandleStruct lives exactly as long as its block or somebody           *)
(* interested in it, and counts those interested.                          *)
THEOREM HandlesAreExact == Spec => []HandleExact
<1>1. IInv => HandleExact
  BY DEF IInv
<1> QED
  BY <1>1, Invariance, PTL
=============================================================================
