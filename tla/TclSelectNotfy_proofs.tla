------------------------ MODULE TclSelectNotfy_proofs ------------------------
(***************************************************************************)
(* Proofs about TclSelectNotfy, for all sets of threads, descriptors and   *)
(* conditions.  What concerns file handlers holds unconditionally; what    *)
(* concerns the notifier thread holds if no thread forks while another one *)
(* starts the notifier thread (~ForkAtStart; see the README, section 6).   *)
(***************************************************************************)
EXTENDS TclSelectNotfy, FiniteSetTheorems, WellFoundedInduction, TLAPS

(* A set of naturals that is not empty has a least element.                *)
LEMMA LeastElement ==
    ASSUME NEW S \in SUBSET Nat, S # {}
    PROVE  \E n \in S : \A m \in S : n <= m
<1>1. PICK n \in S : \A m \in S : <<m, n>> \notin OpToRel(<, Nat)
  BY WFMin, NatLessThanWellFounded, Zenon
<1>2. \A m \in S : ~(m < n)
  BY <1>1, Zenon DEF OpToRel
<1>3. n \in Nat /\ \A m \in S : m \in Nat
  OBVIOUS
<1> QED
  BY <1>2, <1>3

(* A set of naturals with a bound has a greatest element.                  *)
LEMMA GreatestElement ==
  ASSUME NEW used \in SUBSET Nat, used # {}, NEW f \in Nat, \A g \in used : g < f
  PROVE  \E g \in used : \A h \in used : h <= g
<1> DEFINE bounds == {n \in Nat : \A h \in used : h <= n}
<1>1. bounds \in SUBSET Nat /\ f \in bounds
  OBVIOUS
<1> HIDE DEF bounds
<1>2. PICK n \in bounds : \A m \in bounds : n <= m
  <2>1. bounds # {}
    BY <1>1
  <2> QED
    BY ONLY <1>1, <2>1, LeastElement, Zenon
<1>3. n \in Nat /\ \A h \in used : h <= n
  BY <1>1 DEF bounds
<1>4. CASE n \in used
  BY <1>3, <1>4
<1>5. CASE n \notin used
  <2>1. \A h \in used : h < n
    BY <1>3, <1>5
  <2>2. n - 1 \in Nat /\ \A h \in used : h <= n - 1
    <3>1. PICK g \in used : g \in Nat /\ g < n
      BY <2>1
    <3>2. \A h \in used : h \in Nat
      OBVIOUS
    <3> QED
      BY <1>3, <2>1, <3>1, <3>2
  <2>3. n - 1 \in bounds
    BY <2>2 DEF bounds
  <2> QED
    BY <1>2, <1>3, <2>3
<1> QED
  BY <1>4, <1>5

(* Unlinking the i-th element of a list leaves the others, in their order: *)
(* what happens to the list of waiting threads.                            *)
LEMMA RemoveAtElements ==
    ASSUME NEW S, NEW s \in Seq(S), NEW i \in DOMAIN s
    PROVE  /\ RemoveAt(s, i) \in Seq(S)
           /\ DOMAIN RemoveAt(s, i) = 1..(Len(s) - 1)
           /\ \A j \in 1..(Len(s) - 1) :
                 RemoveAt(s, i)[j] = IF j < i THEN s[j] ELSE s[j + 1]
<1> DEFINE a == SubSeq(s, 1, i - 1)
           b == SubSeq(s, i + 1, Len(s))
<1>1. i \in 1..Len(s) /\ Len(s) \in Nat
  OBVIOUS
<1>2. /\ a \in Seq(S) /\ Len(a) = i - 1
      /\ \A j \in 1..(i - 1) : a[j] = s[j]
  BY <1>1
<1>3. /\ b \in Seq(S) /\ Len(b) = Len(s) - i
      /\ \A j \in 1..(Len(s) - i) : b[j] = s[i + j]
  BY <1>1
<1>4. RemoveAt(s, i) = a \o b
  BY DEF RemoveAt
<1> HIDE DEF a, b
<1>5. /\ a \o b \in Seq(S) /\ Len(a \o b) = Len(s) - 1
  BY <1>1, <1>2, <1>3
<1>6. \A j \in 1..(Len(s) - 1) :
         (a \o b)[j] = IF j < i THEN s[j] ELSE s[j + 1]
  <2> TAKE j \in 1..(Len(s) - 1)
  <2>1. CASE j < i
    BY <1>1, <1>2, <1>3, <2>1
  <2>2. CASE j >= i
    <3>1. (a \o b)[j] = b[j - (i - 1)]
      BY <1>1, <1>2, <1>3, <2>2
    <3>2. b[j - (i - 1)] = s[i + (j - (i - 1))]
      BY <1>1, <1>3, <2>2
    <3> QED BY <3>1, <3>2, <2>2, <1>1
  <2>3. j < i \/ j >= i
    BY <1>1
  <2> QED BY <2>1, <2>2, <2>3
<1> QED BY <1>1, <1>4, <1>5, <1>6

(* The members of a list after one is unlinked.                            *)
LEMMA RemoveAtMembers ==
    ASSUME NEW S, NEW s \in Seq(S), NEW i \in DOMAIN s,
           NEW r, r = RemoveAt(s, i)
    PROVE  /\ r \in Seq(S)
           /\ \A j \in DOMAIN r : \E k \in DOMAIN s : k # i /\ r[j] = s[k]
           /\ \A k \in DOMAIN s : k # i => \E j \in DOMAIN r : r[j] = s[k]
<1>1. /\ r \in Seq(S) /\ DOMAIN r = 1..(Len(s) - 1)
      /\ \A j \in 1..(Len(s) - 1) : r[j] = IF j < i THEN s[j] ELSE s[j + 1]
  BY RemoveAtElements
<1>2. i \in 1..Len(s) /\ DOMAIN s = 1..Len(s) /\ Len(s) \in Nat
  OBVIOUS
<1>3. \A j \in DOMAIN r : \E k \in DOMAIN s : k # i /\ r[j] = s[k]
  <2> TAKE j \in DOMAIN r
  <2>1. CASE j < i
    BY <1>1, <1>2, <2>1
  <2>2. CASE ~(j < i)
    <3>1. j + 1 \in DOMAIN s /\ j + 1 # i /\ r[j] = s[j + 1]
      BY <1>1, <1>2, <2>2
    <3> QED BY <3>1
  <2> QED BY <2>1, <2>2
<1>4. \A k \in DOMAIN s : k # i => \E j \in DOMAIN r : r[j] = s[k]
  <2> SUFFICES ASSUME NEW k \in DOMAIN s, k # i
               PROVE  \E j \in DOMAIN r : r[j] = s[k]
    OBVIOUS
  <2>1. CASE k < i
    BY <1>1, <1>2, <2>1
  <2>2. CASE ~(k < i)
    <3>1. k - 1 \in DOMAIN r /\ r[k - 1] = s[k]
      BY <1>1, <1>2, <2>2
    <3> QED BY <3>1
  <2> QED BY <2>1, <2>2
<1> QED BY <1>1, <1>3, <1>4

(* A list without duplicates stays so when one element is unlinked.        *)
LEMMA RemoveAtInjective ==
    ASSUME NEW S, NEW s \in Seq(S), NEW i \in DOMAIN s, IsInjective(s)
    PROVE  IsInjective(RemoveAt(s, i))
<1> DEFINE r == RemoveAt(s, i)
           up(n) == IF n < i THEN n ELSE n + 1
<1>1. /\ DOMAIN r = 1..(Len(s) - 1)
      /\ \A j \in 1..(Len(s) - 1) : r[j] = IF j < i THEN s[j] ELSE s[j + 1]
  BY RemoveAtElements
<1>2. i \in 1..Len(s) /\ DOMAIN s = 1..Len(s) /\ Len(s) \in Nat
  OBVIOUS
<1> HIDE DEF r
<1>3. \A n \in DOMAIN r : up(n) \in DOMAIN s /\ r[n] = s[up(n)]
  BY <1>1, <1>2
<1>4. ASSUME NEW j \in DOMAIN r, NEW k \in DOMAIN r, r[j] = r[k]
      PROVE  j = k
  <2>1. up(j) = up(k)
    BY <1>3, <1>4 DEF IsInjective
  <2> QED BY <2>1, <1>1, <1>2
<1>5. IsInjective(r)
  BY <1>4 DEF IsInjective
<1> QED BY <1>5 DEF r

(* Threads whose notifier counts.                                          *)
Counted == {t \in Thread : pc[t] \notin {"off", "quit"}}

(* The bits the file handlers of t want.                                   *)
WantedBits(t) ==
    {x \in Bits : Registered(x[1], t) /\ x[2] \in handler[t][x[1]].mask}

(* checkMasks has all the wanted bits and no other one, numFdBits is above *)
(* each of them, and a new event for a handler fits in the queue: the old  *)
(* ones of the descriptor are fewer, unless one is known to be queued.     *)
HandlerInv ==
    /\ \A t \in Thread : checkMasks[t] = WantedBits(t)
    /\ \A t \in Thread : \A x \in checkMasks[t] : x[1] < numFdBits[t]
    /\ ReadyMeansQueued
    /\ \A t \in Thread, f \in Fd : events[t][f] = MaxEvents =>
          Registered(f, t) /\ handler[t][f].readyMask # {}

Working == npc \in {"masks", "select", "alert", "read"} /\ triggerPipe = "open"

(* The life of the notifier thread as notifierInitMutex orders it: nobody, *)
(* a thread that starts it, it works, the last thread stops it.            *)
Phases ==
    /\ triggerPipe # "parent"
    /\ \A t \in Thread : pc[t] \in {"starting", "quit"} <=> initMutex = t
    /\ initMutex = None /\ ~notifierThreadRunning =>
          npc = "none" /\ triggerPipe = None
    /\ \A t \in Thread : pc[t] = "starting" =>
          /\ ~notifierThreadRunning
          /\ \/ npc = "create" /\ triggerPipe = None
             \/ Working /\ "q" \notin pipe
    /\ notifierThreadRunning /\ (\A t \in Thread : pc[t] # "quit") =>
          Working /\ "q" \notin pipe
    /\ \A t \in Thread : pc[t] = "quit" =>
          /\ notifierThreadRunning
          /\ \A u \in Thread : u # t => pc[u] = "off"
          /\ \/ Working /\ "q" \in pipe
             \/ npc = "exit" /\ triggerPipe = "open"
             \/ npc = "none" /\ triggerPipe = None
    /\ \A t \in Thread : pc[t] \in {"enter", "wait"} => notifierThreadRunning

(* The notifier thread never tests a buffer that it has not read into,     *)
(* since it does not get past select before there is a byte in the pipe.   *)
BufferRead ==
    npc \in {"masks", "select", "alert", "read"} =>
       /\ buf # "q"
       /\ buf = "uninit" /\ pipe = {} =>
             /\ npc \in {"masks", "select"} /\ waitingList = <<>>
             /\ npc = "select" => masks = {} /\ ~poll

(* The inductive invariant of the notifier thread and its waiters.         *)
IInv == TypeOK /\ Phases /\ BufferRead /\ NoWaiterDropped /\ SelectIsCurrent
------------------------------------------------------------------------------
(* The search of TclpDeleteFileHandler for the highest descriptor that     *)
(* still has a bit ends above each of them.                                *)
LEMMA HighestBelowCovers ==
  ASSUME NEW f \in Fd, NEW bits \in SUBSET Bits, NEW n, n = HighestBelow(f, bits)
  PROVE  n \in Nat /\ \A x \in bits : x[1] < f => x[1] < n
<1> DEFINE used == {g \in Fd : g < f /\ \E x \in bits : x[1] = g}
<1>1. used \in SUBSET Nat /\ f \in Nat /\ \A g \in used : g < f
  BY SelectConstants
<1>2. \A x \in bits : x[1] < f => x[1] \in used
  BY DEF Bits
<1>3. n = IF used = {} THEN 0
          ELSE 1 + CHOOSE g \in used : \A h \in used : h <= g
  BY DEF HighestBelow
<1> HIDE DEF used
<1>4. CASE used = {}
  BY <1>2, <1>3, <1>4
<1>5. CASE used # {}
  <2>1. \E g \in used : \A h \in used : h <= g
    BY <1>1, <1>5, GreatestElement
  <2>2. PICK g \in used : g = (CHOOSE m \in used : \A h \in used : h <= m)
                          /\ \A h \in used : h <= g
    BY <2>1
  <2>3. n = 1 + g
    BY <1>3, <1>5, <2>2, Zenon
  <2>4. \A x \in bits : x[1] < f => x[1] \in Nat /\ x[1] <= g
    BY <1>1, <1>2, <2>2
  <2>5. g \in Nat
    BY <1>1
  <2>6. n \in Nat
    BY ONLY <2>3, <2>5
  <2> QED
    BY <2>3, <2>4, <2>5, <2>6
<1> QED
  BY <1>4, <1>5

(* Threads that are counted are finitely many.                             *)
LEMMA CountedFinite == IsFiniteSet(Counted) /\ IsFiniteSet(Counted')
<1>1. Counted \in SUBSET Thread /\ Counted' \in SUBSET Thread
  BY DEF Counted
<1> QED
  BY <1>1, SelectConstants, FS_Subset

(* The count follows a thread that initialises its notifier.               *)
LEMMA CountedMore ==
  ASSUME TypeOK, NEW t \in Thread, pc[t] = "off", pc' = [pc EXCEPT ![t] = "run"]
  PROVE  Cardinality(Counted') = notifierCount + 1
<1>1. Counted' = Counted \cup {t} /\ t \notin Counted
  BY DEF TypeOK, Counted
<1>2. Cardinality(Counted \cup {t}) = Cardinality(Counted) + 1
  BY <1>1, CountedFinite, FS_AddElement
<1> QED
  BY <1>1, <1>2 DEF TypeOK, Counted

(* The count follows a thread that finalises its notifier.                 *)
LEMMA CountedLess ==
  ASSUME TypeOK, NEW t \in Thread, pc[t] = "run", NEW s \in {"off", "quit"},
         pc' = [pc EXCEPT ![t] = s]
  PROVE  Cardinality(Counted') = notifierCount - 1
<1>1. Counted' = Counted \ {t} /\ t \in Counted
  BY DEF TypeOK, Counted
<1>2. Cardinality(Counted \ {t}) = Cardinality(Counted) - 1
  BY <1>1, CountedFinite, FS_RemoveElement
<1> QED
  BY <1>1, <1>2 DEF TypeOK, Counted

(* The count does not depend on where a thread with a notifier is.         *)
LEMMA CountedSame ==
  ASSUME TypeOK, \A t \in Thread : pc[t] \in {"off", "quit"} <=> pc'[t] \in {"off", "quit"}
  PROVE  Cardinality(Counted') = notifierCount
<1>1. Counted' = Counted
  BY DEF Counted
<1> QED
  BY <1>1 DEF TypeOK, Counted

(* The last thread with a notifier is the only one.                        *)
LEMMA LastCounted ==
  ASSUME TypeOK, notifierCount = 1, NEW t \in Thread, pc[t] = "run",
         NEW u \in Thread, u # t
  PROVE  pc[u] \in {"off", "quit"}
<1>1. Cardinality(Counted) = 1
  BY DEF TypeOK, Counted
<1>2. PICK x : Counted = {x}
  BY <1>1, CountedFinite, FS_Singleton
<1>3. t \in Counted
  BY DEF Counted
<1> QED
  BY <1>2, <1>3 DEF Counted

(* A thread taken off the list, where it was once, is off it, and the      *)
(* others stay on it once.                                                 *)
LEMMA UnlinkList ==
  ASSUME waitingList \in Seq(Thread), NEW t \in Thread, Unlink(t)
  PROVE  /\ waitingList' \in Seq(Thread)
         /\ \A u \in Thread : OnList(u)' => OnList(u)
         /\ \A u \in Thread : u # t /\ OnList(u) => OnList(u)'
         /\ IsInjective(waitingList) => IsInjective(waitingList') /\ ~OnList(t)'
<1>1. PICK i \in DOMAIN waitingList :
         waitingList[i] = t /\ waitingList' = RemoveAt(waitingList, i)
  BY DEF Unlink
<1>2. /\ waitingList' \in Seq(Thread)
      /\ \A j \in DOMAIN waitingList' : \E k \in DOMAIN waitingList :
            k # i /\ waitingList'[j] = waitingList[k]
      /\ \A k \in DOMAIN waitingList : k # i =>
            \E j \in DOMAIN waitingList' : waitingList'[j] = waitingList[k]
  BY <1>1, RemoveAtMembers
<1>3. ASSUME IsInjective(waitingList)
      PROVE  IsInjective(waitingList') /\ ~OnList(t)'
  <2>1. IsInjective(waitingList')
    BY <1>1, <1>3, RemoveAtInjective
  <2> QED
    BY <2>1, <1>1, <1>2, <1>3 DEF OnList, IsInjective
<1> QED
  BY <1>1, <1>2, <1>3 DEF OnList

------------------------------------------------------------------------------
(* A new or replaced file handler has exactly its bits set, and numFdBits  *)
(* moves up to it.                                                         *)
LEMMA CreateHandlerInv ==
  ASSUME TypeOK, HandlerInv, NEW t \in Thread, NEW f \in Fd,
         NEW m \in SUBSET Condition, TclpCreateFileHandler(t, f, m)
  PROVE  /\ handler' \in [Thread -> [Fd -> FileHandler \cup {None}]]
         /\ checkMasks' \in [Thread -> SUBSET Bits] /\ numFdBits' \in [Thread -> Nat]
         /\ HandlerInv'
<1> DEFINE h == [mask |-> m, readyMask |-> IF Registered(f, t)
                                          THEN handler[t][f].readyMask ELSE {}]
<1>1. h \in FileHandler /\ h # None
  <2>1. handler[t][f] \in FileHandler \cup {None}
    BY DEF TypeOK
  <2>2. h \in FileHandler
    BY <2>1 DEF FileHandler, Registered
  <2> QED
    BY <2>2, SelectConstants
<1>2. /\ handler' = [handler EXCEPT ![t] = [@ EXCEPT ![f] = h]]
      /\ checkMasks' = [checkMasks EXCEPT ![t] = NewBits(t, f, m)]
      /\ numFdBits' = [numFdBits EXCEPT ![t] = IF @ <= f THEN f + 1 ELSE @]
      /\ UNCHANGED events
  BY DEF TclpCreateFileHandler, TypeOK
<1>3. h.mask = m /\ (~Registered(f, t) => h.readyMask = {})
      /\ (Registered(f, t) => h.readyMask = handler[t][f].readyMask)
  OBVIOUS
<1> HIDE DEF h
<1>4. handler' \in [Thread -> [Fd -> FileHandler \cup {None}]]
  BY <1>1, <1>2 DEF TypeOK
<1>5. /\ handler'[t][f] = h
      /\ \A g \in Fd : g # f => handler'[t][g] = handler[t][g]
      /\ \A u \in Thread : u # t => handler'[u] = handler[u]
  BY <1>2 DEF TypeOK
<1>6. NewBits(t, f, m) \subseteq Bits
  <2>1. checkMasks[t] \subseteq Bits /\ \A c \in m : <<f, c>> \in Bits
    BY DEF TypeOK, Bits
  <2> QED
    BY <2>1 DEF NewBits
<1>7. checkMasks' \in [Thread -> SUBSET Bits]
  BY <1>2, <1>6 DEF TypeOK
<1>8. numFdBits' \in [Thread -> Nat]
  <2>1. f + 1 \in Nat
    BY SelectConstants
  <2> QED
    BY <2>1, <1>2 DEF TypeOK
<1>9. ASSUME NEW u \in Thread PROVE checkMasks'[u] = WantedBits(u)'
  <2>1. CASE u # t
    BY <2>1, <1>2, <1>5 DEF TypeOK, HandlerInv, WantedBits, Registered
  <2>2. CASE u = t
    <3>1. checkMasks'[t] = NewBits(t, f, m)
      BY <1>2 DEF TypeOK
    <3>2. ASSUME NEW x \in Bits
          PROVE  x \in NewBits(t, f, m) <=> x \in WantedBits(t)'
      <4>1. x \in WantedBits(t)' <=> handler'[t][x[1]] # None
                                     /\ x[2] \in handler'[t][x[1]].mask
        BY DEF WantedBits, Registered
      <4>2. x[1] \in Fd /\ x = <<x[1], x[2]>>
        BY DEF Bits
      <4>3. CASE x[1] = f
        BY <4>1, <4>2, <4>3, <1>1, <1>3, <1>5 DEF NewBits
      <4>4. CASE x[1] # f
        <5>1. x \in NewBits(t, f, m) <=> x \in checkMasks[t]
          BY <4>2, <4>4 DEF NewBits
        <5>2. x \in checkMasks[t] <=> x \in WantedBits(t)
          BY DEF HandlerInv
        <5> QED
          BY <5>1, <5>2, <4>1, <4>2, <4>4, <1>5 DEF WantedBits, Registered
      <4> QED
        BY <4>3, <4>4
    <3>3. NewBits(t, f, m) \subseteq Bits /\ WantedBits(t)' \subseteq Bits
      BY <1>6 DEF WantedBits
    <3> QED
      BY <2>2, <3>1, <3>2, <3>3
  <2> QED
    BY <2>1, <2>2
<1>10. ASSUME NEW u \in Thread, NEW x \in checkMasks'[u] PROVE x[1] < numFdBits'[u]
  <2>1. CASE u # t
    BY <2>1, <1>2, <1>10 DEF TypeOK, HandlerInv
  <2>2. CASE u = t
    <3>1. x \in NewBits(t, f, m)
      BY <2>2, <1>2, <1>10 DEF TypeOK
    <3>2. x[1] \in Nat /\ numFdBits[t] \in Nat /\ f \in Nat
      <4>1. checkMasks[t] \subseteq Bits /\ numFdBits[t] \in Nat
        BY DEF TypeOK
      <4>2. x[1] = f \/ x \in Bits
        BY <3>1, <4>1 DEF NewBits
      <4>3. x[1] \in Fd /\ f \in Fd
        BY <4>2 DEF Bits
      <4> QED
        BY <4>1, <4>3, SelectConstants
    <3>3. x[1] = f \/ x[1] < numFdBits[t]
      BY <3>1 DEF NewBits, HandlerInv
    <3>4. numFdBits'[t] = IF numFdBits[t] <= f THEN f + 1 ELSE numFdBits[t]
      BY <1>2 DEF TypeOK
    <3> QED
      BY <2>2, <3>2, <3>3, <3>4
  <2> QED
    BY <2>1, <2>2
<1>11. ReadyMeansQueued'
  BY <1>1, <1>2, <1>3, <1>5 DEF HandlerInv, ReadyMeansQueued, Registered, TypeOK
<1>12. ASSUME NEW u \in Thread, NEW g \in Fd, events'[u][g] = MaxEvents
      PROVE  Registered(g, u)' /\ handler'[u][g].readyMask # {}
  <2>1. Registered(g, u) /\ handler[u][g].readyMask # {}
    BY <1>2, <1>12 DEF HandlerInv
  <2> QED
    BY <2>1, <1>1, <1>3, <1>5 DEF Registered
<1> QED
  BY <1>4, <1>9, <1>10, <1>11, <1>12, <1>7, <1>8 DEF HandlerInv

(* A deleted file handler leaves no bit and none above numFdBits.          *)
LEMMA DeleteHandlerInv ==
  ASSUME TypeOK, HandlerInv, NEW t \in Thread, NEW f \in Fd,
         TclpDeleteFileHandler(t, f)
  PROVE  /\ handler' \in [Thread -> [Fd -> FileHandler \cup {None}]]
         /\ numFdBits' \in [Thread -> Nat] /\ HandlerInv'
<1> DEFINE bits == NewBits(t, f, {})
           top == HighestBelow(f, bits)
<1>1. bits = {x \in checkMasks[t] : x[1] # f} /\ bits \in SUBSET Bits
  BY DEF NewBits, TypeOK
<1>2. /\ handler' = [handler EXCEPT ![t] = [@ EXCEPT ![f] = None]]
      /\ checkMasks' = [checkMasks EXCEPT ![t] = bits]
      /\ numFdBits' = [numFdBits EXCEPT ![t] = IF f + 1 = @ THEN top ELSE @]
      /\ UNCHANGED events /\ events[t][f] < MaxEvents
  BY DEF TclpDeleteFileHandler, TypeOK
<1>3. top \in Nat /\ \A x \in bits : x[1] < f => x[1] < top
  BY <1>1, HighestBelowCovers
<1> HIDE DEF bits, top
<1>4. handler' \in [Thread -> [Fd -> FileHandler \cup {None}]]
  BY <1>2 DEF TypeOK
<1>5. /\ handler'[t][f] = None
      /\ \A g \in Fd : g # f => handler'[t][g] = handler[t][g]
      /\ \A u \in Thread : u # t => handler'[u] = handler[u]
  BY <1>2 DEF TypeOK
<1>6. ASSUME NEW u \in Thread PROVE checkMasks'[u] = WantedBits(u)'
  <2>1. CASE u # t
    BY <2>1, <1>2, <1>5 DEF TypeOK, HandlerInv, WantedBits, Registered
  <2>2. CASE u = t
    <3>1. checkMasks'[t] = bits
      BY <1>2 DEF TypeOK
    <3>2. ASSUME NEW x \in Bits PROVE x \in bits <=> x \in WantedBits(t)'
      <4>1. x \in WantedBits(t)' <=> handler'[t][x[1]] # None
                                     /\ x[2] \in handler'[t][x[1]].mask
        BY DEF WantedBits, Registered
      <4>2. x[1] \in Fd
        BY DEF Bits
      <4>3. x \in checkMasks[t] <=> x \in WantedBits(t)
        BY DEF HandlerInv
      <4> QED
        BY <1>1, <1>5, <4>1, <4>2, <4>3 DEF WantedBits, Registered
    <3>3. WantedBits(t)' \subseteq Bits
      BY DEF WantedBits
    <3> QED
      BY <1>1, <2>2, <3>1, <3>2, <3>3
  <2> QED
    BY <2>1, <2>2
<1>7. ASSUME NEW u \in Thread, NEW x \in checkMasks'[u] PROVE x[1] < numFdBits'[u]
  <2>1. CASE u # t
    BY <2>1, <1>2, <1>7 DEF TypeOK, HandlerInv
  <2>2. CASE u = t
    <3>1. x \in bits
      BY <2>2, <1>2, <1>7 DEF TypeOK
    <3>2. x[1] \in Nat /\ numFdBits[t] \in Nat /\ f \in Nat
      BY <3>1, <1>1, SelectConstants DEF TypeOK, Bits
    <3>3. x[1] # f /\ x[1] < numFdBits[t]
      BY <3>1, <1>1 DEF HandlerInv
    <3>4. numFdBits'[t] = IF f + 1 = numFdBits[t] THEN top ELSE numFdBits[t]
      BY <1>2 DEF TypeOK
    <3>5. x[1] < f => x[1] < top
      BY <3>1, <1>3
    <3> QED
      BY <2>2, <3>2, <3>3, <3>4, <3>5
  <2> QED
    BY <2>1, <2>2
<1>8. ReadyMeansQueued'
  BY <1>2, <1>5 DEF HandlerInv, ReadyMeansQueued, Registered, TypeOK
<1>9. ASSUME NEW u \in Thread, NEW g \in Fd, events'[u][g] = MaxEvents
      PROVE  Registered(g, u)' /\ handler'[u][g].readyMask # {}
  <2>1. Registered(g, u) /\ handler[u][g].readyMask # {}
    BY <1>2, <1>9 DEF HandlerInv
  <2>2. u # t \/ g # f
    <3>1. events[u][g] = MaxEvents /\ ~(MaxEvents < MaxEvents)
      BY <1>2, <1>9, SelectConstants
    <3> QED
      BY <3>1, <1>2
  <2> QED
    BY <2>1, <2>2, <1>5 DEF Registered
<1>10. numFdBits' \in [Thread -> Nat]
  BY <1>2, <1>3 DEF TypeOK
<1> QED
  BY <1>4, <1>6, <1>7, <1>8, <1>9, <1>10 DEF HandlerInv

(* The handler's event leaves the queue and nothing is known of the        *)
(* conditions it had seen.                                                 *)
LEMMA EventProcInv ==
  ASSUME TypeOK, HandlerInv, NEW t \in Thread, NEW f \in Fd,
         FileHandlerEventProc(t, f)
  PROVE  /\ handler' \in [Thread -> [Fd -> FileHandler \cup {None}]]
         /\ events' \in [Thread -> [Fd -> 0..MaxEvents]] /\ HandlerInv'
<1>1. /\ events' = [events EXCEPT ![t][f] = @ - 1]
      /\ events[t][f] > 0 /\ UNCHANGED <<checkMasks, numFdBits>>
      /\ handler' = IF Registered(f, t)
                    THEN [handler EXCEPT ![t][f].readyMask = {}] ELSE handler
  BY DEF FileHandlerEventProc
<1>2. events[t][f] \in 0..MaxEvents /\ MaxEvents \in Nat
  <2>1. events[t][f] \in 0..MaxEvents
    BY DEF TypeOK
  <2> QED
    BY <2>1, SelectConstants
<1>3. /\ events' \in [Thread -> [Fd -> 0..MaxEvents]]
      /\ events'[t][f] = events[t][f] - 1
      /\ \A u \in Thread, g \in Fd : u # t \/ g # f => events'[u][g] = events[u][g]
  <2>1. events[t][f] - 1 \in 0..MaxEvents
    BY <1>1, <1>2
  <2> QED
    BY <1>1, <2>1 DEF TypeOK
<1>4. handler[t][f] \in FileHandler \cup {None}
  BY DEF TypeOK
<1>5. /\ handler' \in [Thread -> [Fd -> FileHandler \cup {None}]]
      /\ \A u \in Thread, g \in Fd : u # t \/ g # f => handler'[u][g] = handler[u][g]
      /\ Registered(f, t) => handler'[t][f] \in FileHandler
            /\ handler'[t][f].mask = handler[t][f].mask
            /\ handler'[t][f].readyMask = {}
      /\ ~Registered(f, t) => handler'[t][f] = None
  <2>1. CASE Registered(f, t)
    <3> DEFINE h == [handler[t][f] EXCEPT !.readyMask = {}]
    <3>1. handler' = [handler EXCEPT ![t] = [@ EXCEPT ![f] = h]]
      BY <1>1, <2>1 DEF TypeOK
    <3>2. h \in FileHandler /\ h.mask = handler[t][f].mask /\ h.readyMask = {}
      BY <1>4, <2>1 DEF Registered, FileHandler
    <3> HIDE DEF h
    <3> QED
      BY <3>1, <3>2, <2>1 DEF TypeOK
  <2>2. CASE ~Registered(f, t)
    BY <1>1, <2>2 DEF TypeOK, Registered
  <2> QED
    BY <2>1, <2>2
<1>6. \A u \in Thread, g \in Fd :
         /\ Registered(g, u)' <=> Registered(g, u)
         /\ Registered(g, u) => handler'[u][g].mask = handler[u][g].mask
  BY <1>5, SelectConstants DEF Registered
<1>7. ASSUME NEW u \in Thread PROVE WantedBits(u)' = WantedBits(u)
  <2>1. \A x \in Bits : x[1] \in Fd
    BY DEF Bits
  <2> QED
    BY <2>1, <1>6 DEF WantedBits
<1>8. ASSUME NEW u \in Thread, NEW g \in Fd, Registered(g, u)',
             handler'[u][g].readyMask # {}
      PROVE  events'[u][g] > 0
  <2>1. u # t \/ g # f
    BY <1>5, <1>6, <1>8
  <2> QED
    BY <2>1, <1>3, <1>5, <1>6, <1>8 DEF HandlerInv, ReadyMeansQueued
<1>9. ASSUME NEW u \in Thread, NEW g \in Fd, events'[u][g] = MaxEvents
      PROVE  Registered(g, u)' /\ handler'[u][g].readyMask # {}
  <2>1. u # t \/ g # f
    BY <1>2, <1>3, <1>9
  <2> QED
    BY <2>1, <1>3, <1>5, <1>6, <1>9 DEF HandlerInv
<1> QED
  BY <1>1, <1>3, <1>5, <1>7, <1>8, <1>9 DEF HandlerInv, ReadyMeansQueued

(* A thread that leaves its wait queues an event for every handler with    *)
(* conditions seen that has none: there is room for it.                    *)
LEMMA LeaveWaitHandlerInv ==
  ASSUME TypeOK, HandlerInv, NEW t \in Thread, LeaveWait(t)
  PROVE  /\ handler' \in [Thread -> [Fd -> FileHandler \cup {None}]]
         /\ events' \in [Thread -> [Fd -> 0..MaxEvents]] /\ HandlerInv'
<1> DEFINE hit(f) == Registered(f, t) /\ Seen(t, f) # {}
           new(f) == hit(f) /\ handler[t][f].readyMask = {}
<1>1. /\ events' = [events EXCEPT ![t] = [f \in Fd |->
            IF new(f) THEN events[t][f] + 1 ELSE events[t][f]]]
      /\ handler' = [handler EXCEPT ![t] = [f \in Fd |->
            IF hit(f) THEN [handler[t][f] EXCEPT !.readyMask = Seen(t, f)]
            ELSE handler[t][f]]]
      /\ UNCHANGED <<checkMasks, numFdBits>>
  BY DEF LeaveWait, TypeOK
<1>2. ASSUME NEW f \in Fd
      PROVE  events[t][f] \in 0..MaxEvents /\ MaxEvents \in Nat
             /\ (new(f) => events[t][f] < MaxEvents)
  <2>1. events[t][f] \in 0..MaxEvents
    BY DEF TypeOK
  <2>2. new(f) => events[t][f] # MaxEvents
    BY DEF HandlerInv
  <2>3. MaxEvents \in Nat
    BY SelectConstants
  <2> QED
    BY <2>1, <2>2, <2>3
<1>3. /\ \A u \in Thread : u # t => events'[u] = events[u]
      /\ \A f \in Fd : events'[t][f] =
            IF new(f) THEN events[t][f] + 1 ELSE events[t][f]
  BY <1>1 DEF TypeOK
<1>4. events' \in [Thread -> [Fd -> 0..MaxEvents]]
  <2>1. \A f \in Fd : (IF new(f) THEN events[t][f] + 1 ELSE events[t][f]) \in 0..MaxEvents
    BY <1>2
  <2> QED
    BY <1>1, <2>1 DEF TypeOK
<1>5. ASSUME NEW f \in Fd, Registered(f, t)
      PROVE  LET h == [handler[t][f] EXCEPT !.readyMask = Seen(t, f)] IN
             h \in FileHandler /\ h.mask = handler[t][f].mask /\ h.readyMask = Seen(t, f)
  <2>1. handler[t][f] \in FileHandler
    <3>1. handler[t][f] \in FileHandler \cup {None}
      BY DEF TypeOK
    <3> QED
      BY <3>1, <1>5 DEF Registered
  <2>2. Seen(t, f) \subseteq Condition
    BY DEF Seen
  <2> QED
    BY <2>1, <2>2 DEF FileHandler
<1>6. /\ \A u \in Thread : u # t => handler'[u] = handler[u]
      /\ \A f \in Fd : ~hit(f) => handler'[t][f] = handler[t][f]
      /\ \A f \in Fd : hit(f) => /\ handler'[t][f] \in FileHandler
                                 /\ handler'[t][f].mask = handler[t][f].mask
                                 /\ handler'[t][f].readyMask = Seen(t, f)
  BY <1>1, <1>5 DEF TypeOK
<1>7. handler' \in [Thread -> [Fd -> FileHandler \cup {None}]]
  <2>1. \A f \in Fd : (IF hit(f) THEN [handler[t][f] EXCEPT !.readyMask = Seen(t, f)]
                       ELSE handler[t][f]) \in FileHandler \cup {None}
    <3>1. \A f \in Fd : handler[t][f] \in FileHandler \cup {None}
      BY DEF TypeOK
    <3> QED
      BY <3>1, <1>5
  <2> QED
    BY <1>1, <2>1 DEF TypeOK
<1> HIDE DEF new
<1>8. \A u \in Thread, g \in Fd :
         /\ Registered(g, u)' <=> Registered(g, u)
         /\ Registered(g, u) => handler'[u][g].mask = handler[u][g].mask
  BY <1>6, SelectConstants DEF Registered
<1>9. ASSUME NEW u \in Thread PROVE WantedBits(u)' = WantedBits(u)
  <2>1. \A x \in Bits : x[1] \in Fd
    BY DEF Bits
  <2> QED
    BY <2>1, <1>8 DEF WantedBits
<1>10. ASSUME NEW u \in Thread, NEW g \in Fd, Registered(g, u)',
              handler'[u][g].readyMask # {}
       PROVE  events'[u][g] > 0
  <2>1. Registered(g, u) /\ (handler[u][g].readyMask # {} => events[u][g] > 0)
    BY <1>8, <1>10 DEF HandlerInv, ReadyMeansQueued
  <2>2. CASE u # t
    BY <2>1, <2>2, <1>3, <1>6, <1>10
  <2>3. CASE u = t
    <3>1. events'[t][g] = IF new(g) THEN events[t][g] + 1 ELSE events[t][g]
      BY <1>3
    <3>2. new(g) \/ events[t][g] > 0
      BY <2>1, <2>3, <1>6, <1>10 DEF new
    <3> QED
      BY <2>3, <3>1, <3>2, <1>2
  <2> QED
    BY <2>2, <2>3
<1>11. ASSUME NEW u \in Thread, NEW g \in Fd, events'[u][g] = MaxEvents
       PROVE  Registered(g, u)' /\ handler'[u][g].readyMask # {}
  <2>1. CASE u # t
    BY <2>1, <1>3, <1>6, <1>8, <1>11 DEF HandlerInv
  <2>2. CASE u = t /\ hit(g)
    BY <2>2, <1>6, <1>8
  <2>3. CASE u = t /\ ~hit(g)
    <3>1. events[t][g] = MaxEvents
      BY <2>3, <1>3, <1>11 DEF new
    <3> QED
      BY <2>3, <3>1, <1>6, <1>8 DEF HandlerInv
  <2> QED
    BY <2>1, <2>2, <2>3
<1> QED
  BY <1>1, <1>4, <1>7, <1>9, <1>10, <1>11 DEF HandlerInv, ReadyMeansQueued

(* Threads that go take everything of theirs with them.                    *)
LEMMA ForgetHandlerInv ==
  ASSUME TypeOK, HandlerInv, NEW S \in SUBSET Thread, Forget(S)
  PROVE  /\ handler' \in [Thread -> [Fd -> FileHandler \cup {None}]]
         /\ checkMasks' \in [Thread -> SUBSET Bits] /\ numFdBits' \in [Thread -> Nat]
         /\ events' \in [Thread -> [Fd -> 0..MaxEvents]] /\ HandlerInv'
<1>1. MaxEvents \in Nat \ {0} /\ 0 \in 0..MaxEvents
  BY SelectConstants
<1>2. \A t \in S : /\ handler'[t] = NoHandlers /\ checkMasks'[t] = {}
                   /\ numFdBits'[t] = 0 /\ events'[t] = [f \in Fd |-> 0]
  BY DEF Forget
<1>3. \A t \in Thread \ S :
         /\ handler'[t] = handler[t] /\ checkMasks'[t] = checkMasks[t]
         /\ numFdBits'[t] = numFdBits[t] /\ events'[t] = events[t]
  BY DEF Forget
<1>4. NoHandlers \in [Fd -> FileHandler \cup {None}]
      /\ \A f \in Fd : NoHandlers[f] = None
  BY DEF NoHandlers
<1>5. handler' \in [Thread -> [Fd -> FileHandler \cup {None}]]
  BY <1>4 DEF Forget, TypeOK
<1>6. checkMasks' \in [Thread -> SUBSET Bits] /\ numFdBits' \in [Thread -> Nat]
  BY DEF Forget, TypeOK
<1>7. events' \in [Thread -> [Fd -> 0..MaxEvents]]
  BY <1>1 DEF Forget, TypeOK
<1>8. ASSUME NEW t \in Thread PROVE checkMasks'[t] = WantedBits(t)'
  <2>1. CASE t \in S
    <3>1. \A x \in Bits : handler'[t][x[1]] = None
      BY <2>1, <1>2, <1>4 DEF Bits
    <3> QED
      BY <2>1, <3>1, <1>2 DEF WantedBits, Registered
  <2>2. CASE t \notin S
    BY <2>2, <1>3 DEF HandlerInv, WantedBits, Registered
  <2> QED
    BY <2>1, <2>2
<1>9. ASSUME NEW t \in Thread, NEW x \in checkMasks'[t] PROVE x[1] < numFdBits'[t]
  BY <1>2, <1>3, <1>9 DEF HandlerInv
<1>10. ReadyMeansQueued'
  BY <1>2, <1>3, <1>4 DEF HandlerInv, ReadyMeansQueued, Registered
<1>11. ASSUME NEW t \in Thread, NEW f \in Fd, events'[t][f] = MaxEvents
       PROVE  Registered(f, t)' /\ handler'[t][f].readyMask # {}
  <2>1. t \notin S
    BY <1>1, <1>2, <1>11
  <2> QED
    BY <2>1, <1>3, <1>11 DEF HandlerInv, Registered
<1> QED
  BY <1>5, <1>6, <1>7, <1>8, <1>9, <1>10, <1>11 DEF HandlerInv

(* File handlers keep their invariant while nothing of theirs changes.     *)
LEMMA HandlerFrame ==
  ASSUME HandlerInv, UNCHANGED fileVars
  PROVE  HandlerInv'
<1>1. UNCHANGED <<handler, checkMasks, numFdBits, events>>
  BY DEF fileVars
<1>2. \A t \in Thread : WantedBits(t)' = WantedBits(t)
  BY <1>1 DEF WantedBits, Registered
<1> QED
  BY <1>1, <1>2 DEF HandlerInv, ReadyMeansQueued, Registered

(* Types and the invariant of file handlers are inductive.                 *)
LEMMA FileStep ==
  ASSUME TypeOK, HandlerInv, [Next]_vars
  PROVE  TypeOK' /\ HandlerInv'
<1> USE DEF fileVars, waitVars, globalVars, procVars
<1>1. ASSUME NEW t \in Thread, TclpInitNotifier(t) PROVE TypeOK' /\ HandlerInv'
  <2>1. Cardinality(Counted') = notifierCount'
    BY <1>1, CountedMore DEF TypeOK, TclpInitNotifier
  <2>2. HandlerInv'
    BY <1>1, HandlerFrame DEF TclpInitNotifier
  <2>3. TypeOK'
    BY <1>1, <2>1 DEF TypeOK, Counted, TclpInitNotifier
  <2> QED
    BY <2>2, <2>3
<1>2. ASSUME NEW t \in Thread, NEW f \in Fd, NEW m \in SUBSET Condition,
              TclpCreateFileHandler(t, f, m) PROVE TypeOK' /\ HandlerInv'
  <2>1. Cardinality(Counted') = notifierCount'
    BY <1>2, CountedSame DEF TypeOK, TclpCreateFileHandler
  <2>2. HandlerInv'
    BY <1>2, CreateHandlerInv DEF TclpCreateFileHandler
  <2>3. TypeOK'
    BY <1>2, <2>1, CreateHandlerInv DEF TypeOK, Counted, TclpCreateFileHandler
  <2> QED
    BY <2>2, <2>3
<1>3. ASSUME NEW t \in Thread, NEW f \in Fd, TclpDeleteFileHandler(t, f) PROVE TypeOK' /\ HandlerInv'
  <2>1. Cardinality(Counted') = notifierCount'
    BY <1>3, CountedSame DEF TypeOK, TclpDeleteFileHandler
  <2>2. HandlerInv'
    BY <1>3, DeleteHandlerInv DEF TclpDeleteFileHandler
  <2>3. TypeOK'
    BY <1>3, <2>1, DeleteHandlerInv DEF TypeOK, Counted, TclpDeleteFileHandler, NewBits
  <2> QED
    BY <2>2, <2>3
<1>4. ASSUME NEW t \in Thread, NEW f \in Fd, FileHandlerEventProc(t, f) PROVE TypeOK' /\ HandlerInv'
  <2>1. Cardinality(Counted') = notifierCount'
    BY <1>4, CountedSame DEF TypeOK, FileHandlerEventProc
  <2>2. HandlerInv'
    BY <1>4, EventProcInv DEF FileHandlerEventProc
  <2>3. TypeOK'
    BY <1>4, <2>1, EventProcInv DEF TypeOK, Counted, FileHandlerEventProc
  <2> QED
    BY <2>2, <2>3
<1>5. ASSUME NEW t \in Thread, TclpAlertNotifier(t) PROVE TypeOK' /\ HandlerInv'
  <2>1. Cardinality(Counted') = notifierCount'
    BY <1>5, CountedSame DEF TypeOK, TclpAlertNotifier
  <2>2. HandlerInv'
    BY <1>5, HandlerFrame DEF TclpAlertNotifier
  <2>3. TypeOK'
    BY <1>5, <2>1 DEF TypeOK, Counted, TclpAlertNotifier
  <2> QED
    BY <2>2, <2>3
<1>6. ASSUME NEW t \in Thread, NEW k \in Kinds \cup {"hook"},
              StartNotifierThread(t, k) PROVE TypeOK' /\ HandlerInv'
  <2>1. Cardinality(Counted') = notifierCount'
    BY <1>6, CountedSame DEF TypeOK, StartNotifierThread
  <2>2. HandlerInv'
    BY <1>6, HandlerFrame DEF StartNotifierThread
  <2>3. TypeOK'
    BY <1>6, <2>1 DEF TypeOK, Counted, StartNotifierThread
  <2> QED
    BY <2>2, <2>3
<1>7. ASSUME NEW t \in Thread, StartLock(t) PROVE TypeOK' /\ HandlerInv'
  <2>1. Cardinality(Counted') = notifierCount'
    BY <1>7, CountedSame DEF TypeOK, StartLock, Continue
  <2>2. HandlerInv'
    BY <1>7, HandlerFrame DEF StartLock
  <2>3. TypeOK'
    BY <1>7, <2>1 DEF TypeOK, Counted, StartLock, Continue
  <2> QED
    BY <2>2, <2>3
<1>8. ASSUME NEW t \in Thread, Started(t) PROVE TypeOK' /\ HandlerInv'
  <2>1. Cardinality(Counted') = notifierCount'
    BY <1>8, CountedSame DEF TypeOK, Started, Continue
  <2>2. HandlerInv'
    BY <1>8, HandlerFrame DEF Started
  <2>3. TypeOK'
    BY <1>8, <2>1 DEF TypeOK, Counted, Started, Continue
  <2> QED
    BY <2>2, <2>3
<1>9. ASSUME NEW t \in Thread, EnterWait(t) PROVE TypeOK' /\ HandlerInv'
  <2>1. Cardinality(Counted') = notifierCount'
    BY <1>9, CountedSame DEF TypeOK, EnterWait
  <2>2. HandlerInv'
    BY <1>9, HandlerFrame DEF EnterWait
  <2>3. /\ waitingList' \in Seq(Thread) /\ pipe' \subseteq {"nul", "q"}
        /\ pollState' \in [Thread -> SUBSET {"WANT", "DONE"}]
    <3>1. <<t>> \o waitingList \in Seq(Thread)
      <4>1. waitingList \in Seq(Thread)
        BY Zenon DEF TypeOK
      <4> QED
        BY ONLY <4>1, t \in Thread
    <3> QED
      BY <1>9, <3>1 DEF TypeOK, EnterWait, Trigger, Wanted
  <2>4. /\ pc' \in [Thread -> {"off", "run", "start", "starting", "enter", "wait", "quit"}]
        /\ kind' \in [Thread -> Kinds \cup {"hook"}]
        /\ eventReady' \in [Thread -> BOOLEAN]
        /\ readyMasks' \in [Thread -> SUBSET Bits]
    BY <1>9 DEF TypeOK, EnterWait
  <2>5. TypeOK'
    BY <1>9, <2>1, <2>3, <2>4 DEF TypeOK, Counted, EnterWait
  <2> QED
    BY <2>2, <2>5
<1>10. ASSUME NEW t \in Thread, LeaveWait(t) PROVE TypeOK' /\ HandlerInv'
  <2>1. Cardinality(Counted') = notifierCount'
    BY <1>10, CountedSame DEF TypeOK, LeaveWait
  <2>2. HandlerInv'
    BY <1>10, LeaveWaitHandlerInv DEF LeaveWait
  <2>3. TypeOK'
    BY <1>10, <2>1, LeaveWaitHandlerInv, UnlinkList DEF TypeOK, Counted, LeaveWait, LeaveTrigger, LeaveList, Trigger
  <2> QED
    BY <2>2, <2>3
<1>11. ASSUME NotifierStarts PROVE TypeOK' /\ HandlerInv'
  <2>1. Cardinality(Counted') = notifierCount'
    BY <1>11, CountedSame DEF TypeOK, NotifierStarts
  <2>2. HandlerInv'
    BY <1>11, HandlerFrame DEF NotifierStarts
  <2>3. TypeOK'
    BY <1>11, <2>1 DEF TypeOK, Counted, NotifierStarts
  <2> QED
    BY <2>2, <2>3
<1>12. ASSUME NotifierMasks PROVE TypeOK' /\ HandlerInv'
  <2>1. Cardinality(Counted') = notifierCount'
    BY <1>12, CountedSame DEF TypeOK, NotifierMasks
  <2>2. HandlerInv'
    BY <1>12, HandlerFrame DEF NotifierMasks
  <2>3. TypeOK'
    BY <1>12, <2>1 DEF TypeOK, Counted, NotifierMasks, BitsOf
  <2> QED
    BY <2>2, <2>3
<1>13. ASSUME NotifierSelects PROVE TypeOK' /\ HandlerInv'
  <2>1. Cardinality(Counted') = notifierCount'
    BY <1>13, CountedSame DEF TypeOK, NotifierSelects
  <2>2. HandlerInv'
    BY <1>13, HandlerFrame DEF NotifierSelects
  <2>3. TypeOK'
    BY <1>13, <2>1 DEF TypeOK, Counted, NotifierSelects
  <2> QED
    BY <2>2, <2>3
<1>14. ASSUME NotifierInterrupted PROVE TypeOK' /\ HandlerInv'
  <2>1. Cardinality(Counted') = notifierCount'
    BY <1>14, CountedSame DEF TypeOK, NotifierInterrupted
  <2>2. HandlerInv'
    BY <1>14, HandlerFrame DEF NotifierInterrupted
  <2>3. TypeOK'
    BY <1>14, <2>1 DEF TypeOK, Counted, NotifierInterrupted
  <2> QED
    BY <2>2, <2>3
<1>15. ASSUME NotifierAlerts PROVE TypeOK' /\ HandlerInv'
  <2>1. notifierCount' = Cardinality({t \in Thread : pc'[t] \notin {"off", "quit"}})
    BY <1>15, CountedSame DEF TypeOK, NotifierAlerts, Counted
  <2>2. HandlerInv'
    BY <1>15, HandlerFrame DEF NotifierAlerts
  <2>3. /\ npc' = "read"
        /\ UNCHANGED <<pc, kind, fileVars, globalVars, pipe, masks, poll, buf, ready>>
    BY <1>15 DEF NotifierAlerts
  <2>4. /\ pc' \in [Thread -> {"off", "run", "start", "starting", "enter", "wait", "quit"}]
        /\ kind' \in [Thread -> Kinds \cup {"hook"}]
        /\ handler' \in [Thread -> [Fd -> FileHandler \cup {None}]]
        /\ checkMasks' \in [Thread -> SUBSET Bits] /\ numFdBits' \in [Thread -> Nat]
        /\ events' \in [Thread -> [Fd -> 0..MaxEvents]]
    BY <2>3, Zenon DEF TypeOK
  <2>5. /\ notifierThreadRunning' \in BOOLEAN /\ initMutex' \in Thread \cup {None}
        /\ triggerPipe' \in {None, "open", "parent"} /\ pipe' \subseteq {"nul", "q"}
        /\ npc' \in {"none", "create", "masks", "select", "alert", "read", "exit"}
        /\ masks' \subseteq Bits /\ poll' \in BOOLEAN /\ buf' \in {"uninit", "nul", "q"}
        /\ ready' \subseteq Bits
    BY <2>3 DEF TypeOK
  <2>6. CASE UNCHANGED waitVars
    <3>1. /\ waitingList' \in Seq(Thread) /\ readyMasks' \in [Thread -> SUBSET Bits]
          /\ pollState' \in [Thread -> SUBSET {"WANT", "DONE"}]
          /\ eventReady' \in [Thread -> BOOLEAN]
      BY <2>6, Zenon DEF TypeOK
    <3> QED
      BY <2>1, <2>2, <2>4, <2>5, <3>1, Zenon DEF TypeOK
  <2>7. CASE \E t \in Thread :
               /\ readyMasks' = [readyMasks EXCEPT ![t] = @ \cup (BitsOf(t) \cap masks)]
               /\ AlertSingleThread(t)
    <3>1. PICK t \in Thread :
             /\ readyMasks' = [readyMasks EXCEPT ![t] = @ \cup (BitsOf(t) \cap masks)]
             /\ AlertSingleThread(t)
      BY <2>7
    <3>2. waitingList' \in Seq(Thread)
      BY <3>1, UnlinkList DEF TypeOK, AlertSingleThread
    <3>3. /\ readyMasks' \in [Thread -> SUBSET Bits]
          /\ pollState' \in [Thread -> SUBSET {"WANT", "DONE"}]
          /\ eventReady' \in [Thread -> BOOLEAN]
      BY <3>1 DEF TypeOK, AlertSingleThread, BitsOf
    <3> QED
      BY <2>1, <2>2, <2>4, <2>5, <3>2, <3>3, Zenon DEF TypeOK
  <2>8. UNCHANGED waitVars \/ \E t \in Thread :
               /\ readyMasks' = [readyMasks EXCEPT ![t] = @ \cup (BitsOf(t) \cap masks)]
               /\ AlertSingleThread(t)
    <3>1. \A i \in DOMAIN waitingList : waitingList[i] \in Thread
      <4>1. waitingList \in Seq(Thread)
        BY Zenon DEF TypeOK
      <4> QED
        BY ONLY <4>1
    <3> QED
      BY <1>15, <3>1 DEF NotifierAlerts
  <2> QED
    BY <2>2, <2>6, <2>7, <2>8
<1>16. ASSUME NotifierReads PROVE TypeOK' /\ HandlerInv'
  <2>1. Cardinality(Counted') = notifierCount'
    BY <1>16, CountedSame DEF TypeOK, NotifierReads
  <2>2. HandlerInv'
    BY <1>16, HandlerFrame DEF NotifierReads
  <2>3. TypeOK'
    BY <1>16, <2>1 DEF TypeOK, Counted, NotifierReads
  <2> QED
    BY <2>2, <2>3
<1>17. ASSUME NotifierExits PROVE TypeOK' /\ HandlerInv'
  <2>1. Cardinality(Counted') = notifierCount'
    BY <1>17, CountedSame DEF TypeOK, NotifierExits
  <2>2. HandlerInv'
    BY <1>17, HandlerFrame DEF NotifierExits
  <2>3. TypeOK'
    BY <1>17, <2>1 DEF TypeOK, Counted, NotifierExits
  <2> QED
    BY <2>2, <2>3
<1>18. ASSUME NEW t \in Thread, TclpFinalizeNotifier(t) PROVE TypeOK' /\ HandlerInv'
  <2>1. Cardinality(Counted') = notifierCount'
    BY <1>18, CountedLess DEF TypeOK, TclpFinalizeNotifier
  <2>2. HandlerInv'
    BY <1>18, ForgetHandlerInv DEF TclpFinalizeNotifier
  <2>3. /\ pc' \in [Thread -> {"off", "run", "start", "starting", "enter", "wait", "quit"}]
        /\ pipe' \subseteq {"nul", "q"} /\ initMutex' \in Thread \cup {None}
    BY <1>18 DEF TypeOK, TclpFinalizeNotifier
  <2>4. Forget({t})
    BY <1>18 DEF TclpFinalizeNotifier
  <2>5. TypeOK'
    <3>1. UNCHANGED <<kind, waitVars, notifierThreadRunning, triggerPipe, procVars,
                      ready>>
      BY <1>18 DEF TclpFinalizeNotifier
    <3>2. /\ handler' \in [Thread -> [Fd -> FileHandler \cup {None}]]
          /\ checkMasks' \in [Thread -> SUBSET Bits] /\ numFdBits' \in [Thread -> Nat]
          /\ events' \in [Thread -> [Fd -> 0..MaxEvents]]
      BY <2>4, ForgetHandlerInv
    <3> QED
      BY <2>1, <2>3, <3>1, <3>2 DEF TypeOK, Counted
  <2> QED
    BY <2>2, <2>5
<1>19. ASSUME NEW t \in Thread, FinalizeJoined(t) PROVE TypeOK' /\ HandlerInv'
  <2>1. Cardinality(Counted') = notifierCount'
    BY <1>19, CountedSame DEF TypeOK, FinalizeJoined
  <2>2. HandlerInv'
    BY <1>19, HandlerFrame DEF FinalizeJoined
  <2>3. TypeOK'
    BY <1>19, <2>1 DEF TypeOK, Counted, FinalizeJoined
  <2> QED
    BY <2>2, <2>3
<1>20. ASSUME NEW t \in Thread, AtForkChild(t) PROVE TypeOK' /\ HandlerInv'
  <2>1. Cardinality(Counted') = notifierCount'
    <3>1. Counted' = {t}
      BY <1>20 DEF AtForkChild, Counted
    <3> QED
      BY <3>1, <1>20, FS_Singleton DEF AtForkChild, ChildCount
  <2>2. Forget(Thread \ {t})
    BY <1>20 DEF AtForkChild
  <2>3. /\ pc' \in [Thread -> {"off", "run", "start", "starting", "enter", "wait", "quit"}]
        /\ kind' \in [Thread -> Kinds \cup {"hook"}]
        /\ eventReady' \in [Thread -> BOOLEAN]
    BY <1>20 DEF TypeOK, AtForkChild
  <2>4. /\ waitingList' \in Seq(Thread) /\ triggerPipe' \in {None, "open", "parent"}
        /\ notifierThreadRunning' \in BOOLEAN /\ initMutex' \in Thread \cup {None}
    <3>1. <<>> \in Seq(Thread)
      OBVIOUS
    <3> QED
      BY <1>20, <3>1 DEF TypeOK, AtForkChild
  <2>5. TypeOK'
    BY <1>20, <2>1, <2>2, <2>3, <2>4, ForgetHandlerInv DEF TypeOK, Counted, AtForkChild
  <2> QED
    BY <2>2, <2>5, ForgetHandlerInv
<1>21. ASSUME NEW x \in Bits, FileChanges(x) PROVE TypeOK' /\ HandlerInv'
  <2>1. Cardinality(Counted') = notifierCount'
    BY <1>21, CountedSame DEF TypeOK, FileChanges
  <2>2. HandlerInv'
    BY <1>21, HandlerFrame DEF FileChanges
  <2>3. TypeOK'
    BY <1>21, <2>1 DEF TypeOK, Counted, FileChanges
  <2> QED
    BY <2>2, <2>3
<1>22. ASSUME UNCHANGED vars PROVE TypeOK' /\ HandlerInv'
  <2>1. Cardinality(Counted') = notifierCount'
    BY <1>22, CountedSame DEF TypeOK, vars
  <2>2. HandlerInv'
    BY <1>22, HandlerFrame DEF vars
  <2>3. TypeOK'
    BY <1>22, <2>1 DEF TypeOK, Counted, vars
  <2> QED
    BY <2>2, <2>3
<1> QED
  BY <1>1, <1>2, <1>3, <1>4, <1>5, <1>6, <1>7, <1>8, <1>9, <1>10, <1>11, <1>12, <1>13, <1>14, <1>15, <1>16, <1>17, <1>18, <1>19, <1>20, <1>21, <1>22
     DEF Next, ThreadStep, NotifierThreadProc

(* Types and the invariant of file handlers hold initially.                *)
LEMMA FileHandlersInit == ASSUME Init PROVE TypeOK /\ HandlerInv
<1>1. 0 \in 0..MaxEvents /\ MaxEvents # 0
  BY SelectConstants
<1>2. Counted = {}
  BY DEF Init, Counted
<1>3. \A t \in Thread : WantedBits(t) = {}
  BY DEF Init, WantedBits, Registered, NoHandlers, Bits
<1>4. HandlerInv
  BY <1>1, <1>3 DEF Init, HandlerInv, ReadyMeansQueued, Registered, NoHandlers
<1>5. notifierCount = Cardinality(Counted)
  BY <1>2, FS_EmptySet DEF Init
<1>6. waitingList \in Seq(Thread)
  BY DEF Init
<1>7. /\ handler \in [Thread -> [Fd -> FileHandler \cup {None}]]
      /\ events \in [Thread -> [Fd -> 0..MaxEvents]]
  BY <1>1 DEF Init, NoHandlers
<1>8. TypeOK
  BY <1>5, <1>6, <1>7 DEF Init, TypeOK, Counted
<1> QED
  BY <1>4, <1>8

(* Types hold, and what select, the notifier thread and the queue know of  *)
(* file handlers is what the handlers are: always.                         *)
THEOREM FileHandlersCorrect == Spec => [](TypeOK /\ FileHandlersExact)
<1>1. Init => TypeOK /\ HandlerInv
  BY FileHandlersInit
<1>2. TypeOK /\ HandlerInv /\ [Next]_vars => TypeOK' /\ HandlerInv'
  BY FileStep
<1>3. HandlerInv => FileHandlersExact
  BY DEF HandlerInv, FileHandlersExact, MasksExact, BitsOf, WantedBits
<1> QED
  BY <1>1, <1>2, <1>3, PTL DEF Spec

------------------------------------------------------------------------------
(* The notifier thread goes from phase to phase with the threads.          *)
LEMMA PhasesStep ==
  ASSUME ~ForkAtStart, TypeOK, Phases, BufferRead, [Next]_vars
  PROVE  Phases'
<1> USE DEF fileVars, waitVars, globalVars, procVars
<1>1. ASSUME NEW t \in Thread, TclpInitNotifier(t) PROVE Phases'
  BY <1>1, SelectConstants
     DEF TypeOK, Phases, Working, TclpInitNotifier
<1>2. ASSUME NEW t \in Thread, NEW f \in Fd, NEW m \in SUBSET Condition,
             TclpCreateFileHandler(t, f, m) PROVE Phases'
  BY <1>2
     DEF TypeOK, Phases, Working, TclpCreateFileHandler
<1>3. ASSUME NEW t \in Thread, NEW f \in Fd, TclpDeleteFileHandler(t, f) PROVE Phases'
  BY <1>3
     DEF TypeOK, Phases, Working, TclpDeleteFileHandler
<1>4. ASSUME NEW t \in Thread, NEW f \in Fd, FileHandlerEventProc(t, f) PROVE Phases'
  BY <1>4
     DEF TypeOK, Phases, Working, FileHandlerEventProc
<1>5. ASSUME NEW t \in Thread, TclpAlertNotifier(t) PROVE Phases'
  BY <1>5
     DEF TypeOK, Phases, Working, TclpAlertNotifier
<1>6. ASSUME NEW t \in Thread, NEW k \in Kinds \cup {"hook"},
             StartNotifierThread(t, k) PROVE Phases'
  BY <1>6
     DEF TypeOK, Phases, Working, StartNotifierThread
<1>7. ASSUME NEW t \in Thread, StartLock(t) PROVE Phases'
  <2>1. /\ pc[t] = "start" /\ initMutex = None /\ None \notin Thread
        /\ UNCHANGED <<notifierThreadRunning, triggerPipe, pipe>>
    BY <1>7, SelectConstants DEF StartLock
  <2>2. \A u \in Thread : pc[u] \notin {"starting", "quit"}
    BY <2>1 DEF Phases
  <2>3. CASE /\ notifierThreadRunning /\ UNCHANGED <<initMutex, npc>>
             /\ pc' = [pc EXCEPT ![t] = Continue(t)]
    BY <2>1, <2>2, <2>3 DEF TypeOK, Phases, Working, Continue
  <2>4. CASE /\ ~notifierThreadRunning /\ initMutex' = t /\ npc' = "create"
             /\ pc' = [pc EXCEPT ![t] = "starting"]
    BY <2>1, <2>2, <2>4, SelectConstants DEF TypeOK, Phases, Working
  <2> QED
    BY <2>3, <2>4, <1>7 DEF StartLock
<1>8. ASSUME NEW t \in Thread, Started(t) PROVE Phases'
  BY <1>8, SelectConstants
     DEF TypeOK, Phases, Working, Started, Continue
<1>9. ASSUME NEW t \in Thread, EnterWait(t) PROVE Phases'
  <2>1. /\ pc[t] \in {"enter", "wait"} /\ pc'[t] \in {"run", "wait"} /\ \A u \in Thread : u # t => pc'[u] = pc[u]
        /\ UNCHANGED <<globalVars, npc>>
    BY <1>9 DEF EnterWait, TypeOK
  <2>2. /\ notifierThreadRunning /\ \A u \in Thread : pc[u] \notin {"starting", "quit"}
        /\ Working /\ "q" \notin pipe
    BY <2>1 DEF Phases
  <2>3. pipe' = pipe \/ pipe' = pipe \cup {"nul"}
    BY <1>9, Zenon DEF EnterWait, Trigger
  <2>4. "q" \notin pipe'
    BY <2>2, <2>3
  <2> QED
    BY <2>1, <2>2, <2>4 DEF Phases, Working
<1>10. ASSUME NEW t \in Thread, LeaveWait(t) PROVE Phases'
  <2>1. /\ pc[t] \in {"enter", "wait"} /\ pc'[t] \in {"run", "wait"} /\ \A u \in Thread : u # t => pc'[u] = pc[u]
        /\ UNCHANGED <<globalVars, npc>>
    BY <1>10 DEF LeaveWait, TypeOK
  <2>2. /\ notifierThreadRunning /\ \A u \in Thread : pc[u] \notin {"starting", "quit"}
        /\ Working /\ "q" \notin pipe
    BY <2>1 DEF Phases
  <2>3. pipe' = pipe \/ pipe' = pipe \cup {"nul"}
    BY <1>10, Zenon DEF LeaveWait, Trigger, LeaveTrigger
  <2>4. "q" \notin pipe'
    BY <2>2, <2>3
  <2> QED
    BY <2>1, <2>2, <2>4 DEF Phases, Working
<1>11. ASSUME NotifierStarts PROVE Phases'
  BY <1>11
     DEF TypeOK, Phases, Working, NotifierStarts
<1>12. ASSUME NotifierMasks PROVE Phases'
  BY <1>12
     DEF TypeOK, Phases, Working, NotifierMasks
<1>13. ASSUME NotifierSelects PROVE Phases'
  BY <1>13
     DEF TypeOK, Phases, Working, NotifierSelects
<1>14. ASSUME NotifierInterrupted PROVE Phases'
  BY <1>14
     DEF TypeOK, Phases, Working, NotifierInterrupted
<1>15. ASSUME NotifierAlerts PROVE Phases'
  BY <1>15
     DEF TypeOK, Phases, Working, NotifierAlerts
<1>16. ASSUME NotifierReads PROVE Phases'
  BY <1>16
     DEF TypeOK, Phases, Working, NotifierReads, BufferRead
<1>17. ASSUME NotifierExits PROVE Phases'
  BY <1>17, SelectConstants
     DEF TypeOK, Phases, Working, NotifierExits
<1>18. ASSUME NEW t \in Thread, TclpFinalizeNotifier(t) PROVE Phases'
  <2>1. /\ pc[t] = "run" /\ initMutex = None /\ None \notin Thread
        /\ UNCHANGED <<notifierThreadRunning, triggerPipe, npc>>
    BY <1>18, SelectConstants DEF TclpFinalizeNotifier
  <2>2. \A u \in Thread : pc[u] \notin {"starting", "quit"}
    BY <2>1 DEF Phases
  <2>3. CASE /\ LastNotifier /\ initMutex' = t /\ pc' = [pc EXCEPT ![t] = "quit"]
             /\ pipe' = IF triggerPipe = "open" THEN pipe \cup {"q"} ELSE pipe
    <3>1. \A u \in Thread : u # t => pc[u] = "off"
      BY <2>1, <2>2, <2>3, LastCounted DEF LastNotifier
    <3>2. notifierThreadRunning /\ Working
      BY <2>1, <2>2, <2>3 DEF Phases, LastNotifier
    <3>3. /\ pc'[t] = "quit" /\ (\A u \in Thread : u # t => pc'[u] = "off")
          /\ "q" \in pipe' /\ Working'
      BY <2>1, <2>3, <3>1, <3>2 DEF TypeOK, Working
    <3> QED
      BY <2>1, <2>3, <3>2, <3>3 DEF Phases
  <2>4. CASE UNCHANGED <<initMutex, pipe>> /\ pc' = [pc EXCEPT ![t] = "off"]
    BY <2>1, <2>2, <2>4 DEF TypeOK, Phases, Working
  <2> QED
    BY <2>3, <2>4, <1>18 DEF TclpFinalizeNotifier
<1>19. ASSUME NEW t \in Thread, FinalizeJoined(t) PROVE Phases'
  <2>1. /\ pc[t] = "quit" /\ triggerPipe = None /\ npc = "none" /\ None # "open"
        /\ UNCHANGED <<triggerPipe, npc, pipe>>
        /\ ~notifierThreadRunning' /\ initMutex' = None /\ None \notin Thread
    BY <1>19, SelectConstants DEF FinalizeJoined
  <2>2. /\ \A u \in Thread : u # t => pc[u] = "off"
        /\ triggerPipe # "parent"
    BY <2>1 DEF Phases
  <2>3. \A u \in Thread : pc'[u] = "off"
    BY <1>19, <2>2 DEF FinalizeJoined, TypeOK
  <2> QED
    BY <2>1, <2>2, <2>3 DEF Phases
<1>20. ASSUME NEW t \in Thread, AtForkChild(t) PROVE Phases'
  BY <1>20, SelectConstants
     DEF TypeOK, Phases, Working, AtForkChild
<1>21. ASSUME NEW x \in Bits, FileChanges(x) PROVE Phases'
  BY <1>21
     DEF TypeOK, Phases, Working, FileChanges
<1>22. ASSUME UNCHANGED vars PROVE Phases'
  BY <1>22
     DEF TypeOK, Phases, Working, vars
<1> QED
  BY <1>1, <1>2, <1>3, <1>4, <1>5, <1>6, <1>7, <1>8, <1>9, <1>10, <1>11, <1>12, <1>13, <1>14, <1>15, <1>16, <1>17, <1>18, <1>19, <1>20, <1>21, <1>22
     DEF Next, ThreadStep, NotifierThreadProc

(* A list that nobody is on is empty.                                      *)
LEMMA NobodyListed ==
  ASSUME waitingList \in Seq(Thread)
  PROVE  /\ (\A t \in Thread : ~OnList(t)) => waitingList = <<>>
         /\ waitingList = <<>> => \A t \in Thread : ~OnList(t)
<1>1. ASSUME \A t \in Thread : ~OnList(t) PROVE waitingList = <<>>
  <2>1. \A i \in DOMAIN waitingList : waitingList[i] \in Thread
    OBVIOUS
  <2>2. DOMAIN waitingList = {}
    BY <2>1, <1>1 DEF OnList
  <2> QED
    BY <2>2
<1>2. ASSUME waitingList = <<>> PROVE \A t \in Thread : ~OnList(t)
  BY <1>2 DEF OnList
<1> QED
  BY <1>1, <1>2

(* While a thread waits or is about to, the notifier thread works.         *)
LEMMA WaiterHasNotifier ==
  ASSUME Phases, NEW t \in Thread, pc[t] \in {"enter", "wait"}
  PROVE  notifierThreadRunning /\ Working /\ "q" \notin pipe
<1>1. \A u \in Thread : pc[u] # "quit"
  BY DEF Phases
<1> QED
  BY <1>1 DEF Phases

(* The notifier thread tests only what it has read.                        *)
LEMMA BufferStep ==
  ASSUME ~ForkAtStart, TypeOK, Phases, BufferRead, NoWaiterDropped,
         [Next]_vars
  PROVE  BufferRead'
<1> USE DEF fileVars, waitVars, globalVars, procVars
<1>1. ASSUME NEW t \in Thread, TclpInitNotifier(t) PROVE BufferRead'
  BY <1>1
     DEF BufferRead, TclpInitNotifier
<1>2. ASSUME NEW t \in Thread, NEW f \in Fd, NEW m \in SUBSET Condition,
             TclpCreateFileHandler(t, f, m) PROVE BufferRead'
  BY <1>2
     DEF BufferRead, TclpCreateFileHandler
<1>3. ASSUME NEW t \in Thread, NEW f \in Fd, TclpDeleteFileHandler(t, f) PROVE BufferRead'
  BY <1>3
     DEF BufferRead, TclpDeleteFileHandler
<1>4. ASSUME NEW t \in Thread, NEW f \in Fd, FileHandlerEventProc(t, f) PROVE BufferRead'
  BY <1>4
     DEF BufferRead, FileHandlerEventProc
<1>5. ASSUME NEW t \in Thread, TclpAlertNotifier(t) PROVE BufferRead'
  BY <1>5
     DEF BufferRead, TclpAlertNotifier
<1>6. ASSUME NEW t \in Thread, NEW k \in Kinds \cup {"hook"},
             StartNotifierThread(t, k) PROVE BufferRead'
  BY <1>6
     DEF BufferRead, StartNotifierThread
<1>7. ASSUME NEW t \in Thread, StartLock(t) PROVE BufferRead'
  BY <1>7
     DEF BufferRead, StartLock
<1>8. ASSUME NEW t \in Thread, Started(t) PROVE BufferRead'
  BY <1>8
     DEF BufferRead, Started
<1>9. ASSUME NEW t \in Thread, EnterWait(t) PROVE BufferRead'
  <2>1. pc[t] = "enter" /\ UNCHANGED <<npc, buf, masks, poll, triggerPipe>>
    BY <1>9 DEF EnterWait
  <2>2. Working
    BY <2>1, WaiterHasNotifier
  <2>3. CASE WaitForFiles(t)
    <3>1. pipe' = pipe \cup {"nul"}
      BY <1>9, <2>2, <2>3 DEF EnterWait, Trigger, Working
    <3> QED
      BY <2>1, <3>1 DEF BufferRead
  <2>4. CASE ~WaitForFiles(t)
    <3>1. UNCHANGED <<pipe, waitingList>>
      BY <1>9, <2>4 DEF EnterWait
    <3> QED
      BY <2>1, <3>1 DEF BufferRead
  <2> QED
    BY <2>3, <2>4
<1>10. ASSUME NEW t \in Thread, LeaveWait(t) PROVE BufferRead'
  <2>1. waitingList \in Seq(Thread) /\ UNCHANGED <<npc, buf, masks, poll>>
    BY <1>10 DEF LeaveWait, TypeOK
  <2>2. waitingList = <<>> => UNCHANGED waitingList
    BY <1>10, <2>1, NobodyListed DEF LeaveWait, LeaveList
  <2>3. pipe' = pipe \/ pipe' = pipe \cup {"nul"}
    BY <1>10, Zenon DEF LeaveWait, LeaveTrigger, Trigger
  <2> QED
    BY <2>1, <2>2, <2>3 DEF BufferRead
<1>11. ASSUME NotifierStarts PROVE BufferRead'
  <2>1. npc = "create" /\ triggerPipe' = "open" /\ UNCHANGED waitingList
    BY <1>11 DEF NotifierStarts
  <2>2. \A t \in Thread : pc[t] # "wait"
    BY <2>1, WaiterHasNotifier DEF Working
  <2>3. waitingList \in Seq(Thread)
    BY Zenon DEF TypeOK
  <2>4. waitingList = <<>>
    BY <2>2, <2>3, NobodyListed DEF NoWaiterDropped
  <2> QED
    BY <1>11, <2>4 DEF BufferRead, NotifierStarts
<1>12. ASSUME NotifierMasks PROVE BufferRead'
  <2>1. waitingList \in Seq(Thread)
    BY Zenon DEF TypeOK
  <2>2. waitingList = <<>> => masks' = {} /\ ~poll'
    BY <1>12, <2>1, NobodyListed DEF NotifierMasks
  <2> QED
    BY <1>12, <2>2 DEF BufferRead, NotifierMasks
<1>13. ASSUME NotifierSelects PROVE BufferRead'
  BY <1>13
     DEF BufferRead, NotifierSelects
<1>14. ASSUME NotifierInterrupted PROVE BufferRead'
  BY <1>14
     DEF BufferRead, NotifierInterrupted
<1>15. ASSUME NotifierAlerts PROVE BufferRead'
  BY <1>15
     DEF BufferRead, NotifierAlerts
<1>16. ASSUME NotifierReads PROVE BufferRead'
  BY <1>16
     DEF BufferRead, NotifierReads, TypeOK
<1>17. ASSUME NotifierExits PROVE BufferRead'
  BY <1>17
     DEF BufferRead, NotifierExits
<1>18. ASSUME NEW t \in Thread, TclpFinalizeNotifier(t) PROVE BufferRead'
  BY <1>18
     DEF BufferRead, TclpFinalizeNotifier
<1>19. ASSUME NEW t \in Thread, FinalizeJoined(t) PROVE BufferRead'
  BY <1>19
     DEF BufferRead, FinalizeJoined
<1>20. ASSUME NEW t \in Thread, AtForkChild(t) PROVE BufferRead'
  BY <1>20
     DEF BufferRead, AtForkChild
<1>21. ASSUME NEW x \in Bits, FileChanges(x) PROVE BufferRead'
  BY <1>21
     DEF BufferRead, FileChanges
<1>22. ASSUME UNCHANGED vars PROVE BufferRead'
  BY <1>22
     DEF BufferRead, vars
<1> QED
  BY <1>1, <1>2, <1>3, <1>4, <1>5, <1>6, <1>7, <1>8, <1>9, <1>10, <1>11, <1>12, <1>13, <1>14, <1>15, <1>16, <1>17, <1>18, <1>19, <1>20, <1>21, <1>22
     DEF Next, ThreadStep, NotifierThreadProc

(* A thread that comes on the list is on it once.                          *)
LEMMA EnterList ==
  ASSUME waitingList \in Seq(Thread), NEW t \in Thread,
         waitingList' = <<t>> \o waitingList
  PROVE  /\ \A u \in Thread : OnList(u)' <=> u = t \/ OnList(u)
         /\ IsInjective(waitingList) /\ ~OnList(t) => IsInjective(waitingList')
<1>1. /\ Len(waitingList') = Len(waitingList) + 1 /\ waitingList'[1] = t
      /\ DOMAIN waitingList' = 1..(Len(waitingList) + 1)
      /\ \A i \in 2..(Len(waitingList) + 1) : waitingList'[i] = waitingList[i - 1]
  OBVIOUS
<1>2. Len(waitingList) \in Nat /\ DOMAIN waitingList = 1..Len(waitingList)
  OBVIOUS
<1>3. ASSUME NEW u \in Thread PROVE OnList(u)' <=> u = t \/ OnList(u)
  <2>1. ASSUME OnList(u)' PROVE u = t \/ OnList(u)
    <3>1. PICK i \in 1..(Len(waitingList) + 1) : waitingList'[i] = u
      BY <1>1, <2>1 DEF OnList
    <3>2. CASE i = 1
      BY <1>1, <3>1, <3>2
    <3>3. CASE i # 1
      <4>1. i \in 2..(Len(waitingList) + 1) /\ i - 1 \in DOMAIN waitingList
        BY <1>2, <3>3
      <4> QED
        BY <1>1, <3>1, <4>1 DEF OnList
    <3> QED
      BY <3>2, <3>3
  <2>2. ASSUME u = t PROVE OnList(u)'
    <3>1. 1 \in DOMAIN waitingList'
      BY <1>1, <1>2
    <3> QED
      BY <1>1, <2>2, <3>1 DEF OnList
  <2>3. ASSUME OnList(u) PROVE OnList(u)'
    <3>1. PICK i \in DOMAIN waitingList : waitingList[i] = u
      BY <2>3 DEF OnList
    <3>2. i + 1 \in 2..(Len(waitingList) + 1) /\ (i + 1) - 1 = i
      BY <1>2
    <3>3. waitingList'[i + 1] = waitingList[i] /\ i + 1 \in DOMAIN waitingList'
      BY <1>1, <1>2, <3>2
    <3> QED
      BY <3>1, <3>3 DEF OnList
  <2> QED
    BY <2>1, <2>2, <2>3
<1>4. ASSUME IsInjective(waitingList), ~OnList(t) PROVE IsInjective(waitingList')
  <2>1. ASSUME NEW i \in DOMAIN waitingList', NEW j \in DOMAIN waitingList',
               waitingList'[i] = waitingList'[j]
        PROVE  i = j
    <3>1. \A k \in DOMAIN waitingList' : k # 1 =>
             k - 1 \in DOMAIN waitingList /\ waitingList'[k] = waitingList[k - 1]
      BY <1>1, <1>2
    <3>2. \A k \in DOMAIN waitingList' : k # 1 => waitingList'[k] # t
      BY <3>1, <1>4 DEF OnList
    <3>3. i = 1 <=> j = 1
      BY <2>1, <3>2, <1>1
    <3>4. CASE i # 1 /\ j # 1
      <4>1. i - 1 = j - 1
        BY <2>1, <3>1, <3>4, <1>4 DEF IsInjective
      <4> QED
        BY <4>1, <1>1, <1>2
    <3> QED
      BY <3>3, <3>4
  <2> QED
    BY <2>1 DEF IsInjective
<1> QED
  BY <1>3, <1>4

(* Waiters get on and off the list as they should.                         *)
LEMMA WaiterStep ==
  ASSUME TypeOK, Phases, NoWaiterDropped, [Next]_vars
  PROVE  NoWaiterDropped'
<1> USE DEF fileVars, waitVars, globalVars, procVars
<1>1. ASSUME NEW t \in Thread, TclpInitNotifier(t) PROVE NoWaiterDropped'
  BY <1>1
     DEF TypeOK, NoWaiterDropped, OnList, WaitForFiles, TclpInitNotifier
<1>2. ASSUME NEW t \in Thread, NEW f \in Fd, NEW m \in SUBSET Condition,
             TclpCreateFileHandler(t, f, m) PROVE NoWaiterDropped'
  BY <1>2
     DEF TypeOK, NoWaiterDropped, OnList, WaitForFiles, TclpCreateFileHandler
<1>3. ASSUME NEW t \in Thread, NEW f \in Fd, TclpDeleteFileHandler(t, f) PROVE NoWaiterDropped'
  BY <1>3
     DEF TypeOK, NoWaiterDropped, OnList, WaitForFiles, TclpDeleteFileHandler
<1>4. ASSUME NEW t \in Thread, NEW f \in Fd, FileHandlerEventProc(t, f) PROVE NoWaiterDropped'
  BY <1>4
     DEF TypeOK, NoWaiterDropped, OnList, WaitForFiles, FileHandlerEventProc
<1>5. ASSUME NEW t \in Thread, TclpAlertNotifier(t) PROVE NoWaiterDropped'
  BY <1>5
     DEF TypeOK, NoWaiterDropped, OnList, WaitForFiles, TclpAlertNotifier
<1>6. ASSUME NEW t \in Thread, NEW k \in Kinds \cup {"hook"},
             StartNotifierThread(t, k) PROVE NoWaiterDropped'
  BY <1>6
     DEF TypeOK, NoWaiterDropped, OnList, WaitForFiles, StartNotifierThread
<1>7. ASSUME NEW t \in Thread, StartLock(t) PROVE NoWaiterDropped'
  BY <1>7
     DEF TypeOK, NoWaiterDropped, OnList, WaitForFiles, StartLock, Continue
<1>8. ASSUME NEW t \in Thread, Started(t) PROVE NoWaiterDropped'
  BY <1>8
     DEF TypeOK, NoWaiterDropped, OnList, WaitForFiles, Started, Continue
<1>9. ASSUME NEW t \in Thread, EnterWait(t) PROVE NoWaiterDropped'
  <2>1. /\ pc[t] = "enter" /\ UNCHANGED numFdBits /\ waitingList \in Seq(Thread)
        /\ IsInjective(waitingList) /\ ~OnList(t)
    BY <1>9 DEF EnterWait, NoWaiterDropped, TypeOK, IsInjective
  <2>2. \A u \in Thread \ {t} :
           /\ pc'[u] = pc[u] /\ eventReady'[u] = eventReady[u]
           /\ WaitForFiles(u)' <=> WaitForFiles(u)
    BY <1>9, <2>1 DEF EnterWait, WaitForFiles, TypeOK
  <2>3. CASE /\ pc' = [pc EXCEPT ![t] = "run"] /\ UNCHANGED waitingList
    <3>1. pc'[t] = "run"
      BY <2>3 DEF TypeOK
    <3> QED
      BY <2>1, <2>2, <2>3, <3>1 DEF NoWaiterDropped, OnList
  <2>4. CASE /\ pc' = [pc EXCEPT ![t] = "wait"] /\ UNCHANGED kind
             /\ waitingList' = IF WaitForFiles(t) THEN <<t>> \o waitingList ELSE waitingList
    <3>1. pc'[t] = "wait" /\ (WaitForFiles(t)' <=> WaitForFiles(t))
      BY <2>1, <2>4 DEF TypeOK, WaitForFiles
    <3>2. CASE WaitForFiles(t)
      <4>1. /\ \A u \in Thread : OnList(u)' <=> u = t \/ OnList(u)
            /\ IsInjective(waitingList')
        BY <2>1, <2>4, <3>2, EnterList
      <4> QED
        BY <2>2, <3>1, <4>1 DEF NoWaiterDropped, IsInjective
    <3>3. CASE ~WaitForFiles(t)
      BY <2>1, <2>2, <2>4, <3>1, <3>3 DEF NoWaiterDropped, OnList
    <3> QED
      BY <3>2, <3>3
  <2> QED
    BY <1>9, <2>3, <2>4 DEF EnterWait
<1>10. ASSUME NEW t \in Thread, LeaveWait(t) PROVE NoWaiterDropped'
  <2>1. /\ pc'[t] = "run" /\ UNCHANGED numFdBits /\ waitingList \in Seq(Thread)
        /\ IsInjective(waitingList) /\ LeaveList(t)
    BY <1>10 DEF LeaveWait, NoWaiterDropped, TypeOK, IsInjective
  <2>2. \A u \in Thread \ {t} :
           /\ pc'[u] = pc[u] /\ eventReady'[u] = eventReady[u]
           /\ WaitForFiles(u)' <=> WaitForFiles(u)
    BY <1>10, <2>1 DEF LeaveWait, WaitForFiles, TypeOK
  <2>3. IsInjective(waitingList') /\ ~OnList(t)'
    BY <2>1, UnlinkList DEF LeaveList, OnList
  <2>4. \A u \in Thread \ {t} : OnList(u)' <=> OnList(u)
    BY <2>1, UnlinkList DEF LeaveList, OnList
  <2> QED
    BY <2>1, <2>2, <2>3, <2>4 DEF NoWaiterDropped, IsInjective
<1>11. ASSUME NotifierStarts PROVE NoWaiterDropped'
  BY <1>11
     DEF TypeOK, NoWaiterDropped, OnList, WaitForFiles, NotifierStarts
<1>12. ASSUME NotifierMasks PROVE NoWaiterDropped'
  BY <1>12
     DEF TypeOK, NoWaiterDropped, OnList, WaitForFiles, NotifierMasks
<1>13. ASSUME NotifierSelects PROVE NoWaiterDropped'
  BY <1>13
     DEF TypeOK, NoWaiterDropped, OnList, WaitForFiles, NotifierSelects
<1>14. ASSUME NotifierInterrupted PROVE NoWaiterDropped'
  BY <1>14
     DEF TypeOK, NoWaiterDropped, OnList, WaitForFiles, NotifierInterrupted
<1>15. ASSUME NotifierAlerts PROVE NoWaiterDropped'
  <2>1. waitingList \in Seq(Thread) /\ IsInjective(waitingList)
        /\ UNCHANGED <<pc, kind, numFdBits>>
    BY <1>15 DEF NotifierAlerts, NoWaiterDropped, TypeOK, IsInjective
  <2>2. \A u \in Thread : WaitForFiles(u)' <=> WaitForFiles(u)
    BY <2>1 DEF WaitForFiles
  <2>3. CASE UNCHANGED waitVars
    BY <2>1, <2>2, <2>3 DEF NoWaiterDropped, OnList
  <2>4. ASSUME NEW t \in Thread, AlertSingleThread(t) PROVE NoWaiterDropped'
    <3>1. /\ IsInjective(waitingList') /\ ~OnList(t)'
          /\ \A u \in Thread \ {t} : OnList(u)' <=> OnList(u)
      BY <2>1, <2>4, UnlinkList DEF AlertSingleThread
    <3>2. eventReady'[t] /\ \A u \in Thread \ {t} : eventReady'[u] = eventReady[u]
      BY <2>4 DEF AlertSingleThread, TypeOK
    <3> QED
      BY <2>1, <2>2, <3>1, <3>2 DEF NoWaiterDropped, IsInjective
  <2>5. \A i \in DOMAIN waitingList : waitingList[i] \in Thread
    BY <2>1
  <2> QED
    BY <1>15, <2>3, <2>4, <2>5 DEF NotifierAlerts
<1>16. ASSUME NotifierReads PROVE NoWaiterDropped'
  BY <1>16
     DEF TypeOK, NoWaiterDropped, OnList, WaitForFiles, NotifierReads
<1>17. ASSUME NotifierExits PROVE NoWaiterDropped'
  BY <1>17
     DEF TypeOK, NoWaiterDropped, OnList, WaitForFiles, NotifierExits
<1>18. ASSUME NEW t \in Thread, TclpFinalizeNotifier(t) PROVE NoWaiterDropped'
  BY <1>18
     DEF TypeOK, NoWaiterDropped, OnList, WaitForFiles, TclpFinalizeNotifier, Forget
<1>19. ASSUME NEW t \in Thread, FinalizeJoined(t) PROVE NoWaiterDropped'
  BY <1>19
     DEF TypeOK, NoWaiterDropped, OnList, WaitForFiles, FinalizeJoined
<1>20. ASSUME NEW t \in Thread, AtForkChild(t) PROVE NoWaiterDropped'
  <2>1. waitingList \in Seq(Thread) /\ <<>> \in Seq(Thread)
    BY DEF TypeOK
  <2>2. waitingList' = <<>>
    <3>1. CASE notifierThreadRunning
      BY <1>20, <3>1 DEF AtForkChild
    <3>2. CASE ~notifierThreadRunning
      <4>1. \A u \in Thread : ~OnList(u)
        BY <3>2 DEF Phases, NoWaiterDropped
      <4> QED
        BY <1>20, <3>2, <2>1, <4>1, NobodyListed DEF AtForkChild
    <3> QED
      BY <3>1, <3>2
  <2>3. \A u \in Thread : ~OnList(u)' /\ pc'[u] # "wait"
    BY <1>20, <2>2 DEF OnList, AtForkChild
  <2> QED
    BY <2>2, <2>3 DEF NoWaiterDropped
<1>21. ASSUME NEW x \in Bits, FileChanges(x) PROVE NoWaiterDropped'
  BY <1>21
     DEF TypeOK, NoWaiterDropped, OnList, WaitForFiles, FileChanges
<1>22. ASSUME UNCHANGED vars PROVE NoWaiterDropped'
  BY <1>22
     DEF TypeOK, NoWaiterDropped, OnList, WaitForFiles, vars
<1> QED
  BY <1>1, <1>2, <1>3, <1>4, <1>5, <1>6, <1>7, <1>8, <1>9, <1>10, <1>11, <1>12, <1>13, <1>14, <1>15, <1>16, <1>17, <1>18, <1>19, <1>20, <1>21, <1>22
     DEF Next, ThreadStep, NotifierThreadProc

(* What the notifier thread selects stays current while the threads on the *)
(* list do, whatever the other ones do.                                    *)
LEMMA SelectFrame ==
  ASSUME SelectIsCurrent, UNCHANGED <<npc, masks, poll>>, pipe' = {} => pipe = {},
         \A u \in Thread : OnList(u)' <=> OnList(u),
         \A u \in Thread : OnList(u) =>
            BitsOf(u)' = BitsOf(u) /\ (WantsPoll(u)' <=> WantsPoll(u))
  PROVE  SelectIsCurrent'
<1> DEFINE listed == {u \in Thread : OnList(u)}
           bits == UNION {BitsOf(u) : u \in listed}
<1>1. bits' = bits
  <2>1. \A x : x \in bits' <=> \E u \in Thread : OnList(u)' /\ x \in BitsOf(u)'
    OBVIOUS
  <2>2. \A x : x \in bits <=> \E u \in Thread : OnList(u) /\ x \in BitsOf(u)
    OBVIOUS
  <2>3. \A x : x \in bits' <=> x \in bits
    BY <2>1, <2>2
  <2> HIDE DEF bits
  <2> QED
    BY <2>3
<1>2. npc = "select" /\ pipe = {} =>
         masks = bits /\ (poll \/ \A u \in Thread : OnList(u) => ~WantsPoll(u))
  BY DEF SelectIsCurrent
<1>3. npc' = "select" /\ pipe' = {} =>
         masks' = bits' /\ (poll' \/ \A u \in Thread : OnList(u)' => ~WantsPoll(u)')
  <2> HIDE DEF bits
  <2> QED
    BY <1>1, <1>2
<1> QED
  BY <1>3 DEF SelectIsCurrent

(* The notifier thread learns of every change of the list.                 *)
LEMMA SelectStep ==
  ASSUME TypeOK, Phases, NoWaiterDropped, SelectIsCurrent,
         [Next]_vars
  PROVE  SelectIsCurrent'
<1> USE DEF fileVars, waitVars, globalVars, procVars
<1>1. ASSUME NEW t \in Thread, TclpInitNotifier(t) PROVE SelectIsCurrent'
  BY <1>1, SelectFrame
     DEF SelectIsCurrent, TclpInitNotifier, OnList, BitsOf, WantsPoll
<1>2. ASSUME NEW t \in Thread, NEW f \in Fd, NEW m \in SUBSET Condition,
             TclpCreateFileHandler(t, f, m) PROVE SelectIsCurrent'
  <2>1. ~OnList(t) /\ UNCHANGED <<waitingList, pollState, npc, masks, poll>>
    BY <1>2 DEF TclpCreateFileHandler, NoWaiterDropped
  <2>2. pipe' = {} => pipe = {}
    BY <1>2 DEF TclpCreateFileHandler
  <2>3. ASSUME NEW u \in Thread, u # t PROVE BitsOf(u)' = BitsOf(u)
    BY <1>2, <2>3 DEF TclpCreateFileHandler, BitsOf, TypeOK
  <2> QED
    BY <2>1, <2>2, <2>3, SelectFrame DEF OnList, WantsPoll
<1>3. ASSUME NEW t \in Thread, NEW f \in Fd, TclpDeleteFileHandler(t, f) PROVE SelectIsCurrent'
  <2>1. ~OnList(t) /\ UNCHANGED <<waitingList, pollState, npc, masks, poll>>
    BY <1>3 DEF TclpDeleteFileHandler, NoWaiterDropped
  <2>2. pipe' = {} => pipe = {}
    BY <1>3 DEF TclpDeleteFileHandler
  <2>3. ASSUME NEW u \in Thread, u # t PROVE BitsOf(u)' = BitsOf(u)
    BY <1>3, <2>3 DEF TclpDeleteFileHandler, BitsOf, TypeOK
  <2> QED
    BY <2>1, <2>2, <2>3, SelectFrame DEF OnList, WantsPoll
<1>4. ASSUME NEW t \in Thread, NEW f \in Fd, FileHandlerEventProc(t, f) PROVE SelectIsCurrent'
  BY <1>4, SelectFrame
     DEF SelectIsCurrent, FileHandlerEventProc, OnList, BitsOf, WantsPoll
<1>5. ASSUME NEW t \in Thread, TclpAlertNotifier(t) PROVE SelectIsCurrent'
  BY <1>5, SelectFrame
     DEF SelectIsCurrent, TclpAlertNotifier, OnList, BitsOf, WantsPoll
<1>6. ASSUME NEW t \in Thread, NEW k \in Kinds \cup {"hook"},
             StartNotifierThread(t, k) PROVE SelectIsCurrent'
  BY <1>6, SelectFrame
     DEF SelectIsCurrent, StartNotifierThread, OnList, BitsOf, WantsPoll
<1>7. ASSUME NEW t \in Thread, StartLock(t) PROVE SelectIsCurrent'
  BY <1>7, SelectFrame
     DEF SelectIsCurrent, StartLock, OnList, BitsOf, WantsPoll
<1>8. ASSUME NEW t \in Thread, Started(t) PROVE SelectIsCurrent'
  BY <1>8, SelectFrame
     DEF SelectIsCurrent, Started, OnList, BitsOf, WantsPoll
<1>9. ASSUME NEW t \in Thread, EnterWait(t) PROVE SelectIsCurrent'
  <2>1. /\ pc[t] = "enter" /\ ~OnList(t)
        /\ UNCHANGED <<checkMasks, numFdBits, npc, masks, poll>>
    BY <1>9 DEF EnterWait, NoWaiterDropped
  <2>2. CASE WaitForFiles(t)
    <3>1. pipe' = pipe \cup {"nul"}
      BY <1>9, <2>1, <2>2, WaiterHasNotifier DEF EnterWait, Trigger, Working
    <3>2. pipe' # {}
      BY <3>1
    <3> QED
      BY <3>2 DEF SelectIsCurrent
  <2>3. CASE ~WaitForFiles(t)
    <3>1. UNCHANGED <<pipe, waitingList>>
      BY <1>9, <2>3 DEF EnterWait
    <3>2. \A u \in Thread : u # t => pollState'[u] = pollState[u]
      BY <1>9 DEF EnterWait, TypeOK
    <3> QED
      BY <2>1, <3>1, <3>2, SelectFrame DEF OnList, BitsOf, WantsPoll
  <2> QED
    BY <2>2, <2>3
<1>10. ASSUME NEW t \in Thread, LeaveWait(t) PROVE SelectIsCurrent'
  <2>1. pc[t] = "wait" /\ UNCHANGED <<checkMasks, numFdBits, pollState, npc, masks, poll>>
    BY <1>10 DEF LeaveWait
  <2>2. CASE OnList(t)
    <3>1. pipe' = pipe \cup {"nul"}
      BY <1>10, <2>1, <2>2, WaiterHasNotifier DEF LeaveWait, LeaveTrigger, Trigger, Working
    <3>2. pipe' # {}
      BY <3>1
    <3> QED
      BY <3>2 DEF SelectIsCurrent
  <2>3. CASE ~OnList(t)
    <3>1. UNCHANGED <<pipe, waitingList>>
      BY <1>10, <2>3 DEF LeaveWait, LeaveTrigger, LeaveList
    <3> QED
      BY <2>1, <3>1, SelectFrame DEF OnList, BitsOf, WantsPoll
  <2> QED
    BY <2>2, <2>3
<1>11. ASSUME NotifierStarts PROVE SelectIsCurrent'
  BY <1>11
     DEF SelectIsCurrent, NotifierStarts
<1>12. ASSUME NotifierMasks PROVE SelectIsCurrent'
  <2>1. UNCHANGED <<waitingList, checkMasks, numFdBits>>
    BY <1>12 DEF NotifierMasks
  <2>2. \A u \in Thread : OnList(u)' <=> OnList(u)
    BY <2>1 DEF OnList
  <2>3. \A u \in Thread : BitsOf(u)' = BitsOf(u)
    BY <2>1 DEF BitsOf
  <2>4. \A u \in Thread : WantsPoll(u)' <=> WantsPoll(u)
    BY <1>12 DEF NotifierMasks, WantsPoll, TypeOK
  <2>5. masks' = UNION {BitsOf(u)' : u \in {v \in Thread : OnList(v)'}}
    <3>1. masks' = UNION {BitsOf(u) : u \in {v \in Thread : OnList(v)}}
      BY <1>12 DEF NotifierMasks
    <3>2. {v \in Thread : OnList(v)'} = {v \in Thread : OnList(v)}
      BY <2>2
    <3> QED
      BY <2>3, <3>1, <3>2
  <2>6. poll' \/ \A u \in Thread : OnList(u)' => ~WantsPoll(u)'
    BY <1>12, <2>2, <2>4 DEF NotifierMasks
  <2> QED
    BY <2>5, <2>6 DEF SelectIsCurrent
<1>13. ASSUME NotifierSelects PROVE SelectIsCurrent'
  BY <1>13
     DEF SelectIsCurrent, NotifierSelects
<1>14. ASSUME NotifierInterrupted PROVE SelectIsCurrent'
  BY <1>14
     DEF SelectIsCurrent, NotifierInterrupted
<1>15. ASSUME NotifierAlerts PROVE SelectIsCurrent'
  BY <1>15
     DEF SelectIsCurrent, NotifierAlerts
<1>16. ASSUME NotifierReads PROVE SelectIsCurrent'
  BY <1>16
     DEF SelectIsCurrent, NotifierReads
<1>17. ASSUME NotifierExits PROVE SelectIsCurrent'
  BY <1>17
     DEF SelectIsCurrent, NotifierExits
<1>18. ASSUME NEW t \in Thread, TclpFinalizeNotifier(t) PROVE SelectIsCurrent'
  <2>1. ~OnList(t) /\ UNCHANGED <<waitingList, pollState, npc, masks, poll>>
    BY <1>18 DEF TclpFinalizeNotifier, NoWaiterDropped
  <2>2. pipe' = {} => pipe = {}
    BY <1>18 DEF TclpFinalizeNotifier
  <2>3. ASSUME NEW u \in Thread, u # t PROVE BitsOf(u)' = BitsOf(u)
    BY <1>18, <2>3 DEF TclpFinalizeNotifier, BitsOf, TypeOK, Forget
  <2> QED
    BY <2>1, <2>2, <2>3, SelectFrame DEF OnList, WantsPoll
<1>19. ASSUME NEW t \in Thread, FinalizeJoined(t) PROVE SelectIsCurrent'
  BY <1>19, SelectFrame
     DEF SelectIsCurrent, FinalizeJoined, OnList, BitsOf, WantsPoll
<1>20. ASSUME NEW t \in Thread, AtForkChild(t) PROVE SelectIsCurrent'
  BY <1>20
     DEF SelectIsCurrent, AtForkChild
<1>21. ASSUME NEW x \in Bits, FileChanges(x) PROVE SelectIsCurrent'
  BY <1>21, SelectFrame
     DEF SelectIsCurrent, FileChanges, OnList, BitsOf, WantsPoll
<1>22. ASSUME UNCHANGED vars PROVE SelectIsCurrent'
  BY <1>22, SelectFrame
     DEF SelectIsCurrent, vars, OnList, BitsOf, WantsPoll
<1> QED
  BY <1>1, <1>2, <1>3, <1>4, <1>5, <1>6, <1>7, <1>8, <1>9, <1>10, <1>11, <1>12, <1>13, <1>14, <1>15, <1>16, <1>17, <1>18, <1>19, <1>20, <1>21, <1>22
     DEF Next, ThreadStep, NotifierThreadProc

(* For every set of threads, unless one forks while another one starts the *)
(* notifier thread: a waiter is on the list once and leaves it only with   *)
(* an alert, a notifier thread looks at the list, and does not sleep on    *)
(* masks other than those of the list.                                     *)
THEOREM WaitersServed ==
  ASSUME ~ForkAtStart
  PROVE  Spec => [](NoWaiterDropped /\ WaitersHaveNotifier /\ SelectIsCurrent)
<1>1. Init => IInv
  <2> SUFFICES ASSUME Init PROVE Phases /\ BufferRead /\ NoWaiterDropped /\ SelectIsCurrent
    BY FileHandlersInit DEF IInv
  <2>1. Phases
    BY SelectConstants DEF Init, Phases
  <2>2. BufferRead /\ SelectIsCurrent
    BY DEF Init, BufferRead, SelectIsCurrent
  <2>3. NoWaiterDropped
    BY DEF Init, NoWaiterDropped, OnList
  <2> QED
    BY <2>1, <2>2, <2>3
<1>2. IInv /\ [Next]_vars /\ TypeOK' => IInv'
  BY PhasesStep, BufferStep, WaiterStep, SelectStep DEF IInv
<1>3. IInv => NoWaiterDropped /\ WaitersHaveNotifier /\ SelectIsCurrent
  BY WaiterHasNotifier DEF IInv, WaitersHaveNotifier, Working
<1> QED
  BY <1>1, <1>2, <1>3, FileHandlersCorrect, PTL DEF Spec
==============================================================================
