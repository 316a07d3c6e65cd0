--------------------------- MODULE TclTimer_proofs ---------------------------
(***************************************************************************)
(* Proofs about timers, idle handlers and "after" scripts, TclTimer, for   *)
(* all numbers of them, all delays and any nesting of event loops.         *)
(***************************************************************************)
EXTENDS TclTimer, FiniteSetTheorems, SequenceTheorems, WellFoundedInduction, TLAPS

(* No more timers than half of the ints: two of them have different ones.  *)
NumbersDiffer == MaxTimers <= IntRange \div 2

(* The creation count stays below the largest int.                         *)
NoWrap == FirstId + MaxTimers < IntRange \div 2

(* The creation count does not get to a number whose C int is zero.        *)
NoNullToken == \A n \in 1..MaxTimers : CInt(FirstId + n) # 0

(* No more idle handlers than half of the ints.                            *)
GenerationsDiffer == MaxIdle < IntRange \div 2

NotAfter(s, t) == ~TimeBefore(t, s)

(* The list of timers is in the order of their times, and of creation for  *)
(* equal times.                                                            *)
TimersOrdered ==
    \A i, j \in DOMAIN timers : i < j =>
       \/ TimeBefore(timers[i].time, timers[j].time)
       \/ timers[i].time = timers[j].time /\ timers[i].born < timers[j].born

TimersNumbered ==
    /\ lastTimerId \in FirstId..(FirstId + MaxTimers)
    /\ \A i \in DOMAIN timers :
          timers[i].born \in (FirstId + 1)..lastTimerId /\ timers[i].time.usec <= USEC
    /\ \A i, j \in DOMAIN timers : timers[i].born = timers[j].born => i = j

(* Event loops and passes nest: a pass is one of the loop below it, a loop *)
(* one of the callback below it, and application code that has exited      *)
(* leaves them as they are.                                                *)
PassStages(f) == IF f.kind = "timer" THEN {"svc1", "svc2"} ELSE {"idle"}
FrameFits(d) ==
    IF stack[d].kind = "loop"
    THEN d > 1 => stack[d - 1].kind # "loop" /\ stack[d - 1].run # None
    ELSE /\ d > 1 /\ stack[d - 1].kind = "loop"
         /\ stack[d - 1].at \in PassStages(stack[d])
PassesNest ==
    /\ \A d \in DOMAIN stack : FrameFits(d)
    /\ exited /\ stack # <<>> => Top.kind # "loop" /\ Top.run # None

(* A pass knows the time and the last timer of its beginning; the timers   *)
(* created since expire no earlier.                                        *)
PassSees(f) ==
    f.kind = "timer" =>
       /\ f.current \in FirstId..lastTimerId
       /\ NotAfter(f.time, now)
       /\ \A i \in DOMAIN timers :
             timers[i].born > f.current => NotAfter(f.time, timers[i].time)
PassesSee == \A d \in DOMAIN stack : PassSees(stack[d])

(* The idle handlers are listed as they were created, and lastIdlePtr is   *)
(* the last one.                                                           *)
IdleListed ==
    /\ idleBorn <= MaxIdle
    /\ lastIdlePtr = IF idleList = <<>> THEN 0 ELSE idleList[Len(idleList)].born
    /\ \A i \in DOMAIN idleList :
          idleList[i].born \in 1..idleBorn /\ idleList[i].generation <= idleGeneration
    /\ \A i, j \in DOMAIN idleList : i < j => idleList[i].born < idleList[j].born

(* Those created since a pass began are of a later generation.             *)
IdlePassSees(f) ==
    f.kind = "idle" =>
       /\ f.old < idleGeneration /\ f.start <= idleBorn
       /\ \A i \in DOMAIN idleList :
             idleList[i].born > f.start => idleList[i].generation > f.old
IdlePassesSee == \A d \in DOMAIN stack : IdlePassSees(stack[d])

(* Every pass but the one that begins has run an idle handler, so there    *)
(* are no more generations than idle handlers that are gone.               *)
Beginning ==
    /\ stack # <<>> /\ Top.kind = "idle" /\ Top.run = None
    /\ idleList # <<>> /\ idleList[1].generation <= Top.old
GenerationsCounted ==
    idleGeneration + Len(idleList) <= idleBorn + IF Beginning THEN 1 ELSE 0

(* Scripts on the list and callbacks that are pending correspond: T, I and *)
(* A are the timers, idle handlers and scripts that are listed.            *)
Pairs(T, I, A, token, allocated) ==
    /\ A \subseteq allocated
    /\ \A t \in T : t.data \in After => t.data \in A /\ token[t.data] = CInt(t.born)
    /\ \A h \in I : h.data \in After => h.data \in A /\ token[h.data] = 0
    /\ \A g, h \in I : g.data \in After /\ g.data = h.data => g = h
    /\ \A a \in A : IF token[a] = 0 THEN \E h \in I : h.data = a
                    ELSE \E t \in T : t.data = a
AfterPairs ==
    ~exited => Pairs(ToSet(timers), ToSet(idleList), ToSet(afters), afterToken, alloc)

(* A script that runs is off the list, allocated, and runs once.           *)
Runs(d, a) == d \in DOMAIN stack /\ stack[d].kind # "loop" /\ stack[d].run = a
RunningApart ==
    \A a \in After :
       /\ \A d \in DOMAIN stack : Runs(d, a) => a \notin ToSet(afters) /\ a \in alloc
       /\ \A d, e \in DOMAIN stack : Runs(d, a) /\ Runs(e, a) => d = e

TimerInv ==
    /\ TypeOK /\ PendingIsQueued /\ TimersNumbered /\ TimersOrdered
    /\ PassesNest /\ PassesSee /\ IdleListed /\ IdlePassesSee


------------------------------------------------------------------------------
(* Numbers and C ints.                                                     *)

H == IntRange \div 2

(* The ints are halved by zero.                                            *)
LEMMA HalfRange ==
  /\ IntRange \in Nat \ {0} /\ H \in Nat \ {0}
  /\ IntRange = 2 * (H)
<1>1. PICK k \in 1..IntRange : IntRange = 2 * k
  BY TimerConstants
<1>2. IntRange \in Int
  BY <1>1
<1> QED BY <1>1, <1>2 DEF H

(* Quotient and remainder.                                                 *)
LEMMA DivMod ==
  ASSUME NEW n \in Int, NEW b \in Nat \ {0}
  PROVE  n % b \in 0..(b - 1) /\ n \div b \in Int /\ n = b * (n \div b) + (n % b)
OBVIOUS

(* The only multiple of w between -w and w is zero.                        *)
LEMMA NoMultiple ==
  ASSUME NEW q \in Int, NEW w \in Nat \ {0}, NEW r \in Int, r = w * q, -w < r, r < w
  PROVE q = 0
<1>1. CASE q >= 1
  <2>1. w * q >= w
    BY <1>1
  <2> QED BY <2>1
<1>2. CASE q <= -1
  <2>1. w * q <= -w
    BY <1>2
  <2> QED BY <2>1
<1> QED BY <1>1, <1>2

(* A C int differs from its number by a multiple of the number of ints.    *)
LEMMA CIntValue ==
  ASSUME NEW n \in Int
  PROVE  /\ CInt(n) \in Int /\ -H <= CInt(n) /\ CInt(n) < H
         /\ \E q \in Int : n = CInt(n) + IntRange * q
<1>1. IntRange \in Nat \ {0} /\ H \in Nat \ {0} /\ IntRange = 2 * H
  BY HalfRange
<1>0. PICK m \in Int : m = n + H
  BY <1>1
<1>2. m % IntRange \in 0..(IntRange - 1) /\ m \div IntRange \in Int
      /\ m = IntRange * (m \div IntRange) + (m % IntRange)
  BY <1>1, DivMod
<1>3. CInt(n) = (m % IntRange) - H
  BY <1>0 DEF CInt, H
<1>4. CInt(n) \in Int /\ -H <= CInt(n) /\ CInt(n) < H
  BY <1>1, <1>2, <1>3
<1>5. n = CInt(n) + IntRange * (m \div IntRange)
  BY <1>0, <1>1, <1>2, <1>3
<1> QED
  BY <1>2, <1>4, <1>5

(* A number that fits is its own C int.                                    *)
LEMMA CIntSmall ==
  ASSUME NEW n \in Int, -H <= n, n < H
  PROVE  CInt(n) = n
<1>1. IntRange \in Nat \ {0} /\ H \in Nat \ {0} /\ IntRange = 2 * H
  BY HalfRange
<1>2. PICK q \in Int : n = CInt(n) + IntRange * q
  BY CIntValue
<1>3. CInt(n) \in Int /\ -H <= CInt(n) /\ CInt(n) < H
  BY CIntValue
<1>4. PICK r \in Int : r = n - CInt(n)
  BY <1>3
<1>5. r = IntRange * q /\ -IntRange < r /\ r < IntRange
  BY <1>1, <1>2, <1>3, <1>4
<1>6. q = 0
  BY <1>1, <1>5, NoMultiple
<1> QED
  BY <1>1, <1>3, <1>4, <1>5, <1>6

------------------------------------------------------------------------------
(* Times.                                                                  *)

(* Another second is USEC more parts of one.                               *)
LEMMA Product ==
  ASSUME NEW m \in Int, NEW n \in Int, m < n
  PROVE  m * USEC + USEC <= n * USEC /\ n * USEC \in Int /\ m * USEC \in Int
<1>1. USEC \in Nat \ {0}
  BY TimerConstants
<1>2. PICK d \in Nat : n = (m + 1) + d
  <2>1. n - (m + 1) \in Nat
    OBVIOUS
  <2> QED BY <2>1
<1>3. n * USEC = (m * USEC + USEC) + d * USEC
  BY <1>1, <1>2
<1>4. d * USEC \in Nat /\ m * USEC \in Int
  BY <1>1
<1> QED
  BY <1>1, <1>3, <1>4

(* A timer never expires before it was created, carried or not.            *)
LEMMA LaterTime ==
  ASSUME NEW ms \in Nat, now \in Time, now.usec < USEC
  PROVE  LET t == Later(ms) IN
         /\ t \in Time /\ NotAfter(now, t)
         /\ t.usec >= USEC => Carry(t) \in Time /\ NotAfter(now, Carry(t)) /\ Carry(t).usec <= USEC
<1> DEFINE q == ms \div USEC
           r == ms % USEC
<1>1. USEC \in Nat \ {0}
  BY TimerConstants
<1>2. q \in Nat /\ r \in Nat /\ r < USEC
  <2>0. ms \in Int
    OBVIOUS
  <2>1. r \in 0..(USEC - 1) /\ q \in Int /\ ms = USEC * q + r
    BY ONLY <1>1, <2>0, DivMod
  <2>2. q >= 0
    <3>1. CASE q < 0
      <4>1. USEC * q <= -USEC
        BY <1>1, <2>1, <3>1
      <4> QED BY <1>1, <2>1, <4>1
    <3> QED BY <2>1, <3>1
  <2> QED BY <1>1, <2>1, <2>2
<1>3. now.sec \in Nat /\ now.usec \in Nat
  BY DEF Time
<1>4. Later(ms) = [sec |-> now.sec + q, usec |-> now.usec + r]
  BY DEF Later
<1> HIDE DEF q, r
<1>5. Later(ms) \in Time /\ NotAfter(now, Later(ms))
  BY <1>2, <1>3, <1>4 DEF Time, NotAfter, TimeBefore
<1>6. ASSUME Later(ms).usec >= USEC
      PROVE  /\ Carry(Later(ms)) \in Time /\ NotAfter(now, Carry(Later(ms)))
             /\ Carry(Later(ms)).usec <= USEC
  <2>1. Carry(Later(ms)) = [sec |-> (now.sec + q) + 1, usec |-> (now.usec + r) - USEC]
    BY <1>4 DEF Carry
  <2>2. (now.usec + r) - USEC \in Nat /\ (now.usec + r) - USEC <= USEC
    BY <1>1, <1>2, <1>3, <1>4, <1>6
  <2> QED
    BY <1>2, <1>3, <2>1, <2>2 DEF Time, NotAfter, TimeBefore
<1> QED
  BY <1>5, <1>6

(* An instant counts parts of a second.                                    *)
LEMMA InstantType ==
  ASSUME NEW t \in Time
  PROVE  Instant(t) \in Nat /\ Instant(t) = t.sec * USEC + t.usec /\ t.sec * USEC \in Nat
<1>1. USEC \in Nat \ {0}
  BY TimerConstants
<1>2. t.sec \in Nat /\ t.usec \in Nat
  BY DEF Time
<1>3. t.sec * USEC \in Nat
  BY <1>1, <1>2
<1> QED BY <1>2, <1>3 DEF Instant

(* The order of times is the one of instants, unless a second is exceeded. *)
LEMMA InstantGrows ==
  ASSUME NEW s \in Time, NEW t \in Time, s.usec <= USEC, NotAfter(s, t)
  PROVE  Instant(s) <= Instant(t)
<1>1. s.sec \in Nat /\ s.usec \in Nat /\ t.sec \in Nat /\ t.usec \in Nat /\ USEC \in Nat
  BY TimerConstants DEF Time
<1>2. /\ Instant(s) = s.sec * USEC + s.usec /\ s.sec * USEC \in Nat
      /\ Instant(t) = t.sec * USEC + t.usec /\ t.sec * USEC \in Nat
  BY InstantType
<1>3. CASE s.sec < t.sec
  <2>1. s.sec * USEC + USEC <= t.sec * USEC
    BY <1>1, <1>3, Product
  <2> QED
    BY <1>1, <1>2, <2>1
<1>4. CASE s.sec = t.sec
  BY <1>1, <1>2, <1>4 DEF NotAfter, TimeBefore
<1> QED
  BY <1>1, <1>3, <1>4 DEF NotAfter, TimeBefore

(* The block time ends when the timer expires, unless it has.              *)
LEMMA BlockTimeEnds ==
  ASSUME NEW t \in Time, t.usec <= USEC, now \in Time, now.usec < USEC
  PROVE  /\ Instant(BlockTime(t)) \in Nat
         /\ \/ Instant(now) + Instant(BlockTime(t)) = Instant(t)
            \/ Instant(BlockTime(t)) = 0 /\ Instant(t) <= Instant(now)
<1>1. /\ t.sec \in Nat /\ t.usec \in Nat /\ now.sec \in Nat /\ now.usec \in Nat
      /\ USEC \in Nat \ {0}
  BY TimerConstants DEF Time
<1>2. /\ Instant(now) = now.sec * USEC + now.usec /\ now.sec * USEC \in Nat
      /\ Instant(t) = t.sec * USEC + t.usec /\ t.sec * USEC \in Nat
  BY InstantType
<1> DEFINE borrow == t.usec < now.usec
           sec == t.sec - now.sec - IF borrow THEN 1 ELSE 0
           usec == t.usec - now.usec + IF borrow THEN USEC ELSE 0
<1>3. BlockTime(t) = IF sec < 0 THEN [sec |-> 0, usec |-> 0] ELSE [sec |-> sec, usec |-> usec]
  BY DEF BlockTime
<1>4. sec \in Int /\ usec \in Nat
  BY <1>1
<1>5. CASE sec < 0
  <2>1. Instant(BlockTime(t)) = 0
    BY <1>1, <1>3, <1>5 DEF Instant
  <2>2. Instant(t) <= Instant(now)
    <3>1. CASE borrow
      <4>1. NotAfter(t, now)
        BY <1>1, <1>5, <3>1 DEF NotAfter, TimeBefore
      <4> QED
        BY <4>1, InstantGrows
    <3>2. CASE ~borrow
      <4>1. t.sec < now.sec
        BY <1>1, <1>5, <3>2
      <4>2. NotAfter(t, now)
        BY <1>1, <4>1 DEF NotAfter, TimeBefore
      <4> QED
        BY <4>2, InstantGrows
    <3> QED BY <3>1, <3>2
  <2> QED BY <2>1, <2>2
<1>6. CASE ~(sec < 0)
  <2>1. sec \in Nat
    BY <1>4, <1>6
  <2>2. BlockTime(t) = [sec |-> sec, usec |-> usec]
    BY <1>3, <1>6
  <2>3. BlockTime(t) \in Time
    BY <1>4, <2>1, <2>2 DEF Time
  <2>4. Instant(BlockTime(t)) = sec * USEC + usec /\ Instant(BlockTime(t)) \in Nat
    BY <2>2, <2>3, InstantType
  <2>5. CASE borrow
    <3>1. t.sec = (sec + now.sec) + 1 /\ t.usec = (usec + now.usec) - USEC
      BY <1>1, <2>5
    <3>2. t.sec * USEC = (sec * USEC + now.sec * USEC) + USEC
      BY <1>1, <1>4, <3>1
    <3>3. sec * USEC \in Nat
      BY <1>1, <2>1
    <3> HIDE DEF sec, usec
    <3> QED
      BY <1>1, <1>2, <1>4, <2>4, <3>1, <3>2, <3>3
  <2>6. CASE ~borrow
    <3>1. t.sec = sec + now.sec /\ t.usec = usec + now.usec
      BY <1>1, <2>6
    <3>2. t.sec * USEC = sec * USEC + now.sec * USEC
      BY <1>1, <1>4, <3>1
    <3>3. sec * USEC \in Nat
      BY <1>1, <2>1
    <3> HIDE DEF sec, usec
    <3> QED
      BY <1>1, <1>2, <1>4, <2>4, <3>1, <3>2, <3>3
  <2> QED BY <2>5, <2>6
<1> QED BY <1>5, <1>6

------------------------------------------------------------------------------
(* Lists.                                                                  *)

(* A set of naturals that is not empty has a least element.                *)
LEMMA LeastElement ==
    ASSUME NEW S \in SUBSET Nat, S # {}
    PROVE  \E n \in S : \A m \in S : n <= m
<1>1. PICK n \in S : \A m \in S : <<m, n>> \notin OpToRel(<, Nat)
  BY WFMin, NatLessThanWellFounded, Zenon
<1>2. \A m \in S : ~(m < n)
  BY <1>1, Zenon DEF OpToRel
<1>3. n \in Nat /\ \A m \in S : m \in Nat
  OBVIOUS
<1> QED
  BY <1>2, <1>3

(* The number of places in keep up to k.                                   *)
UpTo(keep, k) == {i \in keep : i <= k}

(* What is counted by the rank of a place.                                 *)
LEMMA InUpTo ==
  ASSUME NEW keep \in SUBSET (Nat \ {0}), NEW k \in Nat, NEW i
  PROVE  i \in UpTo(keep, k) <=> i \in keep /\ i \in Nat \ {0} /\ i <= k
<1>1. i \in keep => i \in Nat \ {0}
  OBVIOUS
<1>2. i \in UpTo(keep, k) <=> i \in keep /\ i <= k
  BY Zenon DEF UpTo
<1> QED
  BY <1>1, <1>2, Zenon

(* Ranks are numbers.                                                      *)
LEMMA RankOfPlace ==
  ASSUME NEW keep \in SUBSET (Nat \ {0}), IsFiniteSet(keep), NEW k \in Nat
  PROVE  /\ IsFiniteSet(UpTo(keep, k)) /\ Cardinality(UpTo(keep, k)) \in Nat
         /\ Cardinality(UpTo(keep, k)) <= Cardinality(keep)
<1>1. UpTo(keep, k) \subseteq keep
  BY DEF UpTo
<1> QED
  BY <1>1, FS_Subset, FS_CardinalityType

(* The rank grows at each place that is kept, by one.                      *)
LEMMA RankStep ==
  ASSUME NEW keep \in SUBSET (Nat \ {0}), IsFiniteSet(keep), NEW k \in Nat
  PROVE  /\ UpTo(keep, 0) = {}
         /\ k + 1 \in keep => Cardinality(UpTo(keep, k + 1)) = Cardinality(UpTo(keep, k)) + 1
         /\ k + 1 \notin keep => UpTo(keep, k + 1) = UpTo(keep, k)
<1>1. UpTo(keep, 0) = {}
  <2>1. ASSUME NEW i PROVE i \notin UpTo(keep, 0)
    BY InUpTo
  <2> QED
    BY <2>1
<1>2. ASSUME k + 1 \in keep
      PROVE  Cardinality(UpTo(keep, k + 1)) = Cardinality(UpTo(keep, k)) + 1
  <2>1. ASSUME NEW i PROVE i \in UpTo(keep, k + 1) <=> i \in UpTo(keep, k) \cup {k + 1}
    BY <1>2, InUpTo
  <2>2. k + 1 \notin UpTo(keep, k)
    BY InUpTo
  <2>3. UpTo(keep, k + 1) = UpTo(keep, k) \cup {k + 1}
    BY <2>1
  <2> QED
    BY <2>2, <2>3, RankOfPlace, FS_AddElement
<1>3. ASSUME k + 1 \notin keep
      PROVE  UpTo(keep, k + 1) = UpTo(keep, k)
  <2>1. ASSUME NEW i PROVE i \in UpTo(keep, k + 1) <=> i \in UpTo(keep, k)
    BY <1>3, InUpTo
  <2> QED
    BY <2>1
<1> QED
  BY <1>1, <1>2, <1>3

(* No two places have the same rank.                                       *)
LEMMA RankGrows ==
  ASSUME NEW keep \in SUBSET (Nat \ {0}), IsFiniteSet(keep), NEW k \in Nat,
         NEW m \in keep, k < m
  PROVE  Cardinality(UpTo(keep, k)) < Cardinality(UpTo(keep, m))
<1>1. m \in Nat \ {0}
  OBVIOUS
<1>2. m \in UpTo(keep, m) /\ m \notin UpTo(keep, k)
  BY <1>1, InUpTo
<1>3. IsFiniteSet(UpTo(keep, m)) /\ IsFiniteSet(UpTo(keep, k))
  BY <1>1, RankOfPlace
<1>4. ASSUME NEW i \in UpTo(keep, k)
      PROVE  i \in UpTo(keep, m)
  BY <1>1, InUpTo
<1> HIDE DEF UpTo
<1>5. UpTo(keep, k) \cup {m} \subseteq UpTo(keep, m)
  BY <1>2, <1>4
<1>6. Cardinality(UpTo(keep, k) \cup {m}) = Cardinality(UpTo(keep, k)) + 1
  BY <1>2, <1>3, FS_AddElement
<1>7. Cardinality(UpTo(keep, k) \cup {m}) <= Cardinality(UpTo(keep, m))
  BY <1>3, <1>5, FS_Subset
<1>8. Cardinality(UpTo(keep, k)) \in Nat /\ Cardinality(UpTo(keep, m)) \in Nat
  BY <1>3, FS_CardinalityType
<1> QED
  BY <1>6, <1>7, <1>8

(* Each number up to the count of places is a rank.                        *)
LEMMA RankReached ==
  ASSUME NEW keep \in SUBSET (Nat \ {0}), IsFiniteSet(keep), NEW n \in Nat,
         \A k \in keep : k <= n, NEW j \in 1..Cardinality(keep)
  PROVE  \E k \in keep : Cardinality(UpTo(keep, k)) = j
<1> DEFINE S == {k \in Nat : j <= Cardinality(UpTo(keep, k))}
<1>1. n \in S
  <2>1. UpTo(keep, n) = keep
    BY DEF UpTo
  <2>2. Cardinality(keep) \in Nat
    BY FS_CardinalityType
  <2> QED
    BY <2>1, <2>2
<1>2. S \in SUBSET Nat /\ S # {}
  BY <1>1
<1> HIDE DEF S
<1>3. PICK k \in S : \A m \in S : k <= m
  BY ONLY <1>2, LeastElement, Zenon
<1>4. k \in Nat /\ j <= Cardinality(UpTo(keep, k))
  BY <1>3 DEF S
<1>5. j \in Nat \ {0}
  BY FS_CardinalityType
<1>6. k # 0
  <2>1. UpTo(keep, 0) = {}
    BY RankStep
  <2> QED
    BY <1>4, <1>5, <2>1, FS_EmptySet
<1>7. PICK m \in Nat : k = m + 1
  <2>1. k - 1 \in Nat /\ k = (k - 1) + 1
    BY <1>4, <1>6
  <2> QED
    BY <2>1
<1>8. m \notin S
  BY <1>3, <1>7
<1>9. ~(j <= Cardinality(UpTo(keep, m))) /\ Cardinality(UpTo(keep, m)) \in Nat
  BY <1>8, RankOfPlace DEF S
<1>10. k \in keep /\ Cardinality(UpTo(keep, k)) = Cardinality(UpTo(keep, m)) + 1
  BY <1>4, <1>7, <1>9, RankStep
<1> QED
  BY <1>4, <1>5, <1>9, <1>10

(* The list r has the elements of s at the places in keep, in order.       *)
Kept(r, s, keep, h) ==
    /\ h \in [DOMAIN r -> keep]
    /\ \A j \in DOMAIN r : r[j] = s[h[j]]
    /\ \A i, j \in DOMAIN r : i < j => h[i] < h[j]
    /\ \A k \in keep : \E j \in DOMAIN r : h[j] = k

(* Keep does what it says.                                                 *)
LEMMA KeepElements ==
  ASSUME NEW S, NEW s \in Seq(S), NEW keep \in SUBSET DOMAIN s, NEW r, r = Keep(s, keep)
  PROVE  /\ r \in Seq(S) /\ Len(r) = Cardinality(keep) /\ Len(r) <= Len(s)
         /\ \E h : Kept(r, s, keep, h)
<1>1. PICK n \in Nat : n = Len(s) /\ DOMAIN s = 1..n
  OBVIOUS
<1>0. /\ keep \in SUBSET (1..n) /\ keep \in SUBSET (Nat \ {0})
      /\ \A k \in keep : k \in Nat /\ k <= n
  BY <1>1
<1>2. IsFiniteSet(keep) /\ Cardinality(keep) \in Nat
  <2>1. IsFiniteSet(1..n)
    BY FS_Interval
  <2> QED
    BY <1>0, <2>1, FS_Subset, FS_CardinalityType
<1>a. \A k \in Nat : /\ Cardinality(UpTo(keep, k)) \in Nat
                    /\ Cardinality(UpTo(keep, k)) <= Cardinality(keep)
  BY <1>0, <1>2, RankOfPlace
<1>b. \A k \in Nat, m \in keep : k < m => Cardinality(UpTo(keep, k)) < Cardinality(UpTo(keep, m))
  BY <1>0, <1>2, RankGrows
<1> DEFINE place(j) == CHOOSE k \in keep : Cardinality(UpTo(keep, k)) = j
           h == [j \in 1..Cardinality(keep) |-> place(j)]
<1>3. r = [j \in 1..Cardinality(keep) |-> s[place(j)]]
  BY DEF Keep, UpTo
<1>4. ASSUME NEW j \in 1..Cardinality(keep)
      PROVE  place(j) \in keep /\ Cardinality(UpTo(keep, place(j))) = j
  <2>1. \E k \in keep : Cardinality(UpTo(keep, k)) = j
    BY <1>0, <1>2, RankReached
  <2> QED
    BY <2>1
<1> HIDE DEF place
<1>5. r \in Seq(S) /\ Len(r) = Cardinality(keep) /\ DOMAIN r = 1..Cardinality(keep)
  <2>1. r \in [1..Cardinality(keep) -> S]
    BY <1>0, <1>1, <1>3, <1>4
  <2> QED
    BY <1>2, <1>3, <2>1
<1>6. Cardinality(keep) <= Len(s)
  <2>1. IsFiniteSet(1..n) /\ Cardinality(1..n) = n
    BY FS_Interval
  <2>2. Cardinality(keep) <= Cardinality(1..n)
    BY <1>0, <2>1, FS_Subset
  <2> QED
    BY <1>1, <2>1, <2>2
<1>7. Kept(r, s, keep, h)
  <2>1. h \in [DOMAIN r -> keep] /\ \A j \in DOMAIN r : r[j] = s[h[j]]
    BY <1>3, <1>4, <1>5
  <2>2. ASSUME NEW i \in DOMAIN r, NEW j \in DOMAIN r, i < j
        PROVE  h[i] < h[j]
    <3>1. /\ h[i] \in keep /\ Cardinality(UpTo(keep, h[i])) = i
          /\ h[j] \in keep /\ Cardinality(UpTo(keep, h[j])) = j
      BY <1>4, <1>5
    <3>2. h[i] \in Nat /\ h[j] \in Nat
      BY <1>0, <3>1
    <3>3. ~(h[j] < h[i]) /\ h[j] # h[i]
      BY <1>b, <1>2, <1>5, <2>2, <3>1, <3>2
    <3> QED
      BY <3>2, <3>3
  <2>3. ASSUME NEW k \in keep
        PROVE  \E j \in DOMAIN r : h[j] = k
    <3>1. PICK j \in Nat : j = Cardinality(UpTo(keep, k))
      BY <1>0, <1>a
    <3>2. j \in DOMAIN r
      <4>1. j <= Cardinality(keep)
        BY <1>0, <1>a, <3>1
      <4>2. 0 < j
        <5>1. Cardinality(UpTo(keep, 0)) < j
          BY <1>0, <1>b, <3>1
        <5>2. UpTo(keep, 0) = {}
          BY <1>0, <1>2, RankStep
        <5> QED
          BY <5>1, <5>2, FS_EmptySet
      <4> QED
        BY <1>2, <1>5, <4>1, <4>2
    <3>3. h[j] \in keep /\ Cardinality(UpTo(keep, h[j])) = j
      BY <1>4, <1>5, <3>2
    <3>4. ~(h[j] < k) /\ ~(k < h[j])
      BY <1>0, <1>b, <3>1, <3>3
    <3> QED
      <4>1. h[j] \in Nat /\ k \in Nat
        BY <1>0, <3>3
      <4>2. h[j] = k
        BY <3>4, <4>1
      <4> QED
        BY <3>2, <4>2
  <2> QED
    BY <2>1, <2>2, <2>3 DEF Kept
<1> QED
  BY <1>5, <1>6, <1>7

(* r is s with e linked in as the k-th element.                            *)
InsertedAt(r, s, k, e) ==
    /\ DOMAIN r = 1..(Len(s) + 1)
    /\ \A j \in 1..(Len(s) + 1) :
          r[j] = IF j < k THEN s[j] ELSE IF j = k THEN e ELSE s[j - 1]

(* Linking an element in.                                                  *)
LEMMA InsertAtElements ==
  ASSUME NEW S, NEW s \in Seq(S), NEW k \in 1..(Len(s) + 1), NEW e \in S
  PROVE  InsertAt(s, k, e) \in Seq(S) /\ InsertedAt(InsertAt(s, k, e), s, k, e)
<1> DEFINE a == SubSeq(s, 1, k - 1)
           b == SubSeq(s, k, Len(s))
<1>1. Len(s) \in Nat /\ k \in Int /\ 1 <= k /\ k <= Len(s) + 1
  OBVIOUS
<1>2. /\ a \in Seq(S) /\ Len(a) = k - 1
      /\ \A j \in 1..(k - 1) : a[j] = s[j]
  BY <1>1
<1>3. /\ b \in Seq(S) /\ Len(b) = Len(s) - k + 1
      /\ \A j \in 1..(Len(s) - k + 1) : b[j] = s[k + j - 1]
  BY <1>1
<1>4. InsertAt(s, k, e) = (a \o <<e>>) \o b
  BY DEF InsertAt
<1> HIDE DEF a, b
<1>5. /\ a \o <<e>> \in Seq(S) /\ Len(a \o <<e>>) = k
      /\ \A j \in 1..k : (a \o <<e>>)[j] = IF j < k THEN s[j] ELSE e
  BY <1>1, <1>2
<1> DEFINE c == a \o <<e>>
<1> HIDE DEF c
<1>6. /\ c \in Seq(S) /\ Len(c) = k
      /\ \A j \in 1..k : c[j] = IF j < k THEN s[j] ELSE e
  BY <1>5 DEF c
<1>7. c \o b \in Seq(S) /\ Len(c \o b) = Len(s) + 1
  <2>1. c \in Seq(S) /\ b \in Seq(S)
    BY <1>3, <1>6
  <2>2. c \o b \in Seq(S) /\ Len(c \o b) = Len(c) + Len(b)
    BY <2>1
  <2> QED
    BY <1>1, <1>3, <1>6, <2>2
<1>8. ASSUME NEW j \in 1..(Len(s) + 1)
      PROVE  (c \o b)[j] = IF j < k THEN s[j] ELSE IF j = k THEN e ELSE s[j - 1]
  <2>0. j \in Int /\ 1 <= j /\ j <= Len(s) + 1
    BY <1>1
  <2>1. CASE j <= k
    <3>1. (c \o b)[j] = c[j] /\ j \in 1..k
      BY <1>1, <1>3, <1>6, <2>0, <2>1
    <3>2. c[j] = IF j < k THEN s[j] ELSE e
      BY <1>6, <3>1
    <3> QED
      BY <1>1, <2>0, <2>1, <3>1, <3>2
  <2>2. CASE j > k
    <3>1. (c \o b)[j] = b[j - k]
      BY <1>1, <1>3, <1>6, <2>2
    <3>2. b[j - k] = s[k + (j - k) - 1]
      BY <1>1, <1>3, <2>2
    <3> QED
      BY <1>1, <2>2, <3>1, <3>2
  <2>3. j <= k \/ j > k
    BY <1>1, <2>0
  <2> QED
    BY <2>1, <2>2, <2>3
<1>9. InsertAt(s, k, e) = c \o b
  BY <1>4 DEF c
<1> QED
  BY <1>7, <1>8, <1>9 DEF InsertedAt

(* The list r has elements of s only, in their order.                      *)
Thinned(r, s) ==
    /\ Len(r) <= Len(s)
    /\ \E h \in [DOMAIN r -> DOMAIN s] :
          /\ \A j \in DOMAIN r : r[j] = s[h[j]]
          /\ \A i, j \in DOMAIN r : i < j => h[i] < h[j]

(* So does the list itself, the list without its first element, the empty  *)
(* list, and what is kept of it.                                           *)
LEMMA ThinnedLists ==
  ASSUME NEW S, NEW s \in Seq(S)
  PROVE  /\ Thinned(s, s) /\ Thinned(<<>>, s)
         /\ s # <<>> => Tail(s) \in Seq(S) /\ Thinned(Tail(s), s)
         /\ \A keep \in SUBSET DOMAIN s :
               Keep(s, keep) \in Seq(S) /\ Thinned(Keep(s, keep), s)
<1>1. Len(s) \in Nat /\ DOMAIN s = 1..Len(s)
  OBVIOUS
<1>2. Thinned(s, s)
  <2> DEFINE h == [j \in DOMAIN s |-> j]
  <2>1. h \in [DOMAIN s -> DOMAIN s] /\ \A j \in DOMAIN s : h[j] = j
    OBVIOUS
  <2> HIDE DEF h
  <2>2. \A i, j \in DOMAIN s : i < j => h[i] < h[j]
    BY <2>1
  <2> QED
    BY <1>1, <2>1, <2>2 DEF Thinned
<1>3. Thinned(<<>>, s)
  <2> DEFINE h == [j \in DOMAIN <<>> |-> 1]
  <2>1. DOMAIN <<>> = {} /\ Len(<<>>) = 0
    OBVIOUS
  <2>2. h \in [DOMAIN <<>> -> DOMAIN s]
    BY <2>1
  <2>3. Len(<<>>) <= Len(s)
    BY <1>1, <2>1
  <2> QED
    BY <2>1, <2>2, <2>3 DEF Thinned
<1>4. ASSUME s # <<>>
      PROVE  Tail(s) \in Seq(S) /\ Thinned(Tail(s), s)
  <2>1. /\ Tail(s) \in Seq(S) /\ DOMAIN Tail(s) = 1..(Len(s) - 1) /\ Len(s) >= 1
        /\ \A j \in 1..(Len(s) - 1) : Tail(s)[j] = s[j + 1]
    BY <1>1, <1>4
  <2> DEFINE h == [j \in DOMAIN Tail(s) |-> j + 1]
  <2>2. h \in [DOMAIN Tail(s) -> DOMAIN s]
    BY <1>1, <2>1
  <2>3. \A j \in DOMAIN Tail(s) : Tail(s)[j] = s[h[j]]
    BY <2>1
  <2>4. \A i, j \in DOMAIN Tail(s) : i < j => h[i] < h[j]
    BY <2>1
  <2>5. Len(Tail(s)) <= Len(s)
    BY <1>1, <1>4
  <2> QED
    BY <2>1, <2>2, <2>3, <2>4, <2>5 DEF Thinned
<1>5. ASSUME NEW keep \in SUBSET DOMAIN s
      PROVE  Keep(s, keep) \in Seq(S) /\ Thinned(Keep(s, keep), s)
  <2>1. PICK r : r = Keep(s, keep)
    OBVIOUS
  <2>2. r \in Seq(S) /\ Len(r) <= Len(s) /\ \E h : Kept(r, s, keep, h)
    BY <2>1, KeepElements
  <2>3. PICK h : Kept(r, s, keep, h)
    BY <2>2
  <2>4. h \in [DOMAIN r -> DOMAIN s]
    BY <2>3 DEF Kept
  <2> QED
    BY <2>1, <2>2, <2>3, <2>4 DEF Kept, Thinned
<1> QED
  BY <1>2, <1>3, <1>4, <1>5

(* The last element that is kept stays the last one.                       *)
LEMMA LastKept ==
  ASSUME NEW S, NEW s \in Seq(S), NEW keep \in SUBSET DOMAIN s, s # <<>>, Len(s) \in keep
  PROVE  Keep(s, keep) # <<>> /\ Keep(s, keep)[Len(Keep(s, keep))] = s[Len(s)]
<1>1. PICK r : r = Keep(s, keep)
  OBVIOUS
<1>2. r \in Seq(S) /\ \E h : Kept(r, s, keep, h)
  BY <1>1, KeepElements
<1>3. PICK h : Kept(r, s, keep, h)
  BY <1>2
<1>4. PICK j \in DOMAIN r : h[j] = Len(s)
  BY <1>3 DEF Kept
<1>5. Len(r) \in Nat /\ DOMAIN r = 1..Len(r) /\ Len(r) >= 1 /\ j \in 1..Len(r)
  BY <1>2, <1>4
<1>6. h[Len(r)] \in 1..Len(s) /\ r[Len(r)] = s[h[Len(r)]] /\ (j < Len(r) => h[j] < h[Len(r)])
  BY <1>3, <1>5 DEF Kept
<1>7. j = Len(r)
  BY <1>4, <1>5, <1>6
<1> QED
  BY <1>1, <1>4, <1>5, <1>6, <1>7

------------------------------------------------------------------------------
(* What a step does to the timers.                                         *)

TimersThinned ==
    timers' \in Seq(Timer) /\ Thinned(timers', timers) /\ UNCHANGED lastTimerId
TimerAdded(t, k) ==
    /\ timers' \in Seq(Timer) /\ InsertedAt(timers', timers, k, t)
    /\ lastTimerId' = lastTimerId + 1 /\ lastTimerId < FirstId + MaxTimers
    /\ t.born = lastTimerId + 1 /\ NotAfter(now, t.time) /\ t.time.usec <= USEC
    /\ \A i \in DOMAIN timers :
          IF i < k THEN NotAfter(timers[i].time, t.time) ELSE TimeBefore(t.time, timers[i].time)
TimerKinds ==
    \/ TimersThinned
    \/ \E t \in Timer : \E k \in 1..(Len(timers) + 1) : TimerAdded(t, k)

(* A timer is added behind those that do not expire later.                 *)
LEMMA TimerIsAdded ==
  ASSUME TypeOK, TimersOrdered, NEW time \in Time, NEW data \in Data,
         NotAfter(now, time), time.usec <= USEC,
         TclCreateAbsoluteTimerHandler(time, data)
  PROVE  \E t \in Timer : \E k \in 1..(Len(timers) + 1) : t.data = data /\ TimerAdded(t, k)
<1> DEFINE t == [time |-> time, born |-> lastTimerId + 1, data |-> data]
           S == {i \in DOMAIN timers : TimeBefore(t.time, timers[i].time)}
                \cup {Len(timers) + 1}
<1>1. /\ timers \in Seq(Timer) /\ Len(timers) \in Nat /\ DOMAIN timers = 1..Len(timers)
      /\ lastTimerId \in Nat
  BY DEF TypeOK
<1>2. t \in Timer
  BY <1>1 DEF Timer
<1>3. S \in SUBSET (1..(Len(timers) + 1)) /\ S \in SUBSET Nat /\ S # {}
  BY <1>1
<1>4. Min(S) \in S /\ \A i \in S : Min(S) <= i
  <2> HIDE DEF S
  <2>1. \E n \in S : \A m \in S : n <= m
    BY ONLY <1>3, LeastElement, Zenon
  <2> QED
    BY <2>1 DEF Min
<1>5. PICK k \in 1..(Len(timers) + 1) : k = Min(S)
  BY <1>3, <1>4
<1>6. timers' = InsertAt(timers, k, t) /\ lastTimerId' = lastTimerId + 1
      /\ lastTimerId < FirstId + MaxTimers
  BY <1>5 DEF TclCreateAbsoluteTimerHandler, Inserted
<1>7. timers' \in Seq(Timer) /\ InsertedAt(timers', timers, k, t)
  BY <1>1, <1>2, <1>6, InsertAtElements
<1>8. ASSUME NEW i \in DOMAIN timers, i < k
      PROVE  NotAfter(timers[i].time, t.time)
  <2>1. i \notin S
    <3> HIDE DEF S
    <3> QED
      BY <1>1, <1>4, <1>5, <1>8
  <2> QED
    BY <2>1 DEF NotAfter
<1>9. ASSUME NEW i \in DOMAIN timers, ~(i < k)
      PROVE  TimeBefore(t.time, timers[i].time)
  <2>1. k \in DOMAIN timers /\ TimeBefore(t.time, timers[k].time)
    BY <1>1, <1>4, <1>5, <1>9
  <2>2. i = k \/ TimeBefore(timers[k].time, timers[i].time) \/ timers[k].time = timers[i].time
    BY <1>1, <1>9, <2>1 DEF TimersOrdered
  <2>3. timers[i].time \in Time /\ timers[k].time \in Time
    <3>1. timers[i] \in Timer /\ timers[k] \in Timer
      BY <1>1, <2>1, ElementOfSeq
    <3> QED
      BY <3>1 DEF Timer
  <2>4. ASSUME NEW a \in Time, NEW b \in Time, NEW c \in Time, TimeBefore(a, b), TimeBefore(b, c)
        PROVE  TimeBefore(a, c)
    BY <2>4 DEF TimeBefore, Time
  <2>5. time \in Time /\ t.time = time
    OBVIOUS
  <2> HIDE DEF t
  <2> QED
    BY <2>1, <2>2, <2>3, <2>4, <2>5
<1>10. TimerAdded(t, k)
  <2>1. t.born = lastTimerId + 1 /\ t.time = time
    OBVIOUS
  <2> HIDE DEF t
  <2> QED
    BY <1>6, <1>7, <1>8, <1>9, <2>1 DEF TimerAdded
<1> QED
  BY <1>2, <1>10

(* Lists of timers that are kept in part.                                  *)
LEMMA TimersAreThinned ==
  ASSUME TypeOK, UNCHANGED lastTimerId,
         \/ UNCHANGED timers
         \/ timers' = <<>>
         \/ timers # <<>> /\ timers' = Tail(timers)
         \/ \E keep \in SUBSET DOMAIN timers : timers' = Keep(timers, keep)
  PROVE  TimersThinned
<1>1. timers \in Seq(Timer)
  BY DEF TypeOK
<1>2. timers' \in Seq(Timer) /\ Thinned(timers', timers)
  <2>1. <<>> \in Seq(Timer)
    OBVIOUS
  <2>2. /\ Thinned(timers, timers) /\ Thinned(<<>>, timers)
        /\ timers # <<>> => Tail(timers) \in Seq(Timer) /\ Thinned(Tail(timers), timers)
        /\ \A keep \in SUBSET DOMAIN timers :
              Keep(timers, keep) \in Seq(Timer) /\ Thinned(Keep(timers, keep), timers)
    BY ONLY <1>1, ThinnedLists
  <2> QED
    BY <1>1, <2>1, <2>2, Zenon
<1> QED
  BY <1>2 DEF TimersThinned

(* A token stands for at most one place.                                   *)
LEMMA WithoutTokenKeeps ==
  ASSUME NEW token
  PROVE  \/ WithoutToken(token) = timers
         \/ \E keep \in SUBSET DOMAIN timers : WithoutToken(token) = Keep(timers, keep)
<1> DEFINE at == {i \in DOMAIN timers : CInt(timers[i].born) = token}
<1>1. DOMAIN timers \ {Min(at)} \in SUBSET DOMAIN timers
  OBVIOUS
<1> QED
  BY <1>1 DEF WithoutToken

(* So it is by Tcl_CreateTimerHandler and by after, carried or not.        *)
LEMMA TimerIsCreated ==
  ASSUME TypeOK, TimersOrdered, NEW ms \in Delays
  PROVE  /\ \A d \in Plain : Tcl_CreateTimerHandler(ms, d) =>
               \E t \in Timer : \E k \in 1..(Len(timers) + 1) : t.data = d /\ TimerAdded(t, k)
         /\ \A a \in After : AfterTimer(a, ms) =>
               \E t \in Timer : \E k \in 1..(Len(timers) + 1) : t.data = a /\ TimerAdded(t, k)
<1>1. ASSUME NEW d \in Plain, Tcl_CreateTimerHandler(ms, d)
      PROVE  \E t \in Timer : \E k \in 1..(Len(timers) + 1) : t.data = d /\ TimerAdded(t, k)
  <2>1. ms \in Nat /\ d \in Data
    BY TimerConstants DEF Data
  <2>2. now \in Time /\ now.usec < USEC
    BY DEF TypeOK
  <2>3. /\ Later(ms) \in Time /\ NotAfter(now, Later(ms))
        /\ Later(ms).usec >= USEC =>
              Carry(Later(ms)) \in Time /\ NotAfter(now, Carry(Later(ms))) /\ Carry(Later(ms)).usec <= USEC
    BY <2>1, <2>2, LaterTime
  <2>4. CASE Later(ms).usec >= USEC
    BY <1>1, <2>1, <2>3, <2>4, TimerIsAdded DEF Tcl_CreateTimerHandler
  <2>5. CASE ~(Later(ms).usec >= USEC)
    <3>1. Later(ms).usec <= USEC
      BY <2>3, <2>5, TimerConstants DEF Time
    <3> QED
      BY <1>1, <2>1, <2>3, <2>5, <3>1, TimerIsAdded DEF Tcl_CreateTimerHandler
  <2> QED
    BY <2>4, <2>5
<1>2. ASSUME NEW a \in After, AfterTimer(a, ms)
      PROVE  \E t \in Timer : \E k \in 1..(Len(timers) + 1) : t.data = a /\ TimerAdded(t, k)
  <2>1. ms \in Nat /\ a \in Data
    BY TimerConstants DEF Data
  <2>2. now \in Time /\ now.usec < USEC
    BY DEF TypeOK
  <2>3. /\ Later(ms) \in Time /\ NotAfter(now, Later(ms))
        /\ Later(ms).usec >= USEC =>
              Carry(Later(ms)) \in Time /\ NotAfter(now, Carry(Later(ms))) /\ Carry(Later(ms)).usec <= USEC
    BY <2>1, <2>2, LaterTime
  <2>4. CASE Later(ms).usec > USEC
    <3>1. Later(ms).usec >= USEC
      BY <2>3, <2>4, TimerConstants DEF Time
    <3> QED
      BY <1>2, <2>1, <2>3, <2>4, <3>1, TimerIsAdded DEF AfterTimer
  <2>5. CASE ~(Later(ms).usec > USEC)
    <3>1. Later(ms).usec <= USEC
      BY <2>3, <2>5, TimerConstants DEF Time
    <3> QED
      BY <1>2, <2>1, <2>3, <2>5, <3>1, TimerIsAdded DEF AfterTimer
  <2> QED
    BY <2>4, <2>5
<1> QED
  BY <1>1, <1>2

(* Each action thins the list or adds a timer.                             *)
LEMMA TimerSteps ==
  ASSUME TypeOK, TimersOrdered, [Next]_vars
  PROVE  TimerKinds
<1> USE DEF TimerKinds
<1>1. CASE UNCHANGED timerVars
  BY <1>1, TimersAreThinned DEF timerVars
<1>2. ASSUME NEW ms \in Delays, NEW d \in Plain, Tcl_CreateTimerHandler(ms, d)
      PROVE  TimerKinds
  BY <1>2, TimerIsCreated
<1>3. ASSUME NEW a \in After, NEW ms \in Delays, AfterTimer(a, ms)
      PROVE  TimerKinds
  BY <1>3, TimerIsCreated
<1>4. ASSUME NEW i \in DOMAIN timers, Tcl_DeleteTimerHandler(i)
      PROVE  TimerKinds
  BY <1>4, TimersAreThinned, WithoutTokenKeeps DEF Tcl_DeleteTimerHandler
<1>5. CASE TimerExitProc
  BY <1>5, TimersAreThinned DEF TimerExitProc
<1>6. ASSUME NEW a \in After, AfterCancel(a)
      PROVE  TimerKinds
  BY <1>6, TimersAreThinned, WithoutTokenKeeps DEF AfterCancel
<1>7. CASE AfterCleanupProc
  <2>1. PICK keep \in SUBSET DOMAIN timers : timers' = Keep(timers, keep)
    BY <1>7 DEF AfterCleanupProc
  <2> QED
    BY <1>7, <2>1, TimersAreThinned DEF AfterCleanupProc
<1>8. CASE RunTimer
  BY <1>8, TimersAreThinned DEF RunTimer, Runnable
<1>9. CASE TimerPass
  BY <1>9, TimersAreThinned DEF TimerPass
<1>10. ASSUME NEW flags, TimerCheckProc(flags)
       PROVE  TimerKinds
  BY <1>10, TimersAreThinned DEF TimerCheckProc
<1>11. CASE Tcl_ServiceAll \/ WaitEnds
  BY <1>10, <1>11 DEF Tcl_ServiceAll, WaitEnds
<1>12. CASE UNCHANGED vars
  BY <1>1, <1>12 DEF vars
<1>13. CASE Tick \/ Enter \/ ServiceOther \/ CallbackReturns
  BY <1>1, <1>13 DEF Tick, Enter, Tcl_DoOneEvent, ServiceOther, CallbackReturns
<1>14. CASE LoopStep
  BY <1>1, <1>8, <1>9, <1>14
     DEF LoopStep, Wait, TimerPassEnds, NothingQueued, TclServiceIdle, RunIdle,
         IdlePassEnds, LoopEnds
<1>15. CASE Application
  BY <1>1, <1>2, <1>3, <1>4, <1>5, <1>6, <1>7, <1>15
     DEF Application, DoWhenIdle, CancelIdleCall, AfterIdle
<1> QED
  BY <1>11, <1>12, <1>13, <1>14, <1>15 DEF Next

(* The order of times.                                                     *)
LEMMA TimeOrder ==
  ASSUME NEW a \in Time, NEW b \in Time, NEW c \in Time
  PROVE  /\ ~TimeBefore(a, a)
         /\ TimeBefore(a, b) \/ a = b \/ TimeBefore(b, a)
         /\ TimeBefore(a, b) => NotAfter(a, b)
         /\ TimeBefore(a, b) /\ TimeBefore(b, c) => TimeBefore(a, c)
         /\ NotAfter(a, b) /\ NotAfter(b, c) => NotAfter(a, c)
         /\ TimeBefore(a, b) /\ NotAfter(b, c) => TimeBefore(a, c)
<1>1. /\ a.sec \in Nat /\ a.usec \in Nat /\ b.sec \in Nat /\ b.usec \in Nat
      /\ c.sec \in Nat /\ c.usec \in Nat
      /\ a = [sec |-> a.sec, usec |-> a.usec] /\ b = [sec |-> b.sec, usec |-> b.usec]
  BY DEF Time
<1> QED
  BY <1>1 DEF TimeBefore, NotAfter

(* Numbers and order survive.                                              *)
LEMMA TimersStep ==
  ASSUME TypeOK, TimersNumbered, TimersOrdered, TimerKinds
  PROVE  TimersNumbered' /\ TimersOrdered'
<1>1. /\ timers \in Seq(Timer) /\ Len(timers) \in Nat /\ DOMAIN timers = 1..Len(timers)
      /\ FirstId \in Nat /\ MaxTimers \in Nat /\ lastTimerId \in FirstId..(FirstId + MaxTimers)
      /\ \A i \in DOMAIN timers : timers[i] \in Timer
  BY TimerConstants, ElementOfSeq DEF TypeOK, TimersNumbered
<1>2. CASE TimersThinned
  <2>1. PICK h \in [DOMAIN timers' -> DOMAIN timers] :
          /\ \A j \in DOMAIN timers' : timers'[j] = timers[h[j]]
          /\ \A i, j \in DOMAIN timers' : i < j => h[i] < h[j]
    BY <1>2 DEF TimersThinned, Thinned
  <2>2. lastTimerId' = lastTimerId /\ \A i \in DOMAIN timers' : i \in Nat
    BY <1>2 DEF TimersThinned
  <2>3. TimersOrdered'
    <3>1. ASSUME NEW i \in DOMAIN timers', NEW j \in DOMAIN timers', i < j
          PROVE  \/ TimeBefore(timers'[i].time, timers'[j].time)
                 \/ timers'[i].time = timers'[j].time /\ timers'[i].born < timers'[j].born
      <4>1. h[i] \in DOMAIN timers /\ h[j] \in DOMAIN timers /\ h[i] < h[j]
        BY <2>1, <3>1
      <4> QED
        BY <2>1, <4>1 DEF TimersOrdered
    <3> QED
      BY <3>1 DEF TimersOrdered, TimeBefore
  <2>4. TimersNumbered'
    <3>1. ASSUME NEW i \in DOMAIN timers', NEW j \in DOMAIN timers', timers'[i].born = timers'[j].born
          PROVE  i = j
      <4>1. h[i] = h[j]
        BY <2>1, <3>1 DEF TimersNumbered
      <4>2. h[i] \in Nat /\ h[j] \in Nat
        BY <1>1, <2>1
      <4>3. ~(i < j) /\ ~(j < i)
        BY <2>1, <4>1, <4>2
      <4> QED
        BY <2>2, <4>3
    <3>2. ASSUME NEW i \in DOMAIN timers'
          PROVE  timers'[i].born \in (FirstId + 1)..lastTimerId /\ timers'[i].time.usec <= USEC
      BY <2>1 DEF TimersNumbered
    <3> QED
      BY <1>1, <2>2, <3>1, <3>2 DEF TimersNumbered
  <2> QED
    BY <2>3, <2>4
<1>3. ASSUME NEW t \in Timer, NEW k \in 1..(Len(timers) + 1), TimerAdded(t, k)
      PROVE  TimersNumbered' /\ TimersOrdered'
  <2>1. /\ DOMAIN timers' = 1..(Len(timers) + 1)
        /\ \A j \in 1..(Len(timers) + 1) :
              timers'[j] = IF j < k THEN timers[j] ELSE IF j = k THEN t ELSE timers[j - 1]
    BY <1>3 DEF TimerAdded, InsertedAt
  <2>2. /\ lastTimerId' = lastTimerId + 1 /\ lastTimerId < FirstId + MaxTimers
        /\ t.born = lastTimerId + 1 /\ t.time.usec <= USEC /\ t.time \in Time
        /\ \A i \in DOMAIN timers :
              IF i < k THEN NotAfter(timers[i].time, t.time) ELSE TimeBefore(t.time, timers[i].time)
    BY <1>3 DEF TimerAdded, Timer
  <2>3. \A i \in DOMAIN timers :
           /\ timers[i].born \in (FirstId + 1)..lastTimerId /\ timers[i].time.usec <= USEC
           /\ timers[i].time \in Time
    BY <1>1 DEF TimersNumbered, Timer
  <2>4. ASSUME NEW j \in DOMAIN timers'
        PROVE  \/ j = k /\ timers'[j] = t
               \/ j < k /\ j \in DOMAIN timers /\ timers'[j] = timers[j]
               \/ j > k /\ j - 1 \in DOMAIN timers /\ timers'[j] = timers[j - 1]
    BY <1>1, <2>1
  <2>5. ASSUME NEW i \in DOMAIN timers', NEW j \in DOMAIN timers', i < j
        PROVE  /\ \/ TimeBefore(timers'[i].time, timers'[j].time)
                  \/ timers'[i].time = timers'[j].time /\ timers'[i].born < timers'[j].born
               /\ timers'[i].born # timers'[j].born
    <3>0. i \in Nat /\ j \in Nat /\ k \in Nat
      BY <1>1, <2>1
    <3>1. CASE i = k
      <4>1. timers'[i] = t /\ j > k /\ j - 1 \in DOMAIN timers /\ timers'[j] = timers[j - 1] /\ ~(j - 1 < k)
        BY <2>4, <2>5, <3>0, <3>1
      <4> QED
        BY <1>1, <2>2, <2>3, <4>1
    <3>2. CASE j = k
      <4>1. timers'[j] = t /\ i < k /\ i \in DOMAIN timers /\ timers'[i] = timers[i]
        BY <2>4, <2>5, <3>0, <3>2
      <4>2. NotAfter(timers[i].time, t.time) /\ timers[i].time \in Time /\ timers[i].born < t.born
        BY <1>1, <2>2, <2>3, <4>1
      <4>3. TimeBefore(timers[i].time, t.time) \/ timers[i].time = t.time
        BY <2>2, <4>2, TimeOrder DEF NotAfter
      <4>4. timers[i].born # t.born
        BY <1>1, <2>2, <2>3, <4>1
      <4> QED
        BY <4>1, <4>2, <4>3, <4>4
    <3>3. CASE i # k /\ j # k
      <4>1. PICK a \in DOMAIN timers, b \in DOMAIN timers :
               a < b /\ timers'[i] = timers[a] /\ timers'[j] = timers[b]
        <5>1. CASE j < k
          BY <2>4, <2>5, <3>0, <5>1
        <5>2. CASE i < k /\ j > k
          <6>1. i \in DOMAIN timers /\ j - 1 \in DOMAIN timers /\ i < j - 1
            BY <2>4, <3>0, <5>2
          <6> QED
            BY <2>4, <3>0, <5>2, <6>1
        <5>3. CASE i > k
          <6>1. i - 1 \in DOMAIN timers /\ j - 1 \in DOMAIN timers /\ i - 1 < j - 1 /\ j > k
            BY <2>4, <2>5, <3>0, <5>3
          <6> QED
            BY <2>4, <3>0, <5>3, <6>1
        <5> QED
          BY <2>5, <3>0, <3>3, <5>1, <5>2, <5>3
      <4>2. timers[a].born # timers[b].born
        BY <1>1, <4>1 DEF TimersNumbered
      <4> QED
        BY <4>1, <4>2 DEF TimersOrdered
    <3> QED
      BY <3>1, <3>2, <3>3
  <2>6. ASSUME NEW i \in DOMAIN timers', NEW j \in DOMAIN timers', timers'[i].born = timers'[j].born
        PROVE  i = j
    <3>1. ~(i < j) /\ ~(j < i)
      BY <2>5, <2>6
    <3> QED
      BY <1>1, <2>1, <3>1
  <2>7. ASSUME NEW i \in DOMAIN timers'
        PROVE  timers'[i].born \in (FirstId + 1)..(lastTimerId + 1) /\ timers'[i].time.usec <= USEC
    BY <1>1, <2>2, <2>3, <2>4
  <2>8. TimersNumbered'
    BY <1>1, <2>2, <2>6, <2>7 DEF TimersNumbered
  <2>9. TimersOrdered'
    BY <2>5 DEF TimersOrdered, TimeBefore
  <2> QED
    BY <2>8, <2>9
<1> QED
  BY <1>2, <1>3 DEF TimerKinds

------------------------------------------------------------------------------
(* What a step does to the idle handlers.                                  *)

LastIdle(list) == IF list = <<>> THEN 0 ELSE list[Len(list)].born

IdleThinned ==
    /\ idleList' \in Seq(Idle) /\ Thinned(idleList', idleList)
    /\ lastIdlePtr' = LastIdle(idleList') /\ UNCHANGED <<idleGeneration, idleBorn>>
IdleAdded(h) ==
    /\ idleList' = Append(idleList, h)
    /\ h.born = idleBorn + 1 /\ h.generation = idleGeneration
    /\ idleBorn < MaxIdle
    /\ lastIdlePtr' = idleBorn + 1 /\ idleBorn' = idleBorn + 1 /\ UNCHANGED idleGeneration
NewGeneration ==
    idleGeneration' = idleGeneration + 1 /\ UNCHANGED <<idleList, lastIdlePtr, idleBorn>>
IdleKinds == IdleThinned \/ NewGeneration \/ \E h \in Idle : IdleAdded(h)

(* An idle handler is appended.                                            *)
LEMMA IdleIsAdded ==
  ASSUME TypeOK, IdleListed, NEW data \in Data, Tcl_DoWhenIdle(data)
  PROVE  \E h \in Idle : h.data = data /\ IdleAdded(h)
<1> DEFINE h == [data |-> data, generation |-> idleGeneration, born |-> idleBorn + 1]
           last == {i \in DOMAIN idleList : idleList[i].born = lastIdlePtr}
<1>1. /\ idleList \in Seq(Idle) /\ Len(idleList) \in Nat /\ DOMAIN idleList = 1..Len(idleList)
      /\ idleBorn \in Nat /\ idleGeneration \in Nat
  BY DEF TypeOK
<1>2. h \in Idle
  BY <1>1 DEF Idle
<1>3. CASE idleList = <<>>
  <2>1. lastIdlePtr = 0
    BY <1>3 DEF IdleListed
  <2>2. idleList' = <<h>> /\ <<h>> = Append(idleList, h)
    BY <1>3, <2>1 DEF Tcl_DoWhenIdle
  <2> QED
    BY <1>2, <2>2 DEF Tcl_DoWhenIdle, IdleAdded
<1>4. CASE idleList # <<>>
  <2>1. Len(idleList) \in DOMAIN idleList
    BY <1>1, <1>4
  <2>2. lastIdlePtr = idleList[Len(idleList)].born /\ lastIdlePtr # 0
    BY <1>1, <1>4, <2>1 DEF IdleListed
  <2>3. last = {Len(idleList)}
    <3>1. ASSUME NEW i \in last PROVE i = Len(idleList)
      <4>1. ~(i < Len(idleList))
        BY <1>1, <2>1, <2>2 DEF IdleListed
      <4> QED
        BY <1>1, <4>1
    <3> QED
      BY <2>1, <2>2, <3>1
  <2>4. Max(last) = Len(idleList)
    BY <1>1, <2>3 DEF Max
  <2>5. SubSeq(idleList, 1, Max(last)) = idleList
    BY <1>1, <2>4, SubSeqFull
  <2>6. idleList' = Append(idleList, h)
    BY <2>2, <2>5 DEF Tcl_DoWhenIdle
  <2> QED
    BY <1>2, <2>6 DEF Tcl_DoWhenIdle, IdleAdded
<1> QED
  BY <1>3, <1>4

(* Idle handlers are cancelled.                                            *)
LEMMA IdleAreCancelled ==
  ASSUME TypeOK, IdleListed, NEW S, Tcl_CancelIdleCall(S)
  PROVE  /\ IdleThinned
         /\ idleList' = Keep(idleList, {i \in DOMAIN idleList : idleList[i].data \notin S})
<1> DEFINE keep == {i \in DOMAIN idleList : idleList[i].data \notin S}
<1>1. /\ idleList \in Seq(Idle) /\ Len(idleList) \in Nat /\ DOMAIN idleList = 1..Len(idleList)
  BY DEF TypeOK
<1>2. keep \in SUBSET DOMAIN idleList
  OBVIOUS
<1>3. /\ idleList' = Keep(idleList, keep) /\ UNCHANGED <<idleGeneration, idleBorn>>
      /\ lastIdlePtr' = IF idleList # <<>> /\ Last(idleList).data \in S
                        THEN IF idleList' = <<>> THEN 0 ELSE Last(idleList').born
                        ELSE lastIdlePtr
  BY DEF Tcl_CancelIdleCall
<1>4. idleList' \in Seq(Idle) /\ Thinned(idleList', idleList)
  BY ONLY <1>1, <1>2, <1>3, ThinnedLists
<1>5. lastIdlePtr' = LastIdle(idleList')
  <2>1. CASE idleList # <<>> /\ Last(idleList).data \in S
    BY <1>3, <2>1 DEF LastIdle, Last
  <2>2. CASE idleList = <<>>
    <3>1. lastIdlePtr = 0
      BY <2>2 DEF IdleListed
    <3>2. keep = {}
      BY <2>2
    <3>3. Len(idleList') = 0
      <4>1. Len(Keep(idleList, keep)) = Cardinality(keep)
        BY ONLY <1>1, <1>2, KeepElements
      <4> QED
        BY <1>3, <3>2, <4>1, FS_EmptySet
    <3>4. idleList' = <<>>
      BY <1>4, <3>3
    <3> QED
      BY <1>3, <2>2, <3>1, <3>4 DEF LastIdle
  <2>3. CASE idleList # <<>> /\ Last(idleList).data \notin S
    <3>1. Len(idleList) \in keep
      BY <1>1, <2>3 DEF Last
    <3>2. idleList' # <<>> /\ idleList'[Len(idleList')] = idleList[Len(idleList)]
      BY ONLY <1>1, <1>2, <1>3, <2>3, <3>1, LastKept
    <3> QED
      BY <1>3, <2>3, <3>2 DEF LastIdle, IdleListed
  <2> QED
    BY <2>1, <2>2, <2>3
<1> QED
  BY <1>3, <1>4, <1>5 DEF IdleThinned

(* Nothing, or the first idle handler, is taken.                           *)
LEMMA IdleIsTaken ==
  ASSUME TypeOK, IdleListed
  PROVE  /\ UNCHANGED idleVars => IdleThinned
         /\ idleList # <<>> /\ idleList' = Tail(idleList) /\ UNCHANGED <<idleGeneration, idleBorn>>
            /\ lastIdlePtr' = (IF Len(idleList) = 1 THEN 0 ELSE lastIdlePtr) => IdleThinned
<1>1. /\ idleList \in Seq(Idle) /\ Len(idleList) \in Nat /\ DOMAIN idleList = 1..Len(idleList)
  BY DEF TypeOK
<1>2. Thinned(idleList, idleList)
  BY ONLY <1>1, ThinnedLists
<1>3. ASSUME idleList # <<>>
      PROVE  Tail(idleList) \in Seq(Idle) /\ Thinned(Tail(idleList), idleList)
  BY ONLY <1>1, <1>3, ThinnedLists
<1>4. ASSUME idleList # <<>>
      PROVE  LastIdle(Tail(idleList)) = IF Len(idleList) = 1 THEN 0 ELSE lastIdlePtr
  <2>1. /\ Len(Tail(idleList)) = Len(idleList) - 1 /\ Len(idleList) >= 1
        /\ \A j \in 1..(Len(idleList) - 1) : Tail(idleList)[j] = idleList[j + 1]
    BY <1>1, <1>4
  <2>2. CASE Len(idleList) = 1
    <3>1. Tail(idleList) = <<>>
      <4>1. PICK r : r = Tail(idleList)
        OBVIOUS
      <4>2. r \in Seq(Idle) /\ Len(r) = 0
        BY <1>3, <1>4, <2>1, <2>2, <4>1
      <4> QED
        BY ONLY <4>1, <4>2, EmptySeq
    <3> QED
      BY <2>2, <3>1 DEF LastIdle
  <2>3. CASE Len(idleList) # 1
    <3>0. Len(idleList) - 1 \in 1..(Len(idleList) - 1)
      BY <1>1, <2>1, <2>3
    <3>1. Tail(idleList)[Len(Tail(idleList))] = idleList[Len(idleList)] /\ Tail(idleList) # <<>>
      <4>1. Tail(idleList)[Len(idleList) - 1] = idleList[(Len(idleList) - 1) + 1]
        BY <2>1, <3>0
      <4>2. (Len(idleList) - 1) + 1 = Len(idleList)
        BY <1>1
      <4>3. Tail(idleList) # <<>>
        <5>1. Len(<<>>) = 0 /\ Len(Tail(idleList)) # 0
          BY <1>1, <2>1, <2>3
        <5> QED
          BY <5>1
      <4> QED
        BY <2>1, <4>1, <4>2, <4>3
    <3> QED
      BY <1>4, <2>3, <3>1 DEF LastIdle, IdleListed
  <2> QED
    BY <2>2, <2>3
<1> QED
  BY <1>1, <1>2, <1>3, <1>4 DEF IdleThinned, idleVars, LastIdle, IdleListed

(* Each action thins the list, adds a handler or begins a generation.      *)
LEMMA IdleSteps ==
  ASSUME TypeOK, IdleListed, [Next]_vars
  PROVE  IdleKinds
<1> USE DEF IdleKinds
<1>1. CASE UNCHANGED idleVars
  BY <1>1, IdleIsTaken
<1>2. ASSUME NEW d \in Plain, DoWhenIdle(d)
      PROVE  IdleKinds
  BY <1>2, IdleIsAdded DEF DoWhenIdle, Data
<1>3. ASSUME NEW a \in After, AfterIdle(a)
      PROVE  IdleKinds
  BY <1>3, IdleIsAdded DEF AfterIdle, Data
<1>4. ASSUME NEW d \in Plain, CancelIdleCall(d)
      PROVE  IdleKinds
  BY <1>4, IdleAreCancelled DEF CancelIdleCall
<1>5. ASSUME NEW a \in After, AfterCancel(a)
      PROVE  IdleKinds
  BY <1>1, <1>5, IdleAreCancelled DEF AfterCancel
<1>6. CASE AfterCleanupProc
  BY <1>6, IdleAreCancelled DEF AfterCleanupProc
<1>7. CASE RunIdle
  BY <1>7, IdleIsTaken DEF RunIdle, OldEnough
<1>8. CASE TclServiceIdle
  BY <1>8 DEF TclServiceIdle, NewGeneration
<1>9. CASE UNCHANGED vars
  BY <1>1, <1>9 DEF vars
<1>10. CASE Tick \/ Enter \/ Tcl_ServiceAll \/ ServiceOther \/ WaitEnds \/ CallbackReturns
  BY <1>1, <1>10 DEF Tick, Enter, Tcl_DoOneEvent, Tcl_ServiceAll, ServiceOther, WaitEnds,
     CallbackReturns
<1>11. CASE LoopStep
  BY <1>1, <1>7, <1>8, <1>11
     DEF LoopStep, Wait, TimerPass, RunTimer, TimerPassEnds, NothingQueued, IdlePassEnds,
         LoopEnds
<1>12. CASE Application
  BY <1>1, <1>2, <1>3, <1>4, <1>5, <1>6, <1>12
     DEF Application, Tcl_CreateTimerHandler, Tcl_DeleteTimerHandler, AfterTimer, TimerExitProc
<1> QED
  BY <1>9, <1>10, <1>11, <1>12 DEF Next

(* The order of idle handlers survives.                                    *)
LEMMA IdleStep ==
  ASSUME TypeOK, IdleListed, IdleKinds
  PROVE  /\ IdleListed'
         /\ idleList' \in Seq(Idle) /\ lastIdlePtr' \in Nat
         /\ idleGeneration' \in Nat /\ idleBorn' \in Nat
<1>1. /\ idleList \in Seq(Idle) /\ Len(idleList) \in Nat /\ DOMAIN idleList = 1..Len(idleList)
      /\ idleBorn \in Nat /\ idleGeneration \in Nat /\ lastIdlePtr \in Nat /\ MaxIdle \in Nat
      /\ \A i \in DOMAIN idleList : idleList[i] \in Idle
  BY TimerConstants, ElementOfSeq DEF TypeOK
<1>2. /\ idleBorn <= MaxIdle /\ lastIdlePtr = LastIdle(idleList)
      /\ \A i \in DOMAIN idleList :
            /\ idleList[i].born \in Nat /\ 1 <= idleList[i].born /\ idleList[i].born <= idleBorn
            /\ idleList[i].generation \in Nat /\ idleList[i].generation <= idleGeneration
      /\ \A i, j \in DOMAIN idleList : i < j => idleList[i].born < idleList[j].born
  BY <1>1 DEF IdleListed, LastIdle, Idle
<1>3. CASE IdleThinned
  <2>1. /\ idleList' \in Seq(Idle) /\ lastIdlePtr' = LastIdle(idleList')
        /\ idleGeneration' = idleGeneration /\ idleBorn' = idleBorn
    BY <1>3 DEF IdleThinned
  <2>2. PICK h \in [DOMAIN idleList' -> DOMAIN idleList] :
          /\ \A j \in DOMAIN idleList' : idleList'[j] = idleList[h[j]]
          /\ \A i, j \in DOMAIN idleList' : i < j => h[i] < h[j]
    BY <1>3 DEF IdleThinned, Thinned
  <2>3. \A i \in DOMAIN idleList' :
           /\ idleList'[i].born \in Nat /\ 1 <= idleList'[i].born /\ idleList'[i].born <= idleBorn
           /\ idleList'[i].generation \in Nat /\ idleList'[i].generation <= idleGeneration
    BY <1>2, <2>2
  <2>4. \A i, j \in DOMAIN idleList' : i < j => idleList'[i].born < idleList'[j].born
    BY <1>2, <2>2
  <2>5. lastIdlePtr' \in Nat
    <3>1. CASE idleList' = <<>>
      BY <2>1, <3>1 DEF LastIdle
    <3>2. CASE idleList' # <<>>
      <4>1. Len(idleList') \in DOMAIN idleList'
        BY <2>1, <3>2
      <4> QED
        BY <2>1, <2>3, <3>2, <4>1 DEF LastIdle
    <3> QED
      BY <3>1, <3>2
  <2>6. IdleListed'
    BY <1>1, <1>2, <2>1, <2>3, <2>4 DEF IdleListed, LastIdle
  <2> QED
    BY <1>1, <2>1, <2>5, <2>6
<1>4. CASE NewGeneration
  BY <1>1, <1>2, <1>4 DEF NewGeneration, IdleListed, LastIdle
<1>5. ASSUME NEW h \in Idle, IdleAdded(h)
      PROVE  /\ IdleListed'
             /\ idleList' \in Seq(Idle) /\ lastIdlePtr' \in Nat
             /\ idleGeneration' \in Nat /\ idleBorn' \in Nat
  <2>1. /\ idleList' = Append(idleList, h) /\ h.born = idleBorn + 1
        /\ h.generation = idleGeneration /\ idleBorn < MaxIdle
        /\ lastIdlePtr' = idleBorn + 1 /\ idleBorn' = idleBorn + 1
        /\ idleGeneration' = idleGeneration
    BY <1>5 DEF IdleAdded
  <2>2. /\ idleList' \in Seq(Idle) /\ Len(idleList') = Len(idleList) + 1
        /\ DOMAIN idleList' = 1..(Len(idleList) + 1) /\ idleList' # <<>>
        /\ \A i \in 1..Len(idleList) : idleList'[i] = idleList[i]
        /\ idleList'[Len(idleList) + 1] = h
    BY <1>1, <2>1
  <2>3. \A i \in DOMAIN idleList' :
           /\ idleList'[i].born \in 1..(idleBorn + 1)
           /\ idleList'[i].generation <= idleGeneration
    <3>1. ASSUME NEW i \in 1..(Len(idleList) + 1)
          PROVE  idleList'[i].born \in 1..(idleBorn + 1) /\ idleList'[i].generation <= idleGeneration
      <4>1. CASE i = Len(idleList) + 1
        BY <1>1, <2>1, <2>2, <4>1
      <4>2. CASE i # Len(idleList) + 1
        <5>1. i \in DOMAIN idleList /\ idleList'[i] = idleList[i]
          BY <1>1, <2>2, <4>2
        <5> QED
          BY <1>1, <1>2, <5>1
      <4> QED
        BY <4>1, <4>2
    <3> QED
      BY <2>2, <3>1
  <2>4. ASSUME NEW i \in DOMAIN idleList', NEW j \in DOMAIN idleList', i < j
        PROVE  idleList'[i].born < idleList'[j].born
    <3>1. i \in DOMAIN idleList /\ idleList'[i] = idleList[i]
      BY <1>1, <2>2, <2>4
    <3>2. CASE j = Len(idleList) + 1
      BY <1>1, <1>2, <2>1, <2>2, <3>1, <3>2
    <3>3. CASE j # Len(idleList) + 1
      <4>1. j \in DOMAIN idleList /\ idleList'[j] = idleList[j]
        BY <1>1, <2>2, <3>3
      <4> QED
        BY <1>2, <2>4, <3>1, <4>1
    <3> QED
      BY <3>2, <3>3
  <2>5. IdleListed'
    <3>1. idleBorn' <= MaxIdle /\ lastIdlePtr' = idleList'[Len(idleList')].born
      BY <1>1, <2>1, <2>2
    <3> QED
      BY <2>1, <2>2, <2>3, <2>4, <3>1 DEF IdleListed
  <2> QED
    BY <1>1, <2>1, <2>2, <2>5
<1> QED
  BY <1>3, <1>4, <1>5 DEF IdleKinds

------------------------------------------------------------------------------
(* What a step does to the active event loops and passes.                  *)

Continues(f, g) ==
    /\ f.kind = g.kind
    /\ g.kind = "timer" => f.current = g.current /\ f.time = g.time
    /\ g.kind = "idle" => f.old = g.old /\ f.start = g.start
Entered(f) ==
    \/ f.kind = "loop"
    \/ /\ f.kind = "timer" /\ f.current = lastTimerId /\ f.time = now
       /\ UNCHANGED <<now, timers, lastTimerId>>
    \/ /\ f.kind = "idle" /\ f.old = idleGeneration /\ f.start = idleBorn
       /\ NewGeneration

StackSame == UNCHANGED stack /\ (exited' => exited \/ AtCode)
StackPushed(f) ==
    /\ stack' = Append(stack, f) /\ Entered(f) /\ ~exited'
    /\ IF f.kind = "loop" THEN AtCode
       ELSE f.run = None /\ stack # <<>> /\ Top.kind = "loop" /\ Top.at \in PassStages(f)
StackSet(f) ==
    /\ stack # <<>> /\ SetTop(f) /\ Continues(f, Top) /\ ~exited'
    /\ Top.kind = "loop" \/ RunTimer \/ RunIdle \/ CallbackReturns
StackCut(n) == stack' = SubSeq(stack, 1, n) /\ ~exited'
StackKinds ==
    \/ StackSame
    \/ \E f \in Frame : StackPushed(f) \/ StackSet(f)
    \/ \E n \in 0..Len(stack) : StackCut(n)

(* The kinds of frames.                                                    *)
LEMMA FrameKinds ==
  ASSUME NEW f \in Frame
  PROVE  /\ f.kind \in {"loop", "timer", "idle"}
         /\ f.kind = "loop" =>
              /\ f \in [kind : {"loop"}, at : {"svc1", "wait", "svc2", "idle"},
                        flags : SUBSET {"timer", "idle"}, deadline : Int]
              /\ f.flags \in SUBSET {"timer", "idle"} /\ f.deadline \in Int
         /\ f.kind = "timer" =>
              /\ f \in [kind : {"timer"}, current : Nat, time : Time, run : Data \cup {None}]
              /\ f.current \in Nat /\ f.time \in Time
         /\ f.kind = "idle" =>
              /\ f \in [kind : {"idle"}, old : Nat, start : Nat, run : Data \cup {None}]
              /\ f.old \in Nat /\ f.start \in Nat
         /\ f.kind # "loop" => f.run \in Data \cup {None}
BY DEF Frame

(* The frames that steps make.                                             *)
LEMMA FrameChanges ==
  ASSUME NEW f \in Frame
  PROVE  /\ f.kind = "loop" =>
              \A x \in {"svc1", "wait", "svc2", "idle"}, n \in Int :
                 /\ [f EXCEPT !.at = x] \in Frame /\ Continues([f EXCEPT !.at = x], f)
                 /\ [f EXCEPT !.at = x, !.deadline = n] \in Frame
                 /\ Continues([f EXCEPT !.at = x, !.deadline = n], f)
                 /\ [f EXCEPT !.at = x].at = x /\ [f EXCEPT !.at = x, !.deadline = n].at = x
                 /\ [f EXCEPT !.at = x, !.deadline = n].deadline = n
                 /\ [f EXCEPT !.at = x, !.deadline = n].flags = f.flags
         /\ f.kind # "loop" =>
              \A r \in Data \cup {None} :
                 /\ [f EXCEPT !.run = r] \in Frame /\ Continues([f EXCEPT !.run = r], f)
                 /\ [f EXCEPT !.run = r].run = r
<1>1. ASSUME f.kind = "loop", NEW x \in {"svc1", "wait", "svc2", "idle"}, NEW n \in Int
      PROVE  /\ [f EXCEPT !.at = x] \in Frame /\ Continues([f EXCEPT !.at = x], f)
             /\ [f EXCEPT !.at = x, !.deadline = n] \in Frame
             /\ Continues([f EXCEPT !.at = x, !.deadline = n], f)
             /\ [f EXCEPT !.at = x].at = x /\ [f EXCEPT !.at = x, !.deadline = n].at = x
             /\ [f EXCEPT !.at = x, !.deadline = n].deadline = n
             /\ [f EXCEPT !.at = x, !.deadline = n].flags = f.flags
  <2>1. f \in [kind : {"loop"}, at : {"svc1", "wait", "svc2", "idle"},
               flags : SUBSET {"timer", "idle"}, deadline : Int]
    BY <1>1, FrameKinds
  <2> QED
    BY <1>1, <2>1 DEF Frame, Continues
<1>2. ASSUME f.kind = "timer", NEW r \in Data \cup {None}
      PROVE  /\ [f EXCEPT !.run = r] \in Frame /\ Continues([f EXCEPT !.run = r], f)
             /\ [f EXCEPT !.run = r].run = r
  <2>1. f \in [kind : {"timer"}, current : Nat, time : Time, run : Data \cup {None}]
    BY <1>2, FrameKinds
  <2> QED
    BY <1>2, <2>1 DEF Frame, Continues
<1>3. ASSUME f.kind = "idle", NEW r \in Data \cup {None}
      PROVE  /\ [f EXCEPT !.run = r] \in Frame /\ Continues([f EXCEPT !.run = r], f)
             /\ [f EXCEPT !.run = r].run = r
  <2>1. f \in [kind : {"idle"}, old : Nat, start : Nat, run : Data \cup {None}]
    BY <1>3, FrameKinds
  <2> QED
    BY <1>3, <2>1 DEF Frame, Continues
<1> QED
  BY <1>1, <1>2, <1>3, FrameKinds

(* The deadline is a time or none.                                         *)
LEMMA DeadlineType ==
  ASSUME TypeOK, TimersNumbered, NEW flags
  PROVE  Deadline(flags) \in Int
<1>1. now \in Time /\ now.usec < USEC /\ Instant(now) \in Nat
  BY InstantType DEF TypeOK
<1>2. ASSUME timers # <<>>
      PROVE  Instant(BlockTime(timers[1].time)) \in Nat
  <2>1. 1 \in DOMAIN timers /\ timers[1] \in Timer
    BY <1>2, ElementOfSeq DEF TypeOK
  <2>2. timers[1].time \in Time /\ timers[1].time.usec <= USEC
    BY <2>1 DEF Timer, TimersNumbered
  <2> QED
    BY <1>1, <2>2, BlockTimeEnds
<1> QED
  BY <1>1, <1>2 DEF Deadline, Never

(* Each action leaves the frames alone, pushes one, changes the innermost  *)
(* one or returns.                                                         *)
LEMMA StackSteps ==
  ASSUME TypeOK, TimersNumbered, PassesNest, [Next]_vars
  PROVE  StackKinds
<1> USE DEF StackKinds
<1>1. /\ stack \in Seq(Frame) /\ Len(stack) \in Nat /\ DOMAIN stack = 1..Len(stack)
      /\ now \in Time /\ lastTimerId \in Nat /\ idleGeneration \in Nat /\ idleBorn \in Nat
      /\ timers \in Seq(Timer) /\ idleList \in Seq(Idle)
  BY DEF TypeOK
<1>2. ASSUME stack # <<>>
      PROVE  /\ Len(stack) \in DOMAIN stack /\ Top = stack[Len(stack)] /\ Top \in Frame
             /\ Front(stack) = SubSeq(stack, 1, Len(stack) - 1) /\ Len(stack) - 1 \in 0..Len(stack)
             /\ Top.kind # "loop" => Len(stack) - 2 \in 0..Len(stack)
  <2>1. Len(stack) \in DOMAIN stack
    BY <1>1, <1>2
  <2>2. Top = stack[Len(stack)] /\ Top \in Frame
    BY <1>1, <2>1, ElementOfSeq DEF Top, Last
  <2>3. Top.kind # "loop" => Len(stack) > 1
    BY <2>1, <2>2 DEF PassesNest, FrameFits
  <2> QED
    BY <1>1, <2>1, <2>2, <2>3 DEF Front
<1>3. CASE StackSame
  BY <1>3
<1>4. ASSUME UNCHANGED <<stack, exited>>
      PROVE  StackKinds
  BY <1>4 DEF StackSame
<1>5. ASSUME NEW flags \in FlagSets, Tcl_DoOneEvent(flags)
      PROVE  StackKinds
  <2> DEFINE f == [kind |-> "loop", at |-> "svc1", flags |-> flags, deadline |-> Never]
  <2>1. flags \in SUBSET {"timer", "idle"}
    BY TimerConstants
  <2>2. f \in Frame
    BY <2>1 DEF Frame, Never
  <2>3. StackPushed(f)
    BY <1>5 DEF Tcl_DoOneEvent, StackPushed, Entered, AtCode
  <2> QED
    BY <2>2, <2>3
<1>6. CASE Tcl_ServiceAll
  <2> DEFINE f == [kind |-> "loop", at |-> "svc2", flags |-> {"timer", "idle"}, deadline |-> Never]
  <2>1. f \in Frame
    BY DEF Frame, Never
  <2>2. <<f>> = Append(<<>>, f)
    OBVIOUS
  <2>3. StackPushed(f)
    BY <1>6, <2>2 DEF Tcl_ServiceAll, StackPushed, Entered, AtCode
  <2> QED
    BY <2>1, <2>3
<1>7. CASE TimerPass
  <2> DEFINE f == [kind |-> "timer", current |-> lastTimerId, time |-> now, run |-> None]
  <2>1. f \in Frame
    BY <1>1 DEF Frame
  <2>2. StackPushed(f)
    <3>1. /\ ~exited /\ stack # <<>> /\ Top.kind = "loop" /\ Top.at \in {"svc1", "svc2"}
          /\ stack' = Append(stack, f) /\ UNCHANGED <<now, timers, lastTimerId, exited>>
      BY <1>7 DEF TimerPass, AtStage
    <3> QED
      BY <3>1 DEF StackPushed, Entered, PassStages
  <2> QED
    BY <2>1, <2>2
<1>8. CASE TclServiceIdle
  <2> DEFINE f == [kind |-> "idle", old |-> idleGeneration, start |-> idleBorn, run |-> None]
  <2>1. f \in Frame
    BY <1>1 DEF Frame
  <2>2. StackPushed(f)
    <3>1. /\ ~exited /\ stack # <<>> /\ Top.kind = "loop" /\ Top.at = "idle"
          /\ stack' = Append(stack, f) /\ NewGeneration /\ UNCHANGED exited
      BY <1>8 DEF TclServiceIdle, AtStage, NewGeneration
    <3> QED
      BY <3>1 DEF StackPushed, Entered, PassStages
  <2> QED
    BY <2>1, <2>2
<1>9. CASE Wait
  <2>1. Deadline(Top.flags) \in Int
    BY DeadlineType
  <2>2. stack # <<>> /\ Top.kind = "loop" /\ Top \in Frame /\ ~exited'
    BY <1>2, <1>9 DEF Wait, AtStage
  <2> QED
    BY <1>9, <2>1, <2>2, FrameChanges DEF Wait, StackSet
<1>10. CASE WaitEnds
  <2>1. Never \in Int
    BY DEF Never
  <2>2. stack # <<>> /\ Top.kind = "loop" /\ Top \in Frame /\ ~exited'
    BY <1>2, <1>10 DEF WaitEnds, AtStage
  <2> QED
    BY <1>10, <2>1, <2>2, FrameChanges DEF WaitEnds, StackSet
<1>11. CASE NothingQueued
  <2>1. stack # <<>> /\ Top.kind = "loop" /\ Top \in Frame /\ ~exited'
    BY <1>2, <1>11 DEF NothingQueued, AtStage
  <2>2. [Top EXCEPT !.at = "idle"] \in Frame /\ Continues([Top EXCEPT !.at = "idle"], Top)
    <3>1. 0 \in Int
      OBVIOUS
    <3> QED
      BY <2>1, <3>1, FrameChanges
  <2> QED
    BY <1>11, <2>1, <2>2 DEF NothingQueued, StackSet
<1>12. CASE RunTimer
  <2>1. stack # <<>> /\ Top.kind = "timer" /\ Top \in Frame /\ ~exited' /\ timers # <<>>
    BY <1>2, <1>12 DEF RunTimer, InTimerPass, Runnable
  <2>2. timers[1].data \in Data \cup {None}
    <3>1. timers[1] \in Timer
      BY <1>1, <2>1, ElementOfSeq
    <3> QED
      BY <3>1 DEF Timer
  <2>3. [Top EXCEPT !.run = timers[1].data] \in Frame
        /\ Continues([Top EXCEPT !.run = timers[1].data], Top)
    BY <2>1, <2>2, FrameChanges
  <2>4. SetTop([Top EXCEPT !.run = timers[1].data])
    BY <1>12 DEF RunTimer
  <2> QED
    BY <1>12, <2>1, <2>3, <2>4 DEF StackSet
<1>13. CASE RunIdle
  <2>1. stack # <<>> /\ Top.kind = "idle" /\ Top \in Frame /\ ~exited' /\ idleList # <<>>
    BY <1>2, <1>13 DEF RunIdle, InIdlePass, OldEnough
  <2>2. idleList[1].data \in Data \cup {None}
    <3>1. idleList[1] \in Idle
      BY <1>1, <2>1, ElementOfSeq
    <3> QED
      BY <3>1 DEF Idle
  <2>3. [Top EXCEPT !.run = idleList[1].data] \in Frame
        /\ Continues([Top EXCEPT !.run = idleList[1].data], Top)
    BY <2>1, <2>2, FrameChanges
  <2>4. SetTop([Top EXCEPT !.run = idleList[1].data])
    BY <1>13 DEF RunIdle
  <2> QED
    BY <1>13, <2>1, <2>3, <2>4 DEF StackSet
<1>14. CASE CallbackReturns
  <2>1. stack # <<>> /\ Top.kind # "loop" /\ Top \in Frame /\ ~exited'
    BY <1>2, <1>14 DEF CallbackReturns, AtCode
  <2>2. [Top EXCEPT !.run = None] \in Frame /\ Continues([Top EXCEPT !.run = None], Top)
    BY <2>1, FrameChanges
  <2>3. SetTop([Top EXCEPT !.run = None])
    BY <1>14 DEF CallbackReturns
  <2> QED
    BY <1>14, <2>1, <2>2, <2>3 DEF StackSet
<1>15. CASE ServiceOther \/ LoopEnds
  <2>1. stack # <<>> /\ ~exited' /\ stack' = Front(stack)
    BY <1>15 DEF ServiceOther, LoopEnds, AtStage
  <2> QED
    BY <1>2, <2>1 DEF StackCut
<1>16. CASE TimerPassEnds \/ IdlePassEnds
  <2>1. stack # <<>> /\ Top.kind # "loop" /\ ~exited' /\ stack' = SubSeq(stack, 1, Len(stack) - 2)
    BY <1>16 DEF TimerPassEnds, IdlePassEnds, InTimerPass, InIdlePass
  <2> QED
    BY <1>2, <2>1 DEF StackCut
<1>17. CASE TimerExitProc
  BY <1>17 DEF TimerExitProc, StackSame
<1>18. CASE UNCHANGED vars
  BY <1>4, <1>18 DEF vars
<1>19. CASE Application
  BY <1>4, <1>17, <1>19
     DEF Application, Tcl_CreateTimerHandler, Tcl_DeleteTimerHandler, DoWhenIdle, CancelIdleCall,
         AfterTimer, AfterIdle, AfterCancel, AfterCleanupProc
<1>20. CASE Tick
  BY <1>4, <1>20 DEF Tick
<1> QED
  BY <1>5, <1>6, <1>7, <1>8, <1>9, <1>10, <1>11, <1>12, <1>13, <1>14, <1>15, <1>16, <1>18, <1>19,
     <1>20
     DEF Next, Enter, LoopStep

(* The list without its last elements, and with one put on.                *)
LEMMA CutElements ==
  ASSUME NEW S, NEW s \in Seq(S), NEW n \in 0..Len(s)
  PROVE  /\ SubSeq(s, 1, n) \in Seq(S) /\ Len(SubSeq(s, 1, n)) = n
         /\ DOMAIN SubSeq(s, 1, n) = 1..n
         /\ \A d \in 1..n : d \in DOMAIN s /\ SubSeq(s, 1, n)[d] = s[d]
<1>1. Len(s) \in Nat /\ DOMAIN s = 1..Len(s) /\ n \in Nat /\ n <= Len(s)
  OBVIOUS
<1> QED
  BY <1>1

(* Changing the last element.                                              *)
LEMMA SetLastElements ==
  ASSUME NEW S, NEW s \in Seq(S), s # <<>>, NEW e \in S
  PROVE  /\ Append(Front(s), e) \in Seq(S) /\ Len(Append(Front(s), e)) = Len(s)
         /\ DOMAIN Append(Front(s), e) = DOMAIN s
         /\ \A d \in DOMAIN s : Append(Front(s), e)[d] = IF d = Len(s) THEN e ELSE s[d]
<1>1. PICK n \in Nat : n + 1 = Len(s) /\ DOMAIN s = 1..(n + 1)
  <2>1. Len(s) \in Nat /\ DOMAIN s = 1..Len(s) /\ Len(s) >= 1
    OBVIOUS
  <2>2. Len(s) - 1 \in Nat /\ (Len(s) - 1) + 1 = Len(s)
    BY <2>1
  <2> QED
    BY <2>1, <2>2
<1>2. PICK r \in Seq(S) : r = Front(s) /\ Len(r) = n /\ \A d \in 1..n : r[d] = s[d]
  <2>1. n \in 0..Len(s) /\ n = Len(s) - 1
    BY <1>1
  <2>2. Front(s) = SubSeq(s, 1, n)
    BY <2>1 DEF Front
  <2>3. /\ SubSeq(s, 1, n) \in Seq(S) /\ Len(SubSeq(s, 1, n)) = n
        /\ \A d \in 1..n : SubSeq(s, 1, n)[d] = s[d]
    BY ONLY <2>1, CutElements
  <2> QED
    BY <2>2, <2>3
<1>3. PICK t : t = Append(r, e)
  OBVIOUS
<1>4. t \in Seq(S) /\ Len(t) = n + 1 /\ DOMAIN t = 1..(n + 1) /\ t[n + 1] = e
      /\ \A d \in 1..n : t[d] = r[d]
  BY <1>2, <1>3
<1>5. ASSUME NEW d \in 1..(n + 1)
      PROVE  t[d] = IF d = n + 1 THEN e ELSE s[d]
  <2>1. CASE d = n + 1
    BY <1>4, <2>1
  <2>2. CASE d # n + 1
    <3>1. d \in 1..n
      BY <2>2
    <3> QED
      BY <1>2, <1>4, <2>2, <3>1
  <2> QED
    BY <2>1, <2>2
<1> QED
  BY <1>1, <1>2, <1>3, <1>4, <1>5

FrameComesFrom(d) ==
    \/ d \in DOMAIN stack /\ Continues(stack'[d], stack[d])
    \/ Entered(stack'[d])

(* Nesting survives, and each frame is one from before or is entered.      *)
LEMMA FramesStep ==
  ASSUME TypeOK, PassesNest, StackKinds
  PROVE  stack' \in Seq(Frame) /\ PassesNest' /\ \A d \in DOMAIN stack' : FrameComesFrom(d)
<1>1. /\ stack \in Seq(Frame) /\ Len(stack) \in Nat /\ DOMAIN stack = 1..Len(stack)
      /\ \A d \in DOMAIN stack : stack[d] \in Frame
      /\ stack # <<>> => Len(stack) \in DOMAIN stack /\ Top = stack[Len(stack)]
  BY ElementOfSeq DEF TypeOK, Top, Last
<1>2. \A d \in DOMAIN stack : Continues(stack[d], stack[d])
  BY DEF Continues
<1>3. CASE StackSame
  <2>1. UNCHANGED stack /\ (exited' => exited \/ AtCode)
    BY <1>3 DEF StackSame
  <2>2. PassesNest'
    BY <2>1 DEF PassesNest, FrameFits, AtCode, Top
  <2> QED
    BY <1>1, <1>2, <2>1, <2>2 DEF FrameComesFrom
<1>4. ASSUME NEW n \in 0..Len(stack), StackCut(n)
      PROVE  stack' \in Seq(Frame) /\ PassesNest' /\ \A d \in DOMAIN stack' : FrameComesFrom(d)
  <2>1. /\ stack' \in Seq(Frame) /\ DOMAIN stack' = 1..n /\ ~exited'
        /\ \A d \in 1..n : d \in DOMAIN stack /\ stack'[d] = stack[d]
    BY <1>1, <1>4, CutElements DEF StackCut
  <2>2. ASSUME NEW d \in DOMAIN stack'
        PROVE  FrameFits(d)'
    <3>1. d \in DOMAIN stack /\ stack'[d] = stack[d] /\ (d > 1 => stack'[d - 1] = stack[d - 1])
      BY <1>1, <2>1
    <3> QED
      BY <3>1 DEF PassesNest, FrameFits
  <2>3. PassesNest'
    BY <2>1, <2>2 DEF PassesNest
  <2> QED
    BY <1>2, <2>1, <2>3 DEF FrameComesFrom
<1>5. ASSUME NEW f \in Frame, StackPushed(f)
      PROVE  stack' \in Seq(Frame) /\ PassesNest' /\ \A d \in DOMAIN stack' : FrameComesFrom(d)
  <2>1. /\ stack' \in Seq(Frame) /\ DOMAIN stack' = 1..(Len(stack) + 1) /\ ~exited' /\ Entered(f)
        /\ stack'[Len(stack) + 1] = f
        /\ \A d \in 1..Len(stack) : d \in DOMAIN stack /\ stack'[d] = stack[d]
    BY <1>1, <1>5 DEF StackPushed
  <2>2. ASSUME NEW d \in DOMAIN stack'
        PROVE  FrameFits(d)' /\ FrameComesFrom(d)
    <3>1. CASE d = Len(stack) + 1
      <4>1. FrameComesFrom(d)
        BY <2>1, <3>1 DEF FrameComesFrom
      <4>2. d > 1 => stack # <<>> /\ d - 1 = Len(stack) /\ stack'[d - 1] = Top
        BY <1>1, <2>1, <3>1
      <4>3. stack # <<>> => d > 1
        BY <1>1, <3>1
      <4>4. CASE f.kind = "loop"
        <5>1. stack # <<>> => Top.kind # "loop" /\ Top.run # None
          BY <1>5, <4>4 DEF StackPushed, AtCode
        <5>2. stack'[d] = f
          BY <2>1, <3>1
        <5> QED
          BY <4>1, <4>2, <4>4, <5>1, <5>2 DEF FrameFits
      <4>5. CASE f.kind # "loop"
        <5>1. stack # <<>> /\ Top.kind = "loop" /\ Top.at \in PassStages(f)
          BY <1>5, <4>5 DEF StackPushed
        <5>2. stack'[d] = f
          BY <2>1, <3>1
        <5> QED
          BY <4>1, <4>2, <4>3, <4>5, <5>1, <5>2 DEF FrameFits, PassStages
      <4> QED
        BY <4>1, <4>4, <4>5
    <3>2. CASE d # Len(stack) + 1
      <4>1. d \in DOMAIN stack /\ stack'[d] = stack[d] /\ (d > 1 => stack'[d - 1] = stack[d - 1])
        BY <1>1, <2>1, <3>2
      <4>2. FrameFits(d)'
        BY <4>1 DEF PassesNest, FrameFits
      <4> QED
        BY <1>2, <4>1, <4>2 DEF FrameComesFrom
    <3> QED
      BY <3>1, <3>2
  <2>3. PassesNest'
    BY <2>1, <2>2 DEF PassesNest
  <2> QED
    BY <2>1, <2>2, <2>3
<1>6. ASSUME NEW f \in Frame, StackSet(f)
      PROVE  stack' \in Seq(Frame) /\ PassesNest' /\ \A d \in DOMAIN stack' : FrameComesFrom(d)
  <2>0. stack # <<>> /\ stack' = Append(Front(stack), f) /\ ~exited' /\ Continues(f, Top)
    BY <1>6 DEF StackSet, SetTop
  <2>1. /\ stack' \in Seq(Frame) /\ DOMAIN stack' = DOMAIN stack
        /\ \A d \in DOMAIN stack : stack'[d] = IF d = Len(stack) THEN f ELSE stack[d]
    <3>1. f \in Frame /\ stack \in Seq(Frame)
      BY <1>1, <1>6
    <3>2. PICK r : r = Append(Front(stack), f)
      OBVIOUS
    <3>3. /\ r \in Seq(Frame) /\ DOMAIN r = DOMAIN stack
          /\ \A d \in DOMAIN stack : r[d] = IF d = Len(stack) THEN f ELSE stack[d]
      BY ONLY <2>0, <3>1, <3>2, SetLastElements
    <3> QED
      BY <2>0, <3>2, <3>3
  <2>2. ASSUME NEW d \in DOMAIN stack'
        PROVE  FrameFits(d)' /\ FrameComesFrom(d)
    <3>1. d > 1 => d - 1 \in DOMAIN stack /\ stack'[d - 1] = stack[d - 1]
      BY <1>1, <2>1
    <3>2. stack'[d].kind = stack[d].kind /\ Continues(stack'[d], stack[d])
      BY <1>1, <1>2, <2>0, <2>1 DEF Continues
    <3>3. FrameFits(d)
      BY <2>1 DEF PassesNest
    <3>4. FrameFits(d)'
      BY <3>1, <3>2, <3>3 DEF FrameFits, PassStages
    <3> QED
      BY <2>1, <3>2, <3>4 DEF FrameComesFrom
  <2>3. PassesNest'
    BY <2>0, <2>2 DEF PassesNest
  <2> QED
    BY <2>1, <2>2, <2>3
<1> QED
  BY <1>3, <1>4, <1>5, <1>6 DEF StackKinds

(* What passes know stays true.                                            *)
LEMMA PassesStep ==
  ASSUME TypeOK, TimersNumbered, PassesSee, IdleListed, IdlePassesSee, TimerKinds, IdleKinds,
         UNCHANGED now \/ (now' \in Time /\ NotAfter(now, now')),
         stack' \in Seq(Frame), \A d \in DOMAIN stack' : FrameComesFrom(d)
  PROVE  PassesSee' /\ IdlePassesSee'
<1>1. /\ stack \in Seq(Frame) /\ timers \in Seq(Timer) /\ idleList \in Seq(Idle)
      /\ Len(timers) \in Nat /\ DOMAIN timers = 1..Len(timers)
      /\ Len(idleList) \in Nat /\ DOMAIN idleList = 1..Len(idleList)
      /\ now \in Time /\ lastTimerId \in Nat /\ FirstId \in Nat
      /\ idleGeneration \in Nat /\ idleBorn \in Nat
      /\ now' \in Time /\ NotAfter(now, now')
  <2>1. now \in Time /\ NotAfter(now, now)
    BY TimeOrder DEF TypeOK, NotAfter
  <2> QED
    BY <2>1, TimerConstants DEF TypeOK
<1>2. /\ \A d \in DOMAIN stack : stack[d] \in Frame
      /\ \A d \in DOMAIN stack' : stack'[d] \in Frame
      /\ \A i \in DOMAIN timers : timers[i].time \in Time /\ timers[i].born \in Nat
      /\ \A i \in DOMAIN idleList : idleList[i].generation \in Nat /\ idleList[i].born \in Nat
  <2>1. /\ \A i \in DOMAIN timers : timers[i] \in Timer
        /\ \A i \in DOMAIN idleList : idleList[i] \in Idle
    BY <1>1, ElementOfSeq
  <2> QED
    BY <1>1, <2>1, ElementOfSeq DEF Timer, Idle
<1>3. ASSUME NEW f \in Frame, NEW g \in Frame, f.kind = "timer", Continues(f, g), PassSees(g)
      PROVE  PassSees(f)'
  <2>1. /\ f.current \in FirstId..lastTimerId /\ f.time \in Time /\ NotAfter(f.time, now)
        /\ \A i \in DOMAIN timers :
              timers[i].born > f.current => NotAfter(f.time, timers[i].time)
    BY <1>3, FrameKinds DEF Continues, PassSees
  <2>2. NotAfter(f.time, now')
    BY <1>1, <2>1, TimeOrder
  <2>3. CASE TimersThinned
    <3>1. PICK h \in [DOMAIN timers' -> DOMAIN timers] :
            \A j \in DOMAIN timers' : timers'[j] = timers[h[j]]
      BY <2>3 DEF TimersThinned, Thinned
    <3>2. \A i \in DOMAIN timers' :
             timers'[i].born > f.current => NotAfter(f.time, timers'[i].time)
      BY <2>1, <3>1
    <3> QED
      BY <2>1, <2>2, <2>3, <3>2 DEF PassSees, TimersThinned, NotAfter, TimeBefore
  <2>4. ASSUME NEW t \in Timer, NEW k \in 1..(Len(timers) + 1), TimerAdded(t, k)
        PROVE  PassSees(f)'
    <3>1. /\ lastTimerId' = lastTimerId + 1 /\ NotAfter(now, t.time) /\ t.time \in Time
          /\ DOMAIN timers' = 1..(Len(timers) + 1)
          /\ \A j \in 1..(Len(timers) + 1) :
                timers'[j] = IF j < k THEN timers[j] ELSE IF j = k THEN t ELSE timers[j - 1]
      BY <2>4 DEF TimerAdded, InsertedAt, Timer
    <3>2. NotAfter(f.time, t.time)
      BY <1>1, <2>1, <3>1, TimeOrder
    <3>3. ASSUME NEW i \in DOMAIN timers', timers'[i].born > f.current
          PROVE  NotAfter(f.time, timers'[i].time)
      <4>1. \/ timers'[i] = t
            \/ i \in DOMAIN timers /\ timers'[i] = timers[i]
            \/ i - 1 \in DOMAIN timers /\ timers'[i] = timers[i - 1]
        BY <1>1, <3>1
      <4> QED
        BY <2>1, <3>2, <3>3, <4>1
    <3>4. f.current \in FirstId..lastTimerId'
      BY <1>1, <2>1, <3>1
    <3> QED
      BY <2>2, <3>3, <3>4 DEF PassSees, NotAfter, TimeBefore
  <2> QED
    BY <2>3, <2>4 DEF TimerKinds
<1>4. ASSUME NEW f \in Frame, f.kind = "timer", Entered(f)
      PROVE  PassSees(f)'
  <2>1. f.current = lastTimerId /\ f.time = now /\ UNCHANGED <<now, timers, lastTimerId>>
    BY <1>4 DEF Entered
  <2>2. \A i \in DOMAIN timers : ~(timers[i].born > lastTimerId)
    BY <1>1 DEF TimersNumbered
  <2>3. lastTimerId \in FirstId..lastTimerId
    BY <1>1 DEF TimersNumbered
  <2>4. NotAfter(now, now)
    BY <1>1, TimeOrder DEF NotAfter
  <2> QED
    BY <2>1, <2>2, <2>3, <2>4 DEF PassSees, NotAfter, TimeBefore
<1>5. ASSUME NEW f \in Frame, NEW g \in Frame, f.kind = "idle", Continues(f, g), IdlePassSees(g)
      PROVE  IdlePassSees(f)'
  <2>1. /\ f.old < idleGeneration /\ f.start <= idleBorn /\ f.old \in Nat /\ f.start \in Nat
        /\ \A i \in DOMAIN idleList :
              idleList[i].born > f.start => idleList[i].generation > f.old
    BY <1>5, FrameKinds DEF Continues, IdlePassSees
  <2>2. CASE IdleThinned
    <3>1. PICK h \in [DOMAIN idleList' -> DOMAIN idleList] :
            \A j \in DOMAIN idleList' : idleList'[j] = idleList[h[j]]
      BY <2>2 DEF IdleThinned, Thinned
    <3>2. \A i \in DOMAIN idleList' :
             idleList'[i].born > f.start => idleList'[i].generation > f.old
      BY <2>1, <3>1
    <3> QED
      BY <2>1, <2>2, <3>2 DEF IdlePassSees, IdleThinned
  <2>3. CASE NewGeneration
    BY <1>1, <2>1, <2>3 DEF IdlePassSees, NewGeneration
  <2>4. ASSUME NEW h \in Idle, IdleAdded(h)
        PROVE  IdlePassSees(f)'
    <3>1. /\ idleList' = Append(idleList, h) /\ h.generation = idleGeneration
          /\ idleBorn' = idleBorn + 1 /\ idleGeneration' = idleGeneration
      BY <2>4 DEF IdleAdded
    <3>2. ASSUME NEW i \in DOMAIN idleList', idleList'[i].born > f.start
          PROVE  idleList'[i].generation > f.old
      <4>1. \/ idleList'[i] = h
            \/ i \in DOMAIN idleList /\ idleList'[i] = idleList[i]
        BY <1>1, <3>1
      <4> QED
        BY <2>1, <3>1, <3>2, <4>1
    <3> QED
      BY <1>1, <2>1, <3>1, <3>2 DEF IdlePassSees
  <2> QED
    BY <2>2, <2>3, <2>4 DEF IdleKinds
<1>6. ASSUME NEW f \in Frame, f.kind = "idle", Entered(f)
      PROVE  IdlePassSees(f)'
  <2>1. f.old = idleGeneration /\ f.start = idleBorn /\ NewGeneration
    BY <1>6 DEF Entered
  <2>2. \A i \in DOMAIN idleList : ~(idleList[i].born > idleBorn)
    BY <1>1 DEF IdleListed
  <2> QED
    BY <1>1, <2>1, <2>2 DEF IdlePassSees, NewGeneration
<1>7. ASSUME NEW d \in DOMAIN stack'
      PROVE  PassSees(stack[d])' /\ IdlePassSees(stack[d])'
  <2>1. PICK f \in Frame : f = stack'[d]
    BY <1>2
  <2>2. (\E g \in Frame : Continues(f, g) /\ PassSees(g) /\ IdlePassSees(g)) \/ Entered(f)
    BY <1>2, <2>1 DEF FrameComesFrom, PassesSee, IdlePassesSee
  <2>3. f.kind = "timer" => PassSees(f)'
    BY <1>3, <1>4, <2>2
  <2>4. f.kind = "idle" => IdlePassSees(f)'
    BY <1>5, <1>6, <2>2
  <2> QED
    BY <2>1, <2>3, <2>4 DEF PassSees, IdlePassSees
<1> QED
  BY <1>7 DEF PassesSee, IdlePassesSee

------------------------------------------------------------------------------
(* What a step does to the rest of the state, and the invariant.           *)

(* The clock is normalised and does not go back.                           *)
LEMMA ClockStep ==
  ASSUME TypeOK, [Next]_vars
  PROVE  now' \in Time /\ now'.usec < USEC /\ NotAfter(now, now')
<1>1. now \in Time /\ now.usec < USEC /\ USEC \in Nat \ {0}
  BY TimerConstants DEF TypeOK
<1>2. CASE Tick
  <2>1. now = [sec |-> now.sec, usec |-> now.usec] /\ now.sec \in Nat /\ now.usec \in Nat
    BY <1>1 DEF Time
  <2>2. now' = IF now.usec + 1 = USEC THEN [sec |-> now.sec + 1, usec |-> 0]
               ELSE [now EXCEPT !.usec = @ + 1]
    BY <1>2 DEF Tick
  <2>3. CASE now.usec + 1 = USEC
    BY <1>1, <2>1, <2>2, <2>3 DEF Time, NotAfter, TimeBefore
  <2>4. CASE now.usec + 1 # USEC
    <3>1. now' = [sec |-> now.sec, usec |-> now.usec + 1]
      BY <2>1, <2>2, <2>4
    <3> QED
      BY <1>1, <2>1, <2>4, <3>1 DEF Time, NotAfter, TimeBefore
  <2> QED
    BY <2>3, <2>4
<1>3. ASSUME UNCHANGED now
      PROVE  now' \in Time /\ now'.usec < USEC /\ NotAfter(now, now')
  <2>1. NotAfter(now, now)
    BY <1>1, TimeOrder DEF NotAfter
  <2> QED
    BY <1>1, <1>3, <2>1 DEF NotAfter, TimeBefore
<1>4. CASE UNCHANGED vars
  BY <1>3, <1>4 DEF vars
<1>5. CASE Application
  BY <1>3, <1>5
     DEF Application, Tcl_CreateTimerHandler, Tcl_DeleteTimerHandler, DoWhenIdle, CancelIdleCall,
         AfterTimer, AfterIdle, AfterCancel, AfterCleanupProc, TimerExitProc
<1>6. CASE LoopStep
  BY <1>3, <1>6
     DEF LoopStep, Wait, TimerPass, RunTimer, TimerPassEnds, NothingQueued, TclServiceIdle,
         RunIdle, IdlePassEnds, LoopEnds
<1> QED
  BY <1>2, <1>3, <1>4, <1>5, <1>6
     DEF Next, Enter, Tcl_DoOneEvent, Tcl_ServiceAll, ServiceOther, WaitEnds, CallbackReturns

(* timerPending counts the queued event.                                   *)
LEMMA PendingStep ==
  ASSUME TypeOK, PendingIsQueued, [Next]_vars
  PROVE  timerPending' \in BOOLEAN /\ queued' \in Nat /\ PendingIsQueued'
<1>1. timerPending \in BOOLEAN /\ queued \in Nat /\ queued = IF timerPending THEN 1 ELSE 0
  BY DEF TypeOK, PendingIsQueued
<1>2. ASSUME UNCHANGED <<timerPending, queued>>
      PROVE  timerPending' \in BOOLEAN /\ queued' \in Nat /\ PendingIsQueued'
  BY <1>1, <1>2 DEF PendingIsQueued
<1>3. ASSUME NEW flags, TimerCheckProc(flags)
      PROVE  timerPending' \in BOOLEAN /\ queued' \in Nat /\ PendingIsQueued'
  <2>1. CASE UNCHANGED <<timerPending, queued>>
    BY <1>2, <2>1
  <2>2. CASE ~timerPending /\ timerPending' = TRUE /\ queued' = queued + 1
    BY <1>1, <2>2 DEF PendingIsQueued
  <2> QED
    BY <1>3, <2>1, <2>2 DEF TimerCheckProc
<1>4. CASE Tcl_ServiceAll \/ WaitEnds
  BY <1>3, <1>4 DEF Tcl_ServiceAll, WaitEnds
<1>5. CASE TimerPass
  <2>1. queued = 1 /\ timerPending' = FALSE /\ queued' = 0
    BY <1>1, <1>5 DEF TimerPass
  <2> QED
    BY <2>1 DEF PendingIsQueued
<1>6. CASE UNCHANGED vars
  BY <1>2, <1>6 DEF vars, timerVars
<1>7. CASE Application
  BY <1>2, <1>7
     DEF Application, Tcl_CreateTimerHandler, Tcl_DeleteTimerHandler, DoWhenIdle, CancelIdleCall,
         AfterTimer, AfterIdle, AfterCancel, AfterCleanupProc, TimerExitProc,
         TclCreateAbsoluteTimerHandler, timerVars
<1>8. CASE LoopStep
  BY <1>2, <1>5, <1>8
     DEF LoopStep, Wait, RunTimer, TimerPassEnds, NothingQueued, TclServiceIdle,
         RunIdle, IdlePassEnds, LoopEnds, timerVars
<1> QED
  BY <1>2, <1>4, <1>6, <1>7, <1>8
     DEF Next, Tick, Enter, Tcl_DoOneEvent, ServiceOther, CallbackReturns, timerVars

(* Taking a script off the list.                                           *)
LEMMA UnlistedElements ==
  ASSUME TypeOK, NEW a
  PROVE  /\ Unlisted(a) \in Seq(After)
         /\ \E h : Kept(Unlisted(a), afters, {i \in DOMAIN afters : afters[i] # a}, h)
<1>1. afters \in Seq(After) /\ {i \in DOMAIN afters : afters[i] # a} \in SUBSET DOMAIN afters
  BY DEF TypeOK
<1>2. PICK keep : keep = {i \in DOMAIN afters : afters[i] # a}
  OBVIOUS
<1>3. PICK r : r = Keep(afters, keep)
  OBVIOUS
<1>4. r \in Seq(After) /\ \E h : Kept(r, afters, keep, h)
  BY ONLY <1>1, <1>2, <1>3, KeepElements
<1> QED
  BY <1>2, <1>3, <1>4 DEF Unlisted

(* The types of the "after" command.                                       *)
LEMMA AfterStep ==
  ASSUME TypeOK, [Next]_vars
  PROVE  /\ afters' \in Seq(After) /\ afterToken' \in [After -> Int] /\ alloc' \subseteq After
         /\ interp' \in {"alive", "deleted"} /\ exited' \in BOOLEAN
<1> DEFINE Typed == /\ afters' \in Seq(After) /\ afterToken' \in [After -> Int]
                    /\ alloc' \subseteq After /\ interp' \in {"alive", "deleted"}
                    /\ exited' \in BOOLEAN
<1>1. /\ afters \in Seq(After) /\ afterToken \in [After -> Int] /\ alloc \subseteq After
      /\ interp \in {"alive", "deleted"} /\ exited \in BOOLEAN /\ lastTimerId \in Nat
  BY DEF TypeOK
<1>2. ASSUME UNCHANGED afterVars, UNCHANGED exited
      PROVE  Typed
  BY <1>1, <1>2 DEF afterVars
<1>3. ASSUME NEW a \in After, NEW token \in Int, AfterNew(a, token), UNCHANGED exited
      PROVE  Typed
  <2>1. <<a>> \o afters \in Seq(After)
    BY <1>1, <1>3
  <2> QED
    BY <1>1, <1>3, <2>1 DEF AfterNew
<1>4. ASSUME NEW a \in After, NEW ms \in Delays, AfterTimer(a, ms)
      PROVE  Typed
  <2>1. lastTimerId + 1 \in Int
    BY <1>1
  <2>2. CInt(lastTimerId + 1) \in Int
    BY <2>1, CIntValue
  <2> QED
    BY <1>3, <1>4, <2>2 DEF AfterTimer
<1>5. ASSUME NEW a \in After, AfterIdle(a)
      PROVE  Typed
  BY <1>3, <1>5 DEF AfterIdle
<1>6. ASSUME NEW a \in After, AfterCancel(a)
      PROVE  Typed
  <2>1. Unlisted(a) \in Seq(After)
    BY UnlistedElements
  <2> QED
    BY <1>1, <1>6, <2>1 DEF AfterCancel
<1>7. CASE AfterCleanupProc
  <2>1. <<>> \in Seq(After)
    OBVIOUS
  <2> QED
    BY <1>1, <1>7, <2>1 DEF AfterCleanupProc
<1>8. ASSUME NEW data, Start(data), UNCHANGED exited
      PROVE  Typed
  <2>1. Unlisted(data) \in Seq(After)
    BY UnlistedElements
  <2> QED
    BY <1>1, <1>8, <2>1 DEF Start
<1>9. CASE RunTimer \/ RunIdle
  BY <1>8, <1>9 DEF RunTimer, RunIdle
<1>10. CASE CallbackReturns
  BY <1>1, <1>10 DEF CallbackReturns
<1>11. CASE TimerExitProc
  BY <1>1, <1>11 DEF TimerExitProc, afterVars
<1>12. CASE UNCHANGED vars
  BY <1>2, <1>12 DEF vars
<1>13. CASE Application
  BY <1>2, <1>4, <1>5, <1>6, <1>7, <1>11, <1>13
     DEF Application, Tcl_CreateTimerHandler, Tcl_DeleteTimerHandler, DoWhenIdle, CancelIdleCall
<1>14. CASE LoopStep
  BY <1>2, <1>9, <1>14
     DEF LoopStep, Wait, TimerPass, TimerPassEnds, NothingQueued, TclServiceIdle,
         IdlePassEnds, LoopEnds
<1>15. Typed
  BY <1>2, <1>10, <1>12, <1>13, <1>14
     DEF Next, Tick, Enter, Tcl_DoOneEvent, Tcl_ServiceAll, ServiceOther, WaitEnds
<1> QED
  BY <1>15 DEF Typed

(* The invariant holds at first.                                           *)
LEMMA TimerInvInit == Init => TimerInv
<1> SUFFICES ASSUME Init PROVE TimerInv
  OBVIOUS
<1>1. /\ USEC \in Nat \ {0} /\ FirstId \in Nat /\ MaxTimers \in Nat /\ MaxIdle \in Nat
  BY TimerConstants
<1>2. /\ <<>> \in Seq(Timer) /\ <<>> \in Seq(Idle) /\ <<>> \in Seq(After) /\ <<>> \in Seq(Frame)
      /\ DOMAIN <<>> = {}
  OBVIOUS
<1>3. TypeOK /\ PendingIsQueued
  <2>1. now \in Time /\ now.usec < USEC
    BY <1>1 DEF Init, Time
  <2>2. PendingIsQueued /\ timerPending \in BOOLEAN /\ queued \in Nat
    BY DEF Init, PendingIsQueued
  <2>3. afterToken \in [After -> Int] /\ alloc \subseteq After /\ interp \in {"alive", "deleted"}
    BY DEF Init
  <2> QED
    BY <1>1, <1>2, <2>1, <2>2, <2>3 DEF Init, TypeOK
<1>4. TimersNumbered /\ TimersOrdered /\ PassesNest /\ PassesSee /\ IdlePassesSee
  BY <1>1, <1>2 DEF Init, TimersNumbered, TimersOrdered, PassesNest, PassesSee, IdlePassesSee
<1>5. IdleListed
  BY <1>1, <1>2 DEF Init, IdleListed
<1> QED
  BY <1>3, <1>4, <1>5 DEF TimerInv

(* Every step keeps the invariant.                                         *)
LEMMA TimerInvStep == TimerInv /\ [Next]_vars => TimerInv'
<1> SUFFICES ASSUME TimerInv, [Next]_vars PROVE TimerInv'
  OBVIOUS
<1>1. /\ TypeOK /\ PendingIsQueued /\ TimersNumbered /\ TimersOrdered
      /\ PassesNest /\ PassesSee /\ IdleListed /\ IdlePassesSee
  BY DEF TimerInv
<1>2. TimerKinds /\ IdleKinds /\ StackKinds
  BY <1>1, TimerSteps, IdleSteps, StackSteps
<1>3. TimersNumbered' /\ TimersOrdered'
  BY <1>1, <1>2, TimersStep
<1>4. /\ IdleListed'
      /\ idleList' \in Seq(Idle) /\ lastIdlePtr' \in Nat
      /\ idleGeneration' \in Nat /\ idleBorn' \in Nat
  BY <1>1, <1>2, IdleStep
<1>5. stack' \in Seq(Frame) /\ PassesNest' /\ \A d \in DOMAIN stack' : FrameComesFrom(d)
  BY <1>1, <1>2, FramesStep
<1>6. now' \in Time /\ now'.usec < USEC /\ NotAfter(now, now')
  BY <1>1, ClockStep
<1>7. PassesSee' /\ IdlePassesSee'
  BY <1>1, <1>2, <1>5, <1>6, PassesStep
<1>8. timerPending' \in BOOLEAN /\ queued' \in Nat /\ PendingIsQueued'
  BY <1>1, PendingStep
<1>9. /\ afters' \in Seq(After) /\ afterToken' \in [After -> Int] /\ alloc' \subseteq After
      /\ interp' \in {"alive", "deleted"} /\ exited' \in BOOLEAN
  BY <1>1, AfterStep
<1>10. timers' \in Seq(Timer) /\ lastTimerId' \in Nat
  <2>1. timers' \in Seq(Timer)
    BY <1>2 DEF TimerKinds, TimersThinned, TimerAdded
  <2>2. FirstId \in Nat /\ MaxTimers \in Nat
    BY TimerConstants
  <2> QED
    BY <1>3, <2>1, <2>2 DEF TimersNumbered
<1>11. TypeOK'
  BY <1>4, <1>5, <1>6, <1>8, <1>9, <1>10 DEF TypeOK
<1> QED
  BY <1>3, <1>4, <1>5, <1>7, <1>8, <1>11 DEF TimerInv

(* The invariant of timers, idle handlers and passes.                      *)
THEOREM TimerInvariance == Spec => []TimerInv
<1>1. Init => TimerInv
  BY TimerInvInit
<1>2. TimerInv /\ [Next]_vars => TimerInv'
  BY TimerInvStep
<1> QED
  BY <1>1, <1>2, PTL DEF Spec

(* Every variable stays in its type, and timerPending tells whether the    *)
(* one timer event is in the queue: TimerCheckProc queues one only when it *)
(* is clear, TimerHandlerEventProc clears it when the event is served.     *)
THEOREM PendingExact == Spec => [](TypeOK /\ PendingIsQueued)
<1>1. TimerInv => TypeOK /\ PendingIsQueued
  BY DEF TimerInv
<1> QED
  BY <1>1, TimerInvariance, PTL

------------------------------------------------------------------------------
(* Waiting.                                                                *)

(* A loop waits after Wait, or because it did and only the clock went on.  *)
LEMMA WaitSteps ==
  ASSUME TimerInv, [Next]_vars, stack' # <<>>,
         stack'[Len(stack')].kind = "loop", stack'[Len(stack')].at = "wait"
  PROVE  Wait \/ Tick \/ UNCHANGED vars
<1>1. /\ stack \in Seq(Frame) /\ Len(stack) \in Nat /\ DOMAIN stack = 1..Len(stack)
      /\ \A d \in DOMAIN stack : stack[d] \in Frame /\ FrameFits(d)
      /\ exited /\ stack # <<>> => Top.kind # "loop"
      /\ stack # <<>> => Len(stack) \in DOMAIN stack /\ Top = stack[Len(stack)] /\ Top \in Frame
  BY ElementOfSeq DEF TimerInv, TypeOK, PassesNest, Top, Last
<1>2. ASSUME NEW f, stack' = Append(stack, f)
      PROVE  f.kind = "loop" /\ f.at = "wait"
  BY <1>1, <1>2
<1>3. ASSUME NEW f \in Frame, SetTop(f), stack # <<>>
      PROVE  f.kind = "loop" /\ f.at = "wait"
  <2>1. PICK r : r = Append(Front(stack), f)
    OBVIOUS
  <2>2. r[Len(r)] = f
    <3>1. /\ Len(r) = Len(stack)
          /\ \A d \in DOMAIN stack : r[d] = IF d = Len(stack) THEN f ELSE stack[d]
      <4>1. f \in Frame /\ stack \in Seq(Frame) /\ stack # <<>>
        BY <1>1, <1>3
      <4> QED
        BY ONLY <2>1, <4>1, SetLastElements
    <3> QED
      BY <1>1, <1>3, <3>1
  <2> QED
    BY <1>3, <2>1, <2>2 DEF SetTop
<1>4. ASSUME NEW n \in 0..Len(stack), stack' = SubSeq(stack, 1, n)
      PROVE  n > 0 /\ n \in DOMAIN stack /\ stack[n].kind = "loop"
  <2>1. PICK r : r = SubSeq(stack, 1, n)
    OBVIOUS
  <2>2. r \in Seq(Frame) /\ Len(r) = n /\ \A d \in 1..n : d \in DOMAIN stack /\ r[d] = stack[d]
    BY ONLY <1>1, <1>4, <2>1, CutElements
  <2>3. n > 0
    BY <1>4, <2>1, <2>2
  <2> QED
    BY <1>4, <2>1, <2>2, <2>3
<1>5. ASSUME UNCHANGED stack, AtCode \/ exited
      PROVE  FALSE
  BY <1>1, <1>5 DEF AtCode
<1>6. CASE Application
  BY <1>5, <1>6
     DEF Application, Tcl_CreateTimerHandler, Tcl_DeleteTimerHandler, DoWhenIdle, CancelIdleCall,
         AfterTimer, AfterIdle, AfterCancel, AfterCleanupProc, TimerExitProc, AfterNew
<1>7. ASSUME NEW flags, Tcl_DoOneEvent(flags)
      PROVE  FALSE
  BY <1>2, <1>7 DEF Tcl_DoOneEvent
<1>8. CASE Tcl_ServiceAll
  BY <1>8 DEF Tcl_ServiceAll
<1>9. CASE TimerPass \/ TclServiceIdle
  BY <1>2, <1>9 DEF TimerPass, TclServiceIdle
<1>10. CASE WaitEnds
  <2>1. stack # <<>> /\ Top.kind = "loop" /\ SetTop([Top EXCEPT !.at = "svc2", !.deadline = Never])
    BY <1>10 DEF WaitEnds, AtStage
  <2>2. Never \in Int
    BY DEF Never
  <2> QED
    BY <1>1, <1>3, <2>1, <2>2, FrameChanges
<1>11. CASE NothingQueued
  <2>1. stack # <<>> /\ Top.kind = "loop" /\ SetTop([Top EXCEPT !.at = "idle"])
    BY <1>11 DEF NothingQueued, AtStage
  <2>2. 0 \in Int
    OBVIOUS
  <2> QED
    BY <1>1, <1>3, <2>1, <2>2, FrameChanges
<1>12. CASE RunTimer \/ RunIdle \/ CallbackReturns
  <2>1. PICK r : stack # <<>> /\ Top.kind # "loop" /\ stack' = Append(Front(stack), [Top EXCEPT !.run = r])
    BY <1>12 DEF RunTimer, InTimerPass, RunIdle, InIdlePass, CallbackReturns, AtCode, SetTop
  <2>2. Len(Append(Front(stack), [Top EXCEPT !.run = r])) = Len(stack)
        /\ Append(Front(stack), [Top EXCEPT !.run = r])[Len(stack)] = [Top EXCEPT !.run = r]
    <3>1. PICK q : q = Front(stack)
      OBVIOUS
    <3>2. PICK e : e = [Top EXCEPT !.run = r]
      OBVIOUS
    <3>3. Len(stack) - 1 \in 0..Len(stack)
      BY <1>1, <2>1
    <3>4. q \in Seq(Frame) /\ Len(q) + 1 = Len(stack)
      <4>1. q = SubSeq(stack, 1, Len(stack) - 1)
        BY <3>1 DEF Front
      <4>2. q \in Seq(Frame) /\ Len(q) = Len(stack) - 1
        BY ONLY <1>1, <3>3, <4>1, CutElements
      <4> QED
        BY <1>1, <4>2
    <3>5. Len(Append(q, e)) = Len(q) + 1 /\ Append(q, e)[Len(q) + 1] = e
      BY <3>4
    <3> QED
      BY <3>1, <3>2, <3>4, <3>5
  <2>3. [Top EXCEPT !.run = r].kind = Top.kind
    BY <1>1, <2>1, FrameKinds
  <2> QED
    BY <2>1, <2>2, <2>3
<1>13. CASE ServiceOther \/ LoopEnds
  <2>1. stack # <<>> /\ Top.kind = "loop" /\ stack' = SubSeq(stack, 1, Len(stack) - 1)
    BY <1>13 DEF ServiceOther, LoopEnds, AtStage, Front
  <2>2. Len(stack) - 1 \in 0..Len(stack)
    BY <1>1, <2>1
  <2>3. Len(stack) - 1 > 0 /\ stack[Len(stack) - 1].kind = "loop"
    BY <1>4, <2>1, <2>2
  <2>4. FrameFits(Len(stack)) /\ stack[Len(stack)].kind = "loop" /\ Len(stack) > 1
    BY <1>1, <2>1, <2>3
  <2> QED
    BY <2>3, <2>4 DEF FrameFits
<1>14. CASE TimerPassEnds \/ IdlePassEnds
  <2>1. stack # <<>> /\ Top.kind # "loop" /\ stack' = SubSeq(stack, 1, Len(stack) - 2)
    BY <1>14 DEF TimerPassEnds, IdlePassEnds, InTimerPass, InIdlePass
  <2>2. Len(stack) > 1 /\ stack[Len(stack) - 1].kind = "loop"
    BY <1>1, <2>1 DEF FrameFits
  <2>3. Len(stack) - 2 \in 0..Len(stack) /\ Len(stack) - 1 \in DOMAIN stack
    BY <1>1, <2>1, <2>2
  <2>4. Len(stack) - 2 > 0 /\ stack[Len(stack) - 2].kind = "loop"
    BY <1>4, <2>1, <2>3
  <2>5. FrameFits(Len(stack) - 1) /\ Len(stack) - 1 > 1 /\ (Len(stack) - 1) - 1 = Len(stack) - 2
    BY <1>1, <2>3, <2>4
  <2> QED
    BY <2>2, <2>4, <2>5 DEF FrameFits
<1> QED
  BY <1>6, <1>7, <1>8, <1>9, <1>10, <1>11, <1>12, <1>13, <1>14 DEF Next, Enter, LoopStep

(* The times on the list, in its order.                                    *)
LEMMA ListedTimes ==
  ASSUME TimerInv
  PROVE  /\ \A i \in DOMAIN timers :
               /\ timers[i].time \in Time /\ timers[i].time.usec <= USEC
               /\ Instant(timers[i].time) \in Nat
               /\ timers[i].born \in Nat /\ timers[i].born \in (FirstId + 1)..lastTimerId
         /\ \A i \in DOMAIN timers :
               /\ 1 \in DOMAIN timers /\ timers # <<>>
               /\ NotAfter(timers[1].time, timers[i].time)
               /\ Instant(timers[1].time) <= Instant(timers[i].time)
<1>1. /\ timers \in Seq(Timer) /\ Len(timers) \in Nat /\ DOMAIN timers = 1..Len(timers)
      /\ TimersOrdered /\ TimersNumbered
  BY DEF TimerInv, TypeOK
<1>2. ASSUME NEW i \in DOMAIN timers
      PROVE  /\ timers[i].time \in Time /\ timers[i].time.usec <= USEC
             /\ Instant(timers[i].time) \in Nat
             /\ timers[i].born \in Nat /\ timers[i].born \in (FirstId + 1)..lastTimerId
  <2>1. timers[i] \in Timer
    BY <1>1, ElementOfSeq
  <2>2. timers[i].time \in Time /\ timers[i].born \in Nat
    BY <2>1 DEF Timer
  <2> QED
    BY <1>1, <2>2, InstantType DEF TimersNumbered
<1>3. ASSUME NEW i \in DOMAIN timers
      PROVE  /\ 1 \in DOMAIN timers /\ timers # <<>>
             /\ NotAfter(timers[1].time, timers[i].time)
             /\ Instant(timers[1].time) <= Instant(timers[i].time)
  <2>1. 1 \in DOMAIN timers /\ timers # <<>>
    BY <1>1, <1>3
  <2>2. i = 1 \/ TimeBefore(timers[1].time, timers[i].time) \/ timers[1].time = timers[i].time
    BY <1>1, <1>3, <2>1 DEF TimersOrdered
  <2>3. NotAfter(timers[1].time, timers[i].time)
    BY <1>2, <2>1, <2>2, TimeOrder DEF NotAfter
  <2> QED
    BY <1>2, <2>1, <2>3, InstantGrows
<1> QED
  BY <1>2, <1>3

(* A step does not make a loop oversleep.                                  *)
LEMMA NoOversleepStep == TimerInv /\ NoOversleep /\ [Next]_vars => NoOversleep'
<1> SUFFICES ASSUME TimerInv, NoOversleep, [Next]_vars,
                    NEW i \in DOMAIN stack', stack'[i].kind = "loop", stack'[i].at = "wait"
             PROVE  /\ "timer" \in stack'[i].flags =>
                          /\ \A j \in DOMAIN timers' :
                                /\ stack'[i].deadline # Never
                                /\ stack'[i].deadline <= Instant(timers'[j].time)
                                   \/ Instant(timers'[j].time) <= Instant(now')
                          /\ timerPending' => stack'[i].deadline \in 0..Instant(now')
                    /\ "idle" \in stack'[i].flags /\ idleList' # <<>> =>
                          stack'[i].deadline \in 0..Instant(now')
  BY DEF NoOversleep, Instant
<1>1. TimerInv' /\ TypeOK /\ TypeOK'
  BY TimerInvStep DEF TimerInv
<1>2. i = Len(stack')
  <2>1. stack' \in Seq(Frame) /\ PassesNest'
    BY <1>1 DEF TimerInv, TypeOK
  <2>2. ASSUME NEW d \in DOMAIN stack', stack'[d].kind = "loop", stack'[d].at = "wait"
        PROVE  d = Len(stack')
    <3>1. ASSUME d # Len(stack')
          PROVE  FALSE
      <4>1. d + 1 \in DOMAIN stack' /\ d + 1 > 1 /\ (d + 1) - 1 = d
        BY <2>1, <2>2, <3>1
      <4>2. FrameFits(d + 1)'
        BY <2>1, <4>1 DEF PassesNest
      <4> QED
        BY <2>2, <4>1, <4>2 DEF FrameFits, PassStages
    <3> QED
      BY <3>1
  <2> QED
    BY <2>2
<1>3. Wait \/ Tick \/ UNCHANGED vars
  <2>1. stack' # <<>>
    OBVIOUS
  <2> QED
    BY <1>2, <2>1, WaitSteps
<1>4. /\ now \in Time /\ now.usec < USEC /\ Instant(now) \in Nat
      /\ now' \in Time /\ Instant(now') \in Nat
      /\ NotAfter(now, now') /\ Instant(now) <= Instant(now')
  <2>1. now \in Time /\ now.usec < USEC /\ now' \in Time /\ NotAfter(now, now') /\ USEC \in Nat
    BY <1>1, ClockStep, TimerConstants DEF TypeOK
  <2>2. now.usec <= USEC
    BY <2>1 DEF Time
  <2>3. \A t \in Time : Instant(t) \in Nat
    BY InstantType
  <2>4. \A s, t \in Time : s.usec <= USEC /\ NotAfter(s, t) => Instant(s) <= Instant(t)
    BY InstantGrows
  <2> QED
    BY <2>1, <2>2, <2>3, <2>4
<1>5. CASE Tick \/ UNCHANGED vars
  <2>1. UNCHANGED <<stack, timers, timerPending, idleList>>
    BY <1>5 DEF Tick, vars, timerVars, idleVars
  <2>2. /\ "timer" \in stack[i].flags =>
               /\ \A j \in DOMAIN timers :
                     /\ stack[i].deadline # Never
                     /\ stack[i].deadline <= Instant(timers[j].time)
                        \/ Instant(timers[j].time) <= Instant(now)
               /\ timerPending => stack[i].deadline \in 0..Instant(now)
        /\ "idle" \in stack[i].flags /\ idleList # <<>> =>
               stack[i].deadline \in 0..Instant(now)
    BY <2>1 DEF NoOversleep
  <2>3. \A j \in DOMAIN timers : Instant(timers[j].time) \in Nat
    BY ListedTimes
  <2>4. stack[i].flags = stack'[i].flags /\ stack[i].deadline = stack'[i].deadline
    BY <2>1
  <2>5. \A n \in 0..Instant(now) : n \in 0..Instant(now')
    BY <1>4
  <2>6. \A n \in Nat : n <= Instant(now) => n <= Instant(now')
    BY <1>4
  <2> QED
    BY <2>1, <2>2, <2>3, <2>4, <2>5, <2>6
<1>6. CASE Wait
  <2>1. /\ stack # <<>> /\ Top.kind = "loop" /\ Top \in Frame
        /\ stack' = Append(Front(stack), [Top EXCEPT !.at = "wait", !.deadline = Deadline(Top.flags)])
        /\ UNCHANGED <<now, timers, timerPending, idleList>>
    <3>1. stack # <<>> => Top \in Frame
      <4>1. stack # <<>> => Len(stack) \in DOMAIN stack
        BY <1>1 DEF TypeOK
      <4> QED
        BY <1>1, <4>1, ElementOfSeq DEF TypeOK, Top, Last
    <3> QED
      BY <1>6, <3>1 DEF Wait, AtStage, SetTop, timerVars, idleVars
  <2>2. Deadline(Top.flags) \in Int
    BY <1>1, DeadlineType DEF TimerInv
  <2>3. PICK f \in Frame : /\ stack' = Append(Front(stack), f)
                           /\ f.deadline = Deadline(Top.flags) /\ f.flags = Top.flags
    <3>1. PICK n \in Int : n = Deadline(Top.flags)
      BY <2>2
    <3>2. PICK g : g = Top
      OBVIOUS
    <3>3. g \in Frame /\ g.kind = "loop"
      BY <2>1, <3>2
    <3>4. /\ [g EXCEPT !.at = "wait", !.deadline = n] \in Frame
          /\ [g EXCEPT !.at = "wait", !.deadline = n].deadline = n
          /\ [g EXCEPT !.at = "wait", !.deadline = n].flags = g.flags
      <4>1. g \in [kind : {"loop"}, at : {"svc1", "wait", "svc2", "idle"},
                   flags : SUBSET {"timer", "idle"}, deadline : Int]
        BY <3>3, FrameKinds
      <4> QED
        BY <4>1 DEF Frame
    <3>5. stack' = Append(Front(stack), [g EXCEPT !.at = "wait", !.deadline = n])
      BY <2>1, <3>1, <3>2
    <3> QED
      BY <3>1, <3>2, <3>4, <3>5
  <2>4. stack'[i] = f
    <3>1. PICK r : r = Append(Front(stack), f)
      OBVIOUS
    <3>2. f \in Frame /\ stack \in Seq(Frame) /\ stack # <<>>
      BY <1>1, <2>1, <2>3 DEF TypeOK
    <3>3. /\ Len(r) = Len(stack) /\ DOMAIN r = DOMAIN stack
          /\ \A d \in DOMAIN stack : r[d] = IF d = Len(stack) THEN f ELSE stack[d]
      BY ONLY <3>1, <3>2, SetLastElements
    <3>4. r = stack'
      BY <2>3, <3>1
    <3> QED
      BY <1>2, <3>3, <3>4
  <2>5. \A j \in DOMAIN timers : Instant(timers[j].time) \in Nat
    BY ListedTimes
  <2>6. Never \notin Nat
    BY DEF Never
  <2>7. CASE \/ "idle" \in f.flags /\ idleList # <<>>
             \/ "timer" \in f.flags /\ timerPending
    <3>1. f.deadline = Instant(now)
      BY <2>3, <2>7 DEF Deadline
    <3>2. Instant(now) \in 0..Instant(now) /\ \A n \in Nat : Instant(now) <= n \/ n <= Instant(now)
      BY <1>4
    <3> QED
      BY <1>4, <2>1, <2>4, <2>5, <2>6, <3>1, <3>2
  <2>8. CASE /\ ~("idle" \in f.flags /\ idleList # <<>>)
             /\ ~("timer" \in f.flags /\ timerPending)
    <3>1. ASSUME NEW j \in DOMAIN timers, "timer" \in f.flags
          PROVE  /\ f.deadline # Never
                 /\ f.deadline <= Instant(timers[j].time) \/ Instant(timers[j].time) <= Instant(now)
      <4>1. /\ 1 \in DOMAIN timers /\ timers # <<>> /\ timers[1].time \in Time
            /\ timers[1].time.usec <= USEC /\ Instant(timers[1].time) <= Instant(timers[j].time)
            /\ Instant(timers[1].time) \in Nat
        BY <3>1, ListedTimes
      <4>2. f.deadline = Instant(now) + Instant(BlockTime(timers[1].time))
        BY <2>3, <2>8, <3>1, <4>1 DEF Deadline
      <4>3. /\ Instant(BlockTime(timers[1].time)) \in Nat
            /\ \/ Instant(now) + Instant(BlockTime(timers[1].time)) = Instant(timers[1].time)
               \/ Instant(BlockTime(timers[1].time)) = 0
        BY <1>4, <4>1, BlockTimeEnds
      <4>4. f.deadline \in Nat
        BY <1>4, <4>2, <4>3
      <4> QED
        BY <1>4, <2>5, <2>6, <4>1, <4>2, <4>3, <4>4
    <3> QED
      BY <2>1, <2>4, <2>8, <3>1
  <2> QED
    BY <2>7, <2>8
<1> QED
  BY <1>3, <1>5, <1>6

(* A thread that serves timers and idle handlers never waits past the      *)
(* expiry of a timer, nor while a timer event or an idle handler is        *)
(* pending: TimerSetupProc computes the block time from the first timer of *)
(* a list kept in order, borrowing and carrying seconds, and nothing is    *)
(* created in a thread that waits.                                         *)
THEOREM NeverOversleeps == Spec => []NoOversleep
<1>1. Init => NoOversleep
  BY DEF Init, NoOversleep
<1>2. TimerInv /\ NoOversleep /\ [Next]_vars => NoOversleep'
  BY NoOversleepStep
<1> QED
  BY <1>1, <1>2, TimerInvariance, PTL DEF Spec

------------------------------------------------------------------------------
(* Passes.                                                                 *)

(* Short of the wrap, tokens are compared as creation numbers.             *)
LEMMA NewerIsBornLater ==
  ASSUME NoWrap, TimerInv, NEW i \in DOMAIN timers, NEW c \in FirstId..lastTimerId
  PROVE  NewerThan(timers[i], c) <=> timers[i].born > c
<1>1. /\ H \in Nat \ {0} /\ FirstId \in Nat /\ MaxTimers \in Nat /\ FirstId + MaxTimers < H
      /\ lastTimerId \in FirstId..(FirstId + MaxTimers)
      /\ timers[i].born \in (FirstId + 1)..lastTimerId
  BY HalfRange, TimerConstants DEF NoWrap, H, TimerInv, TimersNumbered
<1>2. PICK b \in Int : b = timers[i].born /\ -H <= b /\ b < H
  BY <1>1
<1>3. CInt(b) = b
  BY <1>2, CIntSmall
<1>4. c \in Int /\ -H <= c /\ c < H
  BY <1>1
<1>5. CInt(c) = c
  BY <1>4, CIntSmall
<1> QED
  BY <1>2, <1>3, <1>4, <1>5 DEF NewerThan

(* A pass of TimerHandlerEventProc leaves no timer on the list that had    *)
(* expired when the pass began and existed then, whatever its callbacks    *)
(* created and deleted, with nested passes, as long as the creation count  *)
(* has not wrapped.                                                        *)
THEOREM PassesAreComplete ==
  ASSUME NoWrap
  PROVE  Spec => []PassServesExpired
<1>1. TimerInv => PassServesExpired
  <2> SUFFICES ASSUME TimerInv, InTimerPass, ~Runnable(Top),
                      NEW i \in DOMAIN timers, timers[i].born <= Top.current
               PROVE  TimeBefore(Top.time, timers[i].time)
    BY DEF PassServesExpired
  <2>1. /\ Top \in Frame /\ PassSees(Top) /\ Top.kind = "timer"
        /\ Top.current \in FirstId..lastTimerId /\ Top.time \in Time /\ Top.current \in Nat
    <3>1. stack \in Seq(Frame) /\ stack # <<>> /\ Top.kind = "timer"
      BY DEF InTimerPass, TimerInv, TypeOK
    <3>2. Len(stack) \in DOMAIN stack
      BY <3>1
    <3>3. Top \in Frame /\ PassSees(Top)
      BY <3>1, <3>2, ElementOfSeq DEF Top, Last, TimerInv, PassesSee
    <3> QED
      BY <3>1, <3>3, FrameKinds DEF PassSees
  <2>2. /\ 1 \in DOMAIN timers /\ timers # <<>> /\ NotAfter(timers[1].time, timers[i].time)
        /\ timers[1].time \in Time /\ timers[i].time \in Time
        /\ timers[1].born \in Nat /\ timers[i].born \in Nat
    BY ListedTimes
  <2>3. CASE TimeBefore(Top.time, timers[1].time)
    BY <2>1, <2>2, <2>3, TimeOrder
  <2>4. CASE NewerThan(timers[1], Top.current)
    <3>1. timers[1].born > Top.current
      BY <2>1, <2>2, <2>4, NewerIsBornLater
    <3>2. NotAfter(Top.time, timers[1].time)
      BY <2>1, <2>2, <3>1 DEF PassSees
    <3>3. 1 < i /\ timers[i].born < timers[1].born
      <4>1. timers \in Seq(Timer)
        BY DEF TimerInv, TypeOK
      <4>2. i \in Nat /\ i >= 1 /\ i # 1
        BY <2>1, <2>2, <3>1, <4>1
      <4> QED
        BY <2>1, <2>2, <3>1, <4>2
    <3>4. TimeBefore(timers[1].time, timers[i].time)
      BY <2>2, <3>3 DEF TimerInv, TimersOrdered
    <3>5. ASSUME NEW a \in Time, NEW b \in Time, NEW c \in Time, NotAfter(a, b), TimeBefore(b, c)
          PROVE  TimeBefore(a, c)
      BY <3>5 DEF NotAfter, TimeBefore, Time
    <3> QED
      BY <2>1, <2>2, <3>2, <3>4, <3>5
  <2> QED
    BY <2>2, <2>3, <2>4 DEF Runnable
<1> QED
  BY <1>1, TimerInvariance, PTL

(* What an idle pass knows.                                                *)
LEMMA TopIdlePass ==
  ASSUME TimerInv, stack # <<>>, Top.kind = "idle"
  PROVE  /\ Top \in Frame /\ Top.old \in Nat /\ Top.start \in Nat
         /\ Top.old < idleGeneration /\ IdlePassSees(Top)
<1>1. stack \in Seq(Frame)
  BY DEF TimerInv, TypeOK
<1>2. Len(stack) \in DOMAIN stack
  BY <1>1
<1>3. Top \in Frame /\ IdlePassSees(Top)
  BY <1>1, <1>2, ElementOfSeq DEF Top, Last, TimerInv, IdlePassesSee
<1> QED
  BY <1>3, FrameKinds DEF IdlePassSees

(* Generations are compared as if they did not wrap.                       *)
LEMMA OldIsOld ==
  ASSUME GenerationsDiffer, TimerInv, GenerationsCounted, stack # <<>>, Top.kind = "idle",
         idleList # <<>>
  PROVE  CInt(Top.old - idleList[1].generation) >= 0 <=> idleList[1].generation <= Top.old
<1>1. /\ H \in Nat \ {0} /\ MaxIdle \in Nat /\ MaxIdle < H
  BY HalfRange, TimerConstants DEF GenerationsDiffer, H
<1>2. Top.old \in Nat /\ Top.old < idleGeneration
  BY TopIdlePass
<1>3. /\ idleGeneration \in Nat /\ idleBorn \in Nat /\ idleBorn <= MaxIdle
      /\ Len(idleList) \in Nat /\ Len(idleList) >= 1 /\ 1 \in DOMAIN idleList
      /\ idleList \in Seq(Idle)
  BY DEF TimerInv, TypeOK, IdleListed
<1>4. idleList[1].generation \in Nat /\ idleList[1].generation <= idleGeneration
  <2>1. idleList[1] \in Idle
    BY <1>3, ElementOfSeq
  <2> QED
    BY <1>3, <2>1 DEF Idle, TimerInv, IdleListed
<1>5. idleGeneration + Len(idleList) <= idleBorn + 1
  <2>1. CASE Beginning
    BY <2>1 DEF GenerationsCounted
  <2>2. CASE ~Beginning
    BY <1>3, <2>2 DEF GenerationsCounted
  <2> QED
    BY <2>1, <2>2
<1>6. idleGeneration <= MaxIdle
  BY <1>1, <1>3, <1>5
<1>7. PICK d \in Int : d = Top.old - idleList[1].generation /\ -H <= d /\ d < H
  BY <1>1, <1>2, <1>3, <1>4, <1>6
<1>8. CInt(d) = d
  BY <1>7, CIntSmall
<1> QED
  BY <1>2, <1>4, <1>7, <1>8

(* Only TclServiceIdle begins a generation.                                *)
LEMMA GenerationSteps ==
  ASSUME [Next]_vars, ~TclServiceIdle
  PROVE  UNCHANGED idleGeneration
<1>1. CASE UNCHANGED vars
  BY <1>1 DEF vars, idleVars
<1>2. CASE Application
  <2>1. ASSUME NEW S, Tcl_CancelIdleCall(S)
        PROVE  UNCHANGED idleGeneration
    BY <2>1 DEF Tcl_CancelIdleCall
  <2>2. ASSUME NEW data, Tcl_DoWhenIdle(data)
        PROVE  UNCHANGED idleGeneration
    BY <2>2 DEF Tcl_DoWhenIdle
  <2> QED
    BY <1>2, <2>1, <2>2
       DEF Application, Tcl_CreateTimerHandler, Tcl_DeleteTimerHandler, DoWhenIdle, CancelIdleCall,
           AfterTimer, AfterIdle, AfterCancel, AfterCleanupProc, TimerExitProc, idleVars
<1>3. CASE LoopStep
  BY <1>3
     DEF LoopStep, Wait, TimerPass, RunTimer, TimerPassEnds, NothingQueued,
         RunIdle, IdlePassEnds, LoopEnds, idleVars
<1> QED
  BY <1>1, <1>2, <1>3
     DEF Next, Tick, Enter, Tcl_DoOneEvent, Tcl_ServiceAll, ServiceOther, WaitEnds,
         CallbackReturns, idleVars

(* Nothing else happens when an idle pass begins.                          *)
LEMMA BeginningSteps ==
  ASSUME TimerInv, Beginning, [Next]_vars
  PROVE  Tick \/ RunIdle \/ IdlePassEnds \/ UNCHANGED vars
<1>1. /\ stack # <<>> /\ Top.kind = "idle" /\ Top.run = None /\ ~exited
  BY DEF Beginning, TimerInv, PassesNest
<1>2. ~AtCode
  BY <1>1 DEF AtCode
<1>3. ~Application
  BY <1>1, <1>2
     DEF Application, Tcl_CreateTimerHandler, Tcl_DeleteTimerHandler, DoWhenIdle, CancelIdleCall,
         AfterTimer, AfterIdle, AfterCancel, AfterCleanupProc, TimerExitProc, AfterNew
<1>4. \A s : ~AtStage(s)
  BY <1>1 DEF AtStage
<1>5. ~InTimerPass
  BY <1>1 DEF InTimerPass
<1>6. LoopStep => RunIdle \/ IdlePassEnds
  BY <1>4, <1>5
     DEF LoopStep, Wait, TimerPass, RunTimer, TimerPassEnds, NothingQueued, TclServiceIdle, LoopEnds
<1> QED
  BY <1>2, <1>3, <1>4, <1>6
     DEF Next, Enter, Tcl_DoOneEvent, Tcl_ServiceAll, ServiceOther, WaitEnds, CallbackReturns

(* Each generation is paid for by an idle handler.                         *)
LEMMA GenerationsStep ==
  ASSUME GenerationsDiffer, TimerInv, GenerationsCounted, [Next]_vars
  PROVE  GenerationsCounted'
<1>1. /\ idleList \in Seq(Idle) /\ Len(idleList) \in Nat /\ idleGeneration \in Nat
      /\ idleBorn \in Nat /\ lastIdlePtr \in Nat /\ stack \in Seq(Frame) /\ Len(stack) \in Nat
      /\ idleGeneration + Len(idleList) <= idleBorn + IF Beginning THEN 1 ELSE 0
  BY DEF TimerInv, TypeOK, GenerationsCounted
<1>2. /\ idleList' \in Seq(Idle) /\ Len(idleList') \in Nat /\ idleGeneration' \in Nat
      /\ idleBorn' \in Nat
  BY TimerInvStep DEF TimerInv, TypeOK
<1>3. ASSUME idleGeneration' + Len(idleList') <= idleBorn'
      PROVE  GenerationsCounted'
  BY <1>2, <1>3 DEF GenerationsCounted
<1>4. CASE TclServiceIdle
  <2>1. /\ stack # <<>> /\ Top.kind = "loop" /\ idleList # <<>>
        /\ idleGeneration' = idleGeneration + 1 /\ UNCHANGED <<idleList, idleBorn>>
        /\ stack' = Append(stack, [kind |-> "idle", old |-> idleGeneration,
                                   start |-> idleBorn, run |-> None])
    BY <1>4 DEF TclServiceIdle, AtStage, HasIdle
  <2>2. ~Beginning
    BY <2>1 DEF Beginning
  <2>3. stack' # <<>> /\ Last(stack') = [kind |-> "idle", old |-> idleGeneration,
                                         start |-> idleBorn, run |-> None]
    BY <1>1, <2>1 DEF Last
  <2>4. idleList[1].generation <= idleGeneration
    <3>1. 1 \in DOMAIN idleList
      BY <1>1, <2>1
    <3> QED
      BY <3>1 DEF TimerInv, IdleListed
  <2>5. Beginning'
    BY <2>1, <2>3, <2>4 DEF Beginning, Top
  <2>6. idleGeneration' + Len(idleList') <= idleBorn' + 1
    BY <1>1, <2>1, <2>2
  <2> QED
    BY <2>5, <2>6 DEF GenerationsCounted
<1>5. CASE Beginning
  <2>1. CASE Tick \/ UNCHANGED vars
    BY <2>1 DEF GenerationsCounted, Beginning, Top, Tick, vars, idleVars
  <2>2. CASE RunIdle
    <3>1. idleList # <<>> /\ idleList' = Tail(idleList) /\ UNCHANGED <<idleGeneration, idleBorn>>
      BY <2>2 DEF RunIdle, OldEnough
    <3>2. Len(idleList') = Len(idleList) - 1
      BY <1>1, <3>1
    <3> QED
      BY <1>1, <1>3, <1>5, <3>1, <3>2
  <2>3. CASE IdlePassEnds
    BY <1>5, <2>3, OldIsOld DEF IdlePassEnds, OldEnough, Beginning
  <2> QED
    BY <1>5, <2>1, <2>2, <2>3, BeginningSteps
<1>6. CASE ~Beginning /\ ~TclServiceIdle
  <2>1. UNCHANGED idleGeneration
    BY <1>6, GenerationSteps
  <2>2. IdleKinds
    BY IdleSteps DEF TimerInv
  <2>3. CASE IdleThinned
    <3>1. Len(idleList') <= Len(idleList) /\ idleBorn' = idleBorn
      BY <2>3 DEF IdleThinned, Thinned
    <3> QED
      BY <1>1, <1>2, <1>3, <1>6, <2>1, <3>1
  <2>4. ASSUME NEW h \in Idle, IdleAdded(h)
        PROVE  GenerationsCounted'
    <3>1. Len(idleList') = Len(idleList) + 1 /\ idleBorn' = idleBorn + 1
      BY <1>1, <2>4 DEF IdleAdded
    <3> QED
      BY <1>1, <1>3, <1>6, <2>1, <3>1
  <2>5. ~NewGeneration
    BY <1>1, <2>1 DEF NewGeneration
  <2> QED
    BY <2>2, <2>3, <2>4, <2>5 DEF IdleKinds
<1> QED
  BY <1>4, <1>5, <1>6

(* A pass runs no callback that was created after it began, with passes    *)
(* nested in its callbacks and as long as the creation count does not      *)
(* wrap: TimerHandlerEventProc stops at a timer newer than the last one it *)
(* saw when it began, TclServiceIdle at a handler of a later generation,   *)
(* and there are no more generations than idle handlers.                   *)
THEOREM PassesSkipNew ==
  ASSUME NoWrap, GenerationsDiffer
  PROVE  Spec => PassSkipsNew
<1>1. Init => GenerationsCounted
  BY DEF Init, GenerationsCounted, Beginning
<1>2. TimerInv /\ GenerationsCounted /\ [Next]_vars => GenerationsCounted'
  BY GenerationsStep
<1>3. TimerInv /\ GenerationsCounted /\ [Next]_vars =>
         [/\ RunTimer => timers[1].born <= Top.current
          /\ RunIdle => idleList[1].born <= Top.start]_vars
  <2> SUFFICES ASSUME TimerInv, GenerationsCounted
               PROVE  /\ RunTimer => timers[1].born <= Top.current
                      /\ RunIdle => idleList[1].born <= Top.start
    OBVIOUS
  <2>1. ASSUME RunTimer
        PROVE  timers[1].born <= Top.current
    <3>1. /\ stack \in Seq(Frame) /\ stack # <<>> /\ Top.kind = "timer" /\ timers # <<>>
          /\ timers \in Seq(Timer) /\ ~NewerThan(timers[1], Top.current)
      BY <2>1 DEF RunTimer, InTimerPass, Runnable, TimerInv, TypeOK
    <3>2. Len(stack) \in DOMAIN stack /\ 1 \in DOMAIN timers
      BY <3>1
    <3>3. Top.current \in FirstId..lastTimerId
      BY <3>1, <3>2 DEF Top, Last, TimerInv, PassesSee, PassSees
    <3>4. ~(timers[1].born > Top.current)
      BY <3>1, <3>2, <3>3, NewerIsBornLater
    <3>5. timers[1].born \in Nat /\ Top.current \in Int
      BY <3>2, <3>3, ListedTimes
    <3> QED
      BY <3>4, <3>5
  <2>2. ASSUME RunIdle
        PROVE  idleList[1].born <= Top.start
    <3>1. /\ stack # <<>> /\ Top.kind = "idle" /\ idleList # <<>> /\ idleList \in Seq(Idle)
          /\ CInt(Top.old - idleList[1].generation) >= 0
      BY <2>2 DEF RunIdle, InIdlePass, OldEnough, TimerInv, TypeOK
    <3>2. idleList[1].generation <= Top.old
      BY <3>1, OldIsOld
    <3>3. Top.old \in Nat /\ Top.start \in Nat /\ IdlePassSees(Top)
      BY <3>1, TopIdlePass
    <3>4. 1 \in DOMAIN idleList /\ idleList[1] \in Idle
      BY <3>1, ElementOfSeq
    <3>5. idleList[1].born \in Nat /\ idleList[1].generation \in Nat
      BY <3>4 DEF Idle
    <3>6. idleList[1].born > Top.start => idleList[1].generation > Top.old
      BY <3>1, <3>3, <3>4 DEF IdlePassSees
    <3> QED
      BY <3>2, <3>3, <3>5, <3>6
  <2> QED
    BY <2>1, <2>2
<1> QED
  BY <1>1, <1>2, <1>3, TimerInvariance, PTL DEF Spec, PassSkipsNew

------------------------------------------------------------------------------
(* Scripts and their callbacks.                                            *)

(* A script is listed with its timer.                                      *)
LEMMA PairsAddTimer ==
  ASSUME NEW T \in SUBSET Timer, NEW I \in SUBSET Idle, NEW A \in SUBSET After,
         NEW token \in [After -> Int], NEW allocated, Pairs(T, I, A, token, allocated),
         NEW a \in After, a \notin allocated,
         NEW t \in Timer, t.data = a, CInt(t.born) # 0
  PROVE  Pairs(T \cup {t}, I, A \cup {a}, [token EXCEPT ![a] = CInt(t.born)], allocated \cup {a})
<1> DEFINE token2 == [token EXCEPT ![a] = CInt(t.born)]
<1>1. a \notin A /\ \A u \in T : u.data # a
  BY DEF Pairs
<1>2. \A h \in I : h.data # a
  BY DEF Pairs
<1>3. token2[a] = CInt(t.born) /\ \A b \in After : b # a => token2[b] = token[b]
  OBVIOUS
<1> HIDE DEF token2
<1>4. \A u \in T \cup {t} : u.data \in After =>
         u.data \in A \cup {a} /\ token2[u.data] = CInt(u.born)
  BY <1>1, <1>3 DEF Pairs
<1>5. \A h \in I : h.data \in After => h.data \in A \cup {a} /\ token2[h.data] = 0
  BY <1>2, <1>3 DEF Pairs
<1>6. \A b \in A \cup {a} : IF token2[b] = 0 THEN \E h \in I : h.data = b
                            ELSE \E u \in T \cup {t} : u.data = b
  <2>1. ASSUME NEW b \in A
        PROVE  IF token2[b] = 0 THEN \E h \in I : h.data = b
               ELSE \E u \in T \cup {t} : u.data = b
    BY <1>1, <1>3 DEF Pairs
  <2>2. token2[a] # 0 /\ t \in T \cup {t}
    BY <1>3
  <2> QED
    BY <2>1, <2>2
<1>7. Pairs(T \cup {t}, I, A \cup {a}, token2, allocated \cup {a})
  BY <1>4, <1>5, <1>6 DEF Pairs
<1> QED
  BY <1>7 DEF token2

(* A script is listed with its idle handler.                               *)
LEMMA PairsAddIdle ==
  ASSUME NEW T \in SUBSET Timer, NEW I \in SUBSET Idle, NEW A \in SUBSET After,
         NEW token \in [After -> Int], NEW allocated, Pairs(T, I, A, token, allocated),
         NEW a \in After, a \notin allocated,
         NEW h \in Idle, h.data = a
  PROVE  Pairs(T, I \cup {h}, A \cup {a}, [token EXCEPT ![a] = 0], allocated \cup {a})
<1> DEFINE token2 == [token EXCEPT ![a] = 0]
<1>1. a \notin A /\ \A u \in T : u.data # a
  BY DEF Pairs
<1>2. \A g \in I : g.data # a
  BY DEF Pairs
<1>3. token2[a] = 0 /\ \A b \in After : b # a => token2[b] = token[b]
  OBVIOUS
<1> HIDE DEF token2
<1>4. \A u \in T : u.data \in After =>
         u.data \in A \cup {a} /\ token2[u.data] = CInt(u.born)
  BY <1>1, <1>3 DEF Pairs
<1>5. \A g \in I \cup {h} : g.data \in After => g.data \in A \cup {a} /\ token2[g.data] = 0
  BY <1>2, <1>3 DEF Pairs
<1>6. \A b \in A \cup {a} : IF token2[b] = 0 THEN \E g \in I \cup {h} : g.data = b
                            ELSE \E u \in T : u.data = b
  <2>1. ASSUME NEW b \in A
        PROVE  IF token2[b] = 0 THEN \E g \in I \cup {h} : g.data = b
               ELSE \E u \in T : u.data = b
    BY <1>1, <1>3 DEF Pairs
  <2>2. token2[a] = 0 /\ h \in I \cup {h}
    BY <1>3
  <2> QED
    BY <2>1, <2>2
<1>7. \A f, g \in I \cup {h} : f.data \in After /\ f.data = g.data => f = g
  BY <1>2 DEF Pairs
<1>8. Pairs(T, I \cup {h}, A \cup {a}, token2, allocated \cup {a})
  BY <1>4, <1>5, <1>6, <1>7 DEF Pairs
<1> QED
  BY <1>8 DEF token2

(* Callbacks that are no scripts come.                                     *)
LEMMA PairsAddPlain ==
  ASSUME NEW T \in SUBSET Timer, NEW I \in SUBSET Idle, NEW A \in SUBSET After,
         NEW token \in [After -> Int], NEW allocated, Pairs(T, I, A, token, allocated),
         NEW P, NEW Q, \A t \in P : t.data \notin After, \A h \in Q : h.data \notin After
  PROVE  Pairs(T \cup P, I \cup Q, A, token, allocated)
<1>1. \A g, h \in I \cup Q : g.data \in After /\ g.data = h.data => g = h
  BY DEF Pairs
<1>2. \A a \in A : IF token[a] = 0 THEN \E h \in I \cup Q : h.data = a
                   ELSE \E t \in T \cup P : t.data = a
  BY DEF Pairs
<1> QED
  BY <1>1, <1>2 DEF Pairs

(* Scripts go with their callbacks.                                        *)
LEMMA PairsThin ==
  ASSUME NEW T \in SUBSET Timer, NEW I \in SUBSET Idle, NEW A \in SUBSET After,
         NEW token \in [After -> Int], NEW allocated, Pairs(T, I, A, token, allocated),
         NEW T2 \in SUBSET T, NEW I2 \in SUBSET I, NEW A2 \in SUBSET A, NEW allocated2,
         A2 \subseteq allocated2,
         \A t \in T : t.data \in After => (t \in T2 <=> t.data \in A2),
         \A h \in I : h.data \in After => (h \in I2 <=> h.data \in A2)
  PROVE  Pairs(T2, I2, A2, token, allocated2)
<1>1. \A g, h \in I2 : g.data \in After /\ g.data = h.data => g = h
  BY DEF Pairs
<1>2. \A t \in T2 : t.data \in After => t.data \in A2 /\ token[t.data] = CInt(t.born)
  BY DEF Pairs
<1>3. \A h \in I2 : h.data \in After => h.data \in A2 /\ token[h.data] = 0
  BY DEF Pairs
<1>4. \A a \in A2 : IF token[a] = 0 THEN \E h \in I2 : h.data = a
                    ELSE \E t \in T2 : t.data = a
  <2>1. ASSUME NEW a \in A2, token[a] = 0
        PROVE  \E h \in I2 : h.data = a
    <3>1. PICK h \in I : h.data = a
      BY <2>1 DEF Pairs
    <3> QED
      BY <2>1, <3>1
  <2>2. ASSUME NEW a \in A2, token[a] # 0
        PROVE  \E t \in T2 : t.data = a
    <3>1. PICK t \in T : t.data = a
      BY <2>2 DEF Pairs
    <3> QED
      BY <2>2, <3>1
  <2> QED
    BY <2>1, <2>2
<1> QED
  BY <1>1, <1>2, <1>3, <1>4 DEF Pairs

(* What list operations do to the set of elements.                         *)
LEMMA ElementSets ==
  ASSUME NEW S, NEW s \in Seq(S)
  PROVE  /\ ToSet(s) \in SUBSET S
         /\ \A e : e \in ToSet(s) <=> \E i \in DOMAIN s : s[i] = e
         /\ s # <<>> => s[1] \in ToSet(s)
         /\ \A e : Append(s, e) \in Seq(S) => ToSet(Append(s, e)) = ToSet(s) \cup {e}
         /\ \A e : <<e>> \o s \in Seq(S) => ToSet(<<e>> \o s) = ToSet(s) \cup {e}
         /\ \A r, k, e : k \in 1..(Len(s) + 1) /\ InsertedAt(r, s, k, e) =>
               ToSet(r) = ToSet(s) \cup {e}
<1>1. Len(s) \in Nat /\ DOMAIN s = 1..Len(s) /\ \A i \in DOMAIN s : s[i] \in S
  BY ElementOfSeq
<1>2. ToSet(s) \in SUBSET S /\ (s # <<>> => s[1] \in ToSet(s))
      /\ \A e : e \in ToSet(s) <=> \E i \in DOMAIN s : s[i] = e
  BY <1>1 DEF ToSet
<1>3. ASSUME NEW e, Append(s, e) \in Seq(S)
      PROVE  ToSet(Append(s, e)) = ToSet(s) \cup {e}
  <2>1. PICK r : r = Append(s, e)
    OBVIOUS
  <2>2. /\ DOMAIN r = 1..(Len(s) + 1) /\ r[Len(s) + 1] = e
        /\ \A i \in 1..Len(s) : r[i] = s[i] /\ i \in DOMAIN r
    BY <1>1, <1>3, <2>1
  <2>3. ASSUME NEW f \in ToSet(r)
        PROVE  f \in ToSet(s) \cup {e}
    <3>1. PICK i \in 1..(Len(s) + 1) : f = r[i]
      BY <2>2, <2>3 DEF ToSet
    <3>2. i = Len(s) + 1 \/ i \in DOMAIN s
      BY <1>1
    <3> QED
      BY <1>1, <1>2, <2>2, <3>1, <3>2
  <2>4. ASSUME NEW f \in ToSet(s) \cup {e}
        PROVE  f \in ToSet(r)
    <3>1. Len(s) + 1 \in DOMAIN r
      BY <1>1, <2>2
    <3>2. f = e \/ \E i \in DOMAIN s : f = s[i]
      BY <1>2
    <3> QED
      BY <1>1, <2>2, <3>1, <3>2 DEF ToSet
  <2> QED
    BY <2>1, <2>3, <2>4
<1>4. ASSUME NEW r, NEW k \in 1..(Len(s) + 1), NEW e, InsertedAt(r, s, k, e)
      PROVE  ToSet(r) = ToSet(s) \cup {e}
  <2>1. /\ DOMAIN r = 1..(Len(s) + 1)
        /\ \A j \in 1..(Len(s) + 1) :
              r[j] = IF j < k THEN s[j] ELSE IF j = k THEN e ELSE s[j - 1]
    BY <1>4 DEF InsertedAt
  <2>2. ASSUME NEW f \in ToSet(r)
        PROVE  f \in ToSet(s) \cup {e}
    <3>1. PICK j \in 1..(Len(s) + 1) : f = r[j]
      BY <2>1, <2>2 DEF ToSet
    <3>2. CASE j = k
      BY <2>1, <3>1, <3>2
    <3>3. CASE j < k
      <4>1. f = s[j] /\ j \in DOMAIN s
        BY <1>1, <2>1, <3>1, <3>3
      <4> QED
        BY <1>2, <4>1
    <3>4. CASE j > k
      <4>1. f = s[j - 1] /\ j - 1 \in DOMAIN s
        BY <1>1, <2>1, <3>1, <3>4
      <4> QED
        BY <1>2, <4>1
    <3> QED
      BY <1>1, <3>2, <3>3, <3>4
  <2>3. k \in DOMAIN r /\ r[k] = e
    BY <1>1, <2>1
  <2>4. ASSUME NEW i \in DOMAIN s
        PROVE  \E j \in DOMAIN r : r[j] = s[i]
    <3>1. CASE i < k
      BY <1>1, <2>1, <3>1
    <3>2. CASE ~(i < k)
      <4>1. i + 1 \in DOMAIN r /\ ~(i + 1 < k) /\ i + 1 # k /\ (i + 1) - 1 = i
        BY <1>1, <2>1, <3>2
      <4> QED
        BY <2>1, <4>1
    <3> QED
      BY <3>1, <3>2
  <2>5. ASSUME NEW f \in ToSet(s) \cup {e}
        PROVE  f \in ToSet(r)
    <3>1. f = e \/ \E i \in DOMAIN s : s[i] = f
      BY <1>2
    <3>2. \E j \in DOMAIN r : r[j] = f
      BY <2>3, <2>4, <3>1
    <3> QED
      BY <3>2 DEF ToSet
  <2> QED
    BY <2>2, <2>5
<1>5. ASSUME NEW e, <<e>> \o s \in Seq(S)
      PROVE  ToSet(<<e>> \o s) = ToSet(s) \cup {e}
  <2>1. PICK r : r = <<e>> \o s
    OBVIOUS
  <2>2. 1 \in 1..(Len(s) + 1)
    BY <1>1
  <2>3. InsertedAt(r, s, 1, e)
    <3>1. Len(r) = Len(s) + 1 /\ DOMAIN r = 1..(Len(s) + 1)
      BY <1>1, <1>5, <2>1
    <3>2. r[1] = e /\ \A j \in 2..(Len(s) + 1) : r[j] = s[j - 1]
      BY <1>1, <1>5, <2>1
    <3>3. ASSUME NEW j \in 1..(Len(s) + 1)
          PROVE  r[j] = IF j < 1 THEN s[j] ELSE IF j = 1 THEN e ELSE s[j - 1]
      <4>1. j = 1 \/ j \in 2..(Len(s) + 1)
        BY <1>1
      <4>2. ~(j < 1)
        BY <1>1
      <4> QED
        BY <3>2, <4>1, <4>2
    <3> QED
      BY <3>1, <3>3 DEF InsertedAt
  <2> QED
    BY <1>4, <2>1, <2>2, <2>3
<1> QED
  BY <1>2, <1>3, <1>4, <1>5

(* What is kept, and what is left without the first element.               *)
LEMMA ThinnedSets ==
  ASSUME NEW S, NEW s \in Seq(S)
  PROVE  /\ \A X : ToSet(Keep(s, {i \in DOMAIN s : s[i] \notin X})) = ToSet(s) \ X
         /\ s # <<>> /\ (\A i, j \in DOMAIN s : s[i] = s[j] => i = j) =>
               ToSet(Tail(s)) = ToSet(s) \ {s[1]}
<1>1. Len(s) \in Nat /\ DOMAIN s = 1..Len(s)
  OBVIOUS
<1>2. ASSUME NEW X
      PROVE  ToSet(Keep(s, {i \in DOMAIN s : s[i] \notin X})) = ToSet(s) \ X
  <2>1. PICK keep : keep = {i \in DOMAIN s : s[i] \notin X}
    OBVIOUS
  <2>2. PICK r : r = Keep(s, keep)
    OBVIOUS
  <2>3. keep \in SUBSET DOMAIN s
    BY <2>1
  <2>4. r \in Seq(S) /\ \E h : Kept(r, s, keep, h)
    BY ONLY <2>2, <2>3, s \in Seq(S), KeepElements
  <2>5. PICK h : Kept(r, s, keep, h)
    BY <2>4
  <2>6. ASSUME NEW e \in ToSet(r)
        PROVE  e \in ToSet(s) \ X
    <3>1. PICK j \in DOMAIN r : e = r[j]
      BY <2>6 DEF ToSet
    <3>2. h[j] \in keep /\ e = s[h[j]]
      BY <2>5, <3>1 DEF Kept
    <3> QED
      BY <2>1, <3>2 DEF ToSet
  <2>7. ASSUME NEW e \in ToSet(s) \ X
        PROVE  e \in ToSet(r)
    <3>1. PICK k \in keep : e = s[k]
      BY <2>1, <2>7 DEF ToSet
    <3>2. PICK j \in DOMAIN r : h[j] = k
      BY <2>5 DEF Kept
    <3>3. r[j] = e
      BY <2>5, <3>1, <3>2 DEF Kept
    <3> QED
      BY <3>3 DEF ToSet
  <2> QED
    BY <2>1, <2>2, <2>6, <2>7
<1>3. ASSUME s # <<>>, \A i, j \in DOMAIN s : s[i] = s[j] => i = j
      PROVE  ToSet(Tail(s)) = ToSet(s) \ {s[1]}
  <2>1. PICK r : r = Tail(s)
    OBVIOUS
  <2>2. /\ DOMAIN r = 1..(Len(s) - 1) /\ Len(s) >= 1
        /\ \A j \in 1..(Len(s) - 1) : r[j] = s[j + 1]
    BY <1>1, <1>3, <2>1
  <2>3. ASSUME NEW e \in ToSet(r)
        PROVE  e \in ToSet(s) \ {s[1]}
    <3>1. PICK j \in 1..(Len(s) - 1) : e = s[j + 1]
      BY <2>2, <2>3 DEF ToSet
    <3>2. j + 1 \in DOMAIN s /\ 1 \in DOMAIN s /\ j + 1 # 1
      BY <1>1, <2>2
    <3> QED
      BY <1>3, <3>1, <3>2 DEF ToSet
  <2>4. ASSUME NEW e \in ToSet(s) \ {s[1]}
        PROVE  e \in ToSet(r)
    <3>1. PICK i \in DOMAIN s : e = s[i] /\ i # 1
      BY <2>4 DEF ToSet
    <3>2. i - 1 \in DOMAIN r /\ r[i - 1] = s[(i - 1) + 1] /\ (i - 1) + 1 = i
      BY <1>1, <2>2, <3>1
    <3> QED
      BY <3>1, <3>2 DEF ToSet
  <2> QED
    BY <2>1, <2>3, <2>4
<1> QED
  BY <1>2, <1>3

(* Two numbers that are less than a round apart have different C ints.     *)
LEMMA CIntApart ==
  ASSUME NEW m \in Int, NEW n \in Int, m - n < IntRange, n - m < IntRange, CInt(m) = CInt(n)
  PROVE  m = n
<1>1. IntRange \in Nat \ {0}
  BY HalfRange
<1>2. PICK p \in Int : m = CInt(m) + IntRange * p
  BY CIntValue
<1>3. PICK q \in Int : n = CInt(n) + IntRange * q
  BY CIntValue
<1>4. CInt(m) \in Int
  BY CIntValue
<1>5. PICK r \in Int : r = m - n
  OBVIOUS
<1>6. r = IntRange * (p - q)
  <2>1. r = IntRange * p - IntRange * q
    BY <1>1, <1>2, <1>3, <1>4, <1>5
  <2> QED
    BY <1>1, <2>1
<1>7. p - q = 0
  BY <1>1, <1>5, <1>6, NoMultiple
<1> QED
  BY <1>1, <1>5, <1>6, <1>7

(* Tokens stand for timers.                                                *)
LEMMA Tokens ==
  ASSUME NumbersDiffer, NoNullToken, TimerInv
  PROVE  /\ ToSet(timers) \in SUBSET Timer /\ ToSet(idleList) \in SUBSET Idle
         /\ ToSet(afters) \in SUBSET After
         /\ \A t \in ToSet(timers) : CInt(t.born) \in Int \ {0}
         /\ \A t, u \in ToSet(timers) : CInt(t.born) = CInt(u.born) => t = u
         /\ \A i, j \in DOMAIN timers : CInt(timers[i].born) = CInt(timers[j].born) => i = j
         /\ \A i, j \in DOMAIN timers : timers[i] = timers[j] => i = j
         /\ \A i, j \in DOMAIN idleList : idleList[i].born = idleList[j].born => i = j
<1>1. /\ timers \in Seq(Timer) /\ idleList \in Seq(Idle) /\ afters \in Seq(After)
      /\ TimersNumbered /\ IdleListed
  BY DEF TimerInv, TypeOK
<1>2. /\ FirstId \in Nat /\ MaxTimers \in Nat /\ H \in Nat \ {0} /\ IntRange = 2 * H
      /\ MaxTimers <= H /\ lastTimerId \in FirstId..(FirstId + MaxTimers)
  BY <1>1, HalfRange, TimerConstants DEF NumbersDiffer, H, TimersNumbered
<1>3. /\ ToSet(timers) \in SUBSET Timer /\ ToSet(idleList) \in SUBSET Idle
      /\ ToSet(afters) \in SUBSET After
  BY <1>1, ElementSets
<1>4. ASSUME NEW i \in DOMAIN timers
      PROVE  CInt(timers[i].born) \in Int \ {0}
  <2>1. timers[i].born \in (FirstId + 1)..lastTimerId
    BY <1>1 DEF TimersNumbered
  <2>2. PICK n \in 1..MaxTimers : timers[i].born = FirstId + n
    <3>1. timers[i].born - FirstId \in 1..MaxTimers
      BY <1>2, <2>1
    <3> QED
      BY <1>2, <2>1, <3>1
  <2>3. CInt(timers[i].born) \in Int
    BY <1>2, <2>1, CIntValue
  <2> QED
    BY <2>2, <2>3 DEF NoNullToken
<1>5. ASSUME NEW i \in DOMAIN timers, NEW j \in DOMAIN timers,
             CInt(timers[i].born) = CInt(timers[j].born)
      PROVE  i = j
  <2>1. /\ timers[i].born \in (FirstId + 1)..lastTimerId
        /\ timers[j].born \in (FirstId + 1)..lastTimerId
    BY <1>1 DEF TimersNumbered
  <2>2. /\ timers[i].born \in Int /\ timers[j].born \in Int
        /\ timers[i].born - timers[j].born < IntRange /\ timers[j].born - timers[i].born < IntRange
    BY <1>2, <2>1
  <2>3. timers[i].born = timers[j].born
    BY <1>5, <2>2, CIntApart
  <2> QED
    BY <1>1, <2>3 DEF TimersNumbered
<1>6. ASSUME NEW i \in DOMAIN idleList, NEW j \in DOMAIN idleList,
             idleList[i].born = idleList[j].born
      PROVE  i = j
  <2>1. i \in Nat /\ j \in Nat /\ idleList[i].born \in Nat
    <3>1. idleList[i] \in Idle
      BY <1>1, ElementOfSeq
    <3> QED
      BY <1>1, <3>1 DEF Idle
  <2>2. ~(i < j) /\ ~(j < i)
    BY <1>1, <1>6, <2>1 DEF IdleListed
  <2> QED
    BY <2>1, <2>2
<1>7. \A t \in ToSet(timers) : \E i \in DOMAIN timers : t = timers[i]
  BY DEF ToSet
<1> QED
  BY <1>3, <1>4, <1>5, <1>6, <1>7

(* Deleting a timer by its token.                                          *)
LEMMA WithoutTokenSet ==
  ASSUME NumbersDiffer, NoNullToken, TimerInv, NEW token
  PROVE  ToSet(WithoutToken(token)) = {t \in ToSet(timers) : CInt(t.born) # token}
<1> DEFINE at == {i \in DOMAIN timers : CInt(timers[i].born) = token}
           X == {t \in ToSet(timers) : CInt(t.born) = token}
<1>1. timers \in Seq(Timer) /\ \A i \in DOMAIN timers : i \in Nat /\ timers[i] \in ToSet(timers)
  BY DEF TimerInv, TypeOK, ToSet
<1>2. CASE token = 0 \/ at = {}
  <2>1. WithoutToken(token) = timers
    BY <1>2 DEF WithoutToken
  <2>2. \A t \in ToSet(timers) : CInt(t.born) # token
    <3>1. ASSUME NEW t \in ToSet(timers), CInt(t.born) = token
          PROVE  FALSE
      <4>1. token # 0
        BY <3>1, Tokens
      <4>2. PICK i \in DOMAIN timers : t = timers[i]
        BY DEF ToSet
      <4> QED
        BY <1>2, <3>1, <4>1, <4>2
    <3> QED
      BY <3>1
  <2> QED
    BY <2>1, <2>2
<1>3. CASE token # 0 /\ at # {}
  <2>1. PICK k \in DOMAIN timers : CInt(timers[k].born) = token
    BY <1>3
  <2>2. at = {k}
    BY <2>1, Tokens
  <2>3. Min(at) = k
    BY <1>1, <2>2 DEF Min
  <2>4. DOMAIN timers \ {Min(at)} = {i \in DOMAIN timers : timers[i] \notin X}
    <3>1. ASSUME NEW i \in DOMAIN timers
          PROVE  i # k <=> timers[i] \notin X
      BY <1>1, <2>1, Tokens
    <3> QED
      BY <2>3, <3>1
  <2>5. WithoutToken(token) = Keep(timers, DOMAIN timers \ {Min(at)})
    BY <1>3 DEF WithoutToken
  <2>6. WithoutToken(token) = Keep(timers, {i \in DOMAIN timers : timers[i] \notin X})
    BY <2>4, <2>5
  <2> HIDE DEF X, at
  <2>7. ToSet(WithoutToken(token)) = ToSet(timers) \ X
    BY ONLY <1>1, <2>6, ThinnedSets
  <2> QED
    BY <2>7 DEF X
<1> QED
  BY <1>2, <1>3

(* Only TimerExitProc sets exited, and nothing resets it.                  *)
LEMMA ExitedSteps == [Next]_vars => UNCHANGED exited \/ TimerExitProc
<1> SUFFICES ASSUME [Next]_vars PROVE UNCHANGED exited \/ TimerExitProc
  OBVIOUS
<1>1. CASE Application
  BY <1>1
     DEF Application, Tcl_CreateTimerHandler, Tcl_DeleteTimerHandler, DoWhenIdle, CancelIdleCall,
         AfterTimer, AfterIdle, AfterCancel, AfterCleanupProc
<1>2. CASE LoopStep
  BY <1>2
     DEF LoopStep, Wait, TimerPass, RunTimer, TimerPassEnds, NothingQueued, TclServiceIdle,
         RunIdle, IdlePassEnds, LoopEnds
<1> QED
  BY <1>1, <1>2
     DEF Next, Tick, Enter, Tcl_DoOneEvent, Tcl_ServiceAll, ServiceOther, WaitEnds,
         CallbackReturns, vars

(* The elements of the list of scripts without one of them.                *)
LEMMA UnlistedSet ==
  ASSUME TypeOK, NEW a
  PROVE  ToSet(Unlisted(a)) = ToSet(afters) \ {a}
<1>1. afters \in Seq(After)
  BY DEF TypeOK
<1>2. {i \in DOMAIN afters : afters[i] # a} = {i \in DOMAIN afters : afters[i] \notin {a}}
  OBVIOUS
<1>3. Unlisted(a) = Keep(afters, {i \in DOMAIN afters : afters[i] \notin {a}})
  BY <1>2 DEF Unlisted
<1> QED
  BY ONLY <1>1, <1>3, ThinnedSets

(* The elements of the list of idle handlers without those of some data.   *)
LEMMA CancelledSet ==
  ASSUME TypeOK, NEW S, Tcl_CancelIdleCall(S)
  PROVE  ToSet(idleList') = {h \in ToSet(idleList) : h.data \notin S}
<1> DEFINE X == {h \in ToSet(idleList) : h.data \in S}
<1>1. idleList \in Seq(Idle) /\ \A i \in DOMAIN idleList : idleList[i] \in ToSet(idleList)
  BY DEF TypeOK, ToSet
<1>2. {i \in DOMAIN idleList : idleList[i].data \notin S}
        = {i \in DOMAIN idleList : idleList[i] \notin X}
  BY <1>1
<1>3. idleList' = Keep(idleList, {i \in DOMAIN idleList : idleList[i] \notin X})
  BY <1>2 DEF Tcl_CancelIdleCall
<1> HIDE DEF X
<1>4. PICK r : r = idleList'
  OBVIOUS
<1>5. ToSet(r) = ToSet(idleList) \ X
  <2>1. r = Keep(idleList, {i \in DOMAIN idleList : idleList[i] \notin X})
    BY <1>3, <1>4
  <2> QED
    BY ONLY <1>1, <2>1, ThinnedSets
<1> QED
  BY <1>4, <1>5 DEF X

(* Scripts and callbacks keep corresponding.                               *)
LEMMA AfterPairsStep ==
  ASSUME NumbersDiffer, NoNullToken, TimerInv, AfterPairs, RunningApart, [Next]_vars
  PROVE  AfterPairs'
<1> DEFINE T == ToSet(timers)
           I == ToSet(idleList)
           A == ToSet(afters)
           Goal == Pairs(ToSet(timers'), ToSet(idleList'), ToSet(afters'), afterToken', alloc')
<1> SUFFICES ASSUME ~exited' PROVE Goal
  BY DEF AfterPairs, Pairs, CInt
<1>1. ~exited /\ Pairs(T, I, A, afterToken, alloc)
  BY ExitedSteps DEF AfterPairs, TimerExitProc
<1>2. /\ T \in SUBSET Timer /\ I \in SUBSET Idle /\ A \in SUBSET After
      /\ afterToken \in [After -> Int]
      /\ \A t \in T : CInt(t.born) \in Int \ {0}
      /\ \A t, u \in T : CInt(t.born) = CInt(u.born) => t = u
  BY Tokens DEF TimerInv, TypeOK
<1>3. /\ timers \in Seq(Timer) /\ idleList \in Seq(Idle) /\ afters \in Seq(After)
      /\ TypeOK /\ TimersOrdered /\ IdleListed
  BY DEF TimerInv, TypeOK
<1>4. /\ A \subseteq alloc
      /\ \A t \in T : t.data \in After => t.data \in A /\ afterToken[t.data] = CInt(t.born)
      /\ \A h \in I : h.data \in After => h.data \in A /\ afterToken[h.data] = 0
      /\ \A g, h \in I : g.data \in After /\ g.data = h.data => g = h
      /\ \A a \in A : IF afterToken[a] = 0 THEN \E h \in I : h.data = a
                      ELSE \E t \in T : t.data = a
  BY <1>1 DEF Pairs
<1> HIDE DEF T, I, A
<1>5. ASSUME NEW T2 \in SUBSET T, NEW I2 \in SUBSET I, NEW A2 \in SUBSET A, A2 \subseteq alloc',
             ToSet(timers') = T2, ToSet(idleList') = I2, ToSet(afters') = A2, UNCHANGED afterToken,
             \A t \in T : t.data \in After => (t \in T2 <=> t.data \in A2),
             \A h \in I : h.data \in After => (h \in I2 <=> h.data \in A2)
      PROVE  Goal
  <2>1. Pairs(T2, I2, A2, afterToken, alloc')
    BY ONLY <1>1, <1>2, <1>5, PairsThin
  <2> QED
    BY <1>5, <2>1
<1>6. ASSUME UNCHANGED <<timers, idleList, afterVars>>
      PROVE  Goal
  BY <1>1, <1>6 DEF afterVars, T, I, A
<1>7. ASSUME NEW t \in Timer, NEW k \in 1..(Len(timers) + 1), TimerAdded(t, k)
      PROVE  ToSet(timers') = T \cup {t}
  BY <1>3, <1>7, ElementSets DEF TimerAdded, T
<1>8. ASSUME NEW h \in Idle, IdleAdded(h)
      PROVE  ToSet(idleList') = I \cup {h}
  <2>1. Append(idleList, h) \in Seq(Idle)
    BY <1>3, <1>8
  <2> QED
    BY <1>3, <1>8, <2>1, ElementSets DEF IdleAdded, I
<1>9. ASSUME NEW a \in After, NEW token, AfterNew(a, token)
      PROVE  ToSet(afters') = A \cup {a} /\ a \notin alloc /\ alloc' = alloc \cup {a}
             /\ afterToken' = [afterToken EXCEPT ![a] = token]
  <2>1. <<a>> \o afters \in Seq(After)
    BY <1>3, <1>9
  <2> QED
    BY <1>3, <1>9, <2>1, ElementSets DEF AfterNew, A
<1>10. ASSUME NEW ms \in Delays, NEW d \in Plain, Tcl_CreateTimerHandler(ms, d)
       PROVE  Goal
  <2>1. PICK t \in Timer : t.data = d /\ ToSet(timers') = T \cup {t}
    BY <1>3, <1>7, <1>10, TimerIsCreated
  <2>2. UNCHANGED <<idleList, afterVars>>
    BY <1>10 DEF Tcl_CreateTimerHandler, idleVars
  <2>3. d \notin After
    BY TimerConstants
  <2>4. Pairs(T \cup {t}, I \cup {}, A, afterToken, alloc)
    BY <1>1, <1>2, <2>1, <2>3, PairsAddPlain
  <2> QED
    BY <2>1, <2>2, <2>4 DEF afterVars, I, A
<1>11. ASSUME NEW a \in After, NEW ms \in Delays, AfterTimer(a, ms)
       PROVE  Goal
  <2>1. PICK t \in Timer : t.data = a /\ t.born = lastTimerId + 1 /\ ToSet(timers') = T \cup {t}
    BY <1>3, <1>7, <1>11, TimerIsCreated DEF TimerAdded
  <2>2. /\ UNCHANGED idleList /\ ToSet(afters') = A \cup {a} /\ a \notin alloc
        /\ alloc' = alloc \cup {a} /\ afterToken' = [afterToken EXCEPT ![a] = CInt(t.born)]
    BY <1>9, <1>11, <2>1 DEF AfterTimer, idleVars
  <2>3. CInt(t.born) # 0
    <3>1. /\ FirstId \in Nat /\ MaxTimers \in Nat /\ lastTimerId \in FirstId..(FirstId + MaxTimers)
          /\ lastTimerId < FirstId + MaxTimers
      BY <1>11, TimerConstants
         DEF AfterTimer, TclCreateAbsoluteTimerHandler, TimerInv, TimersNumbered
    <3>2. PICK n \in 1..MaxTimers : lastTimerId + 1 = FirstId + n
      <4>1. (lastTimerId + 1) - FirstId \in 1..MaxTimers
            /\ FirstId + ((lastTimerId + 1) - FirstId) = lastTimerId + 1
        BY <3>1
      <4> QED
        BY <4>1
    <3> QED
      BY <2>1, <3>2 DEF NoNullToken
  <2>4. Pairs(T \cup {t}, I, A \cup {a}, [afterToken EXCEPT ![a] = CInt(t.born)], alloc \cup {a})
    BY <1>1, <1>2, <2>1, <2>2, <2>3, PairsAddTimer
  <2> QED
    BY <2>1, <2>2, <2>4 DEF I
<1>12. ASSUME NEW d \in Plain, DoWhenIdle(d)
       PROVE  Goal
  <2>1. PICK h \in Idle : h.data = d /\ ToSet(idleList') = I \cup {h}
    BY <1>3, <1>8, <1>12, IdleIsAdded DEF DoWhenIdle, Data
  <2>2. UNCHANGED <<timers, afterVars>>
    BY <1>12 DEF DoWhenIdle, timerVars
  <2>3. d \notin After
    BY TimerConstants
  <2>4. Pairs(T \cup {}, I \cup {h}, A, afterToken, alloc)
    BY <1>1, <1>2, <2>1, <2>3, PairsAddPlain
  <2> QED
    BY <2>1, <2>2, <2>4 DEF afterVars, T, A
<1>13. ASSUME NEW a \in After, AfterIdle(a)
       PROVE  Goal
  <2>1. PICK h \in Idle : h.data = a /\ ToSet(idleList') = I \cup {h}
    BY <1>3, <1>8, <1>13, IdleIsAdded DEF AfterIdle, Data
  <2>2. /\ UNCHANGED timers /\ ToSet(afters') = A \cup {a} /\ a \notin alloc
        /\ alloc' = alloc \cup {a} /\ afterToken' = [afterToken EXCEPT ![a] = 0]
    BY <1>9, <1>13 DEF AfterIdle, timerVars
  <2>3. Pairs(T, I \cup {h}, A \cup {a}, [afterToken EXCEPT ![a] = 0], alloc \cup {a})
    BY <1>1, <1>2, <2>1, <2>2, PairsAddIdle
  <2> QED
    BY <2>1, <2>2, <2>3 DEF T
<1>14. ASSUME NEW i \in DOMAIN timers, Tcl_DeleteTimerHandler(i)
       PROVE  Goal
  <2>1. /\ timers[i].data \in Plain /\ UNCHANGED <<idleList, afterVars>>
        /\ timers' = WithoutToken(CInt(timers[i].born))
    BY <1>14 DEF Tcl_DeleteTimerHandler, idleVars
  <2>2. ToSet(timers') = {t \in T : CInt(t.born) # CInt(timers[i].born)}
    BY <2>1, WithoutTokenSet DEF T
  <2>3. timers[i] \in T /\ timers[i].data \notin After
    BY <2>1, TimerConstants DEF T, ToSet
  <2>4. ASSUME NEW t \in T, t.data \in After
        PROVE  t \in {u \in T : CInt(u.born) # CInt(timers[i].born)} <=> t.data \in A
    BY <1>2, <1>4, <2>3, <2>4
  <2>5. ASSUME NEW h \in I, h.data \in After
        PROVE  h \in I <=> h.data \in A
    BY <1>4, <2>5
  <2>6. ToSet(idleList') = I /\ ToSet(afters') = A /\ A \subseteq alloc' /\ UNCHANGED afterToken
    BY <1>4, <2>1 DEF afterVars, I, A
  <2> HIDE DEF Goal
  <2> QED
    BY <1>5, <2>2, <2>4, <2>5, <2>6
<1>15. ASSUME NEW d \in Plain, CancelIdleCall(d)
       PROVE  Goal
  <2>1. ToSet(idleList') = {h \in I : h.data \notin {d}}
    BY <1>3, <1>15, CancelledSet DEF CancelIdleCall, I
  <2>2. d \notin After
    BY TimerConstants
  <2>3. ASSUME NEW h \in I, h.data \in After
        PROVE  h \in {g \in I : g.data \notin {d}} <=> h.data \in A
    BY <1>4, <2>2, <2>3
  <2>4. ASSUME NEW t \in T, t.data \in After
        PROVE  t \in T <=> t.data \in A
    BY <1>4, <2>4
  <2>5. ToSet(timers') = T /\ ToSet(afters') = A /\ A \subseteq alloc' /\ UNCHANGED afterToken
    BY <1>4, <1>15 DEF CancelIdleCall, timerVars, afterVars, T, A
  <2> HIDE DEF Goal
  <2> QED
    BY <1>5, <2>1, <2>3, <2>4, <2>5
<1>16. ASSUME NEW a \in After, AfterCancel(a)
       PROVE  Goal
  <2>1. /\ a \in A /\ ToSet(afters') = A \ {a} /\ A \ {a} \subseteq alloc' /\ UNCHANGED afterToken
    BY <1>3, <1>4, <1>16, UnlistedSet DEF AfterCancel, A
  <2>2. CASE afterToken[a] # 0
    <3>1. /\ ToSet(timers') = {t \in T : CInt(t.born) # afterToken[a]} /\ ToSet(idleList') = I
      BY <1>16, <2>2, WithoutTokenSet DEF AfterCancel, idleVars, T, I
    <3>2. PICK u \in T : u.data = a
      BY <1>4, <2>1, <2>2
    <3>3. ASSUME NEW t \in T, t.data \in After
          PROVE  t \in {v \in T : CInt(v.born) # afterToken[a]} <=> t.data \in A \ {a}
      BY <1>2, <1>4, <3>2, <3>3
    <3>4. ASSUME NEW h \in I, h.data \in After
          PROVE  h \in I <=> h.data \in A \ {a}
      BY <1>4, <2>2, <3>4
    <3> HIDE DEF Goal
    <3> QED
      BY <1>5, <2>1, <3>1, <3>3, <3>4
  <2>3. CASE afterToken[a] = 0
    <3>1. ToSet(timers') = T /\ ToSet(idleList') = {h \in I : h.data \notin {a}}
      BY <1>3, <1>16, <2>3, CancelledSet DEF AfterCancel, T, I
    <3>2. ASSUME NEW t \in T, t.data \in After
          PROVE  t \in T <=> t.data \in A \ {a}
      BY <1>2, <1>4, <2>3, <3>2
    <3>3. ASSUME NEW h \in I, h.data \in After
          PROVE  h \in {g \in I : g.data \notin {a}} <=> h.data \in A \ {a}
      BY <1>4, <3>3
    <3> HIDE DEF Goal
    <3> QED
      BY <1>5, <2>1, <3>1, <3>2, <3>3
  <2> QED
    BY <2>2, <2>3
<1>17. CASE AfterCleanupProc
  <2> DEFINE tokens == {afterToken[a] : a \in A} \ {0}
             S == {a \in A : afterToken[a] = 0}
             X == {t \in T : CInt(t.born) \in tokens}
  <2>1. /\ afters' = <<>> /\ UNCHANGED afterToken
        /\ timers' = Keep(timers, {i \in DOMAIN timers : CInt(timers[i].born) \notin tokens})
        /\ Tcl_CancelIdleCall(S)
    BY <1>17 DEF AfterCleanupProc, A
  <2>2. ToSet(afters') = {}
    BY <2>1 DEF ToSet
  <2>3. ToSet(idleList') = {h \in I : h.data \notin S}
    BY <1>3, <2>1, CancelledSet DEF I
  <2>4. ToSet(timers') = T \ X
    <3>1. {i \in DOMAIN timers : CInt(timers[i].born) \notin tokens}
            = {i \in DOMAIN timers : timers[i] \notin X}
      <4>1. \A i \in DOMAIN timers : timers[i] \in T
        BY DEF T, ToSet
      <4> HIDE DEF tokens
      <4> QED
        BY <4>1
    <3> HIDE DEF X, tokens
    <3>2. PICK r : r = timers'
      OBVIOUS
    <3>3. r = Keep(timers, {i \in DOMAIN timers : timers[i] \notin X})
      BY <2>1, <3>1, <3>2
    <3>4. ToSet(r) = ToSet(timers) \ X
      BY ONLY <1>3, <3>3, ThinnedSets
    <3> QED
      BY <3>2, <3>4 DEF T
  <2>5. ASSUME NEW t \in T, t.data \in After
        PROVE  t \in T \ X <=> t.data \in {}
    <3>1. CInt(t.born) \in tokens
      BY <1>2, <1>4, <2>5
    <3> QED
      BY <3>1
  <2>6. ASSUME NEW h \in I, h.data \in After
        PROVE  h \in {g \in I : g.data \notin S} <=> h.data \in {}
    BY <1>4, <2>6
  <2> HIDE DEF Goal, X, S
  <2> QED
    BY <1>5, <2>1, <2>2, <2>3, <2>4, <2>5, <2>6
<1>18. ASSUME NEW data, Start(data)
       PROVE  ToSet(afters') = A \ {data} /\ UNCHANGED <<afterToken, alloc>>
  BY <1>2, <1>3, <1>18, UnlistedSet DEF Start, A
<1>19. CASE RunTimer
  <2>1. /\ timers # <<>> /\ timers' = Tail(timers) /\ Start(timers[1].data) /\ UNCHANGED idleList
    BY <1>19 DEF RunTimer, Runnable, idleVars
  <2>2. timers[1] \in T
    BY <1>3, <2>1, ElementSets DEF T
  <2>3. ToSet(timers') = T \ {timers[1]}
    BY <1>3, <2>1, Tokens, ThinnedSets DEF T
  <2>4. ToSet(afters') = A \ {timers[1].data} /\ UNCHANGED <<afterToken, alloc>>
    BY <1>18, <2>1
  <2>5. ASSUME NEW t \in T, t.data \in After
        PROVE  t \in T \ {timers[1]} <=> t.data \in A \ {timers[1].data}
    BY <1>2, <1>4, <2>2, <2>5
  <2>6. ASSUME NEW h \in I, h.data \in After
        PROVE  h \in I <=> h.data \in A \ {timers[1].data}
    BY <1>2, <1>4, <2>2, <2>6
  <2>7. ToSet(idleList') = I /\ A \ {timers[1].data} \subseteq alloc'
    BY <1>4, <2>1, <2>4 DEF I
  <2> HIDE DEF Goal
  <2> QED
    BY <1>5, <2>3, <2>4, <2>5, <2>6, <2>7
<1>20. CASE RunIdle
  <2>1. /\ idleList # <<>> /\ idleList' = Tail(idleList) /\ Start(idleList[1].data)
        /\ UNCHANGED timers
    BY <1>20 DEF RunIdle, OldEnough, timerVars
  <2>2. idleList[1] \in I
    BY <1>3, <2>1, ElementSets DEF I
  <2>3. ToSet(idleList') = I \ {idleList[1]}
    BY <1>3, <2>1, Tokens, ThinnedSets DEF I
  <2>4. ToSet(afters') = A \ {idleList[1].data} /\ UNCHANGED <<afterToken, alloc>>
    BY <1>18, <2>1
  <2>5. ASSUME NEW t \in T, t.data \in After
        PROVE  t \in T <=> t.data \in A \ {idleList[1].data}
    BY <1>2, <1>4, <2>2, <2>5
  <2>6. ASSUME NEW h \in I, h.data \in After
        PROVE  h \in I \ {idleList[1]} <=> h.data \in A \ {idleList[1].data}
    BY <1>4, <2>2, <2>6
  <2>7. ToSet(timers') = T /\ A \ {idleList[1].data} \subseteq alloc'
    BY <1>4, <2>1, <2>4 DEF T
  <2> HIDE DEF Goal
  <2> QED
    BY <1>5, <2>3, <2>4, <2>5, <2>6, <2>7
<1>21. CASE CallbackReturns
  <2>1. /\ stack # <<>> /\ Top.kind # "loop" /\ alloc' = alloc \ {Top.run}
        /\ UNCHANGED <<timers, idleList, afters, afterToken>>
    BY <1>21 DEF CallbackReturns, AtCode, timerVars, idleVars
  <2>2. Top.run \notin A
    <3>1. Len(stack) \in DOMAIN stack /\ Top = stack[Len(stack)]
      BY <2>1 DEF TimerInv, TypeOK, Top, Last
    <3>2. Runs(Len(stack), Top.run)
      BY <2>1, <3>1 DEF Runs
    <3> QED
      BY <1>2, <3>1, <3>2 DEF RunningApart, A
  <2>3. A \subseteq alloc'
    BY <1>4, <2>1, <2>2
  <2>4. ASSUME NEW t \in T, t.data \in After
        PROVE  t \in T <=> t.data \in A
    BY <1>4, <2>4
  <2>5. ASSUME NEW h \in I, h.data \in After
        PROVE  h \in I <=> h.data \in A
    BY <1>4, <2>5
  <2>6. ToSet(timers') = T /\ ToSet(idleList') = I /\ ToSet(afters') = A
    BY <2>1 DEF T, I, A
  <2> HIDE DEF Goal
  <2> QED
    BY <1>5, <2>1, <2>3, <2>4, <2>5, <2>6
<1> HIDE DEF Goal
<1>22. CASE TimerExitProc
  BY <1>22 DEF TimerExitProc
<1>23. CASE UNCHANGED vars
  BY <1>6, <1>23 DEF vars, timerVars, idleVars
<1>24. CASE Application
  BY <1>10, <1>11, <1>12, <1>13, <1>14, <1>15, <1>16, <1>17, <1>22, <1>24 DEF Application
<1>25. ASSUME NEW flags, TimerCheckProc(flags)
       PROVE  UNCHANGED timers
  BY <1>25 DEF TimerCheckProc
<1>26. CASE LoopStep
  BY <1>6, <1>19, <1>20, <1>26
     DEF LoopStep, Wait, TimerPass, TimerPassEnds, NothingQueued, TclServiceIdle,
         IdlePassEnds, LoopEnds, timerVars, idleVars
<1> QED
  BY <1>6, <1>21, <1>23, <1>24, <1>25, <1>26
     DEF Next, Tick, Enter, Tcl_DoOneEvent, Tcl_ServiceAll, ServiceOther, WaitEnds,
         timerVars, idleVars

(* The frame of a pass that runs a callback, or has returned from one.     *)
LEMMA RunFrame ==
  ASSUME NEW f \in Frame, f.kind # "loop", NEW r \in Data \cup {None}
  PROVE  \E g \in Frame : g = [f EXCEPT !.run = r] /\ g.run = r
<1>1. CASE f.kind = "timer"
  <2>1. f \in [kind : {"timer"}, current : Nat, time : Time, run : Data \cup {None}]
    BY <1>1, FrameKinds
  <2>2. PICK g : g = [f EXCEPT !.run = r]
    OBVIOUS
  <2>3. g \in Frame /\ g.run = r
    BY <2>1, <2>2 DEF Frame
  <2> QED
    BY <2>2, <2>3
<1>2. CASE f.kind = "idle"
  <2>1. f \in [kind : {"idle"}, old : Nat, start : Nat, run : Data \cup {None}]
    BY <1>2, FrameKinds
  <2>2. PICK g : g = [f EXCEPT !.run = r]
    OBVIOUS
  <2>3. g \in Frame /\ g.run = r
    BY <2>1, <2>2 DEF Frame
  <2> QED
    BY <2>2, <2>3
<1> QED
  BY <1>1, <1>2, FrameKinds

(* A script runs after RunTimer or RunIdle, or because it ran.             *)
LEMMA RunsStep ==
  ASSUME TimerInv, [Next]_vars, NEW a \in After, NEW d \in DOMAIN stack', Runs(d, a)'
  PROVE  \/ d \in DOMAIN stack /\ Runs(d, a) /\ (CallbackReturns => d # Len(stack))
         \/ RunTimer /\ d = Len(stack) /\ a = timers[1].data
         \/ RunIdle /\ d = Len(stack) /\ a = idleList[1].data
<1>1. /\ stack \in Seq(Frame) /\ Len(stack) \in Nat /\ DOMAIN stack = 1..Len(stack)
      /\ stack'[d].kind # "loop" /\ stack'[d].run = a /\ a # None
      /\ stack # <<>> => Len(stack) \in DOMAIN stack /\ Top = stack[Len(stack)] /\ Top \in Frame
  BY TimerConstants, ElementOfSeq DEF TimerInv, TypeOK, Runs, Top, Last
<1>2. ASSUME NEW f \in Frame, stack # <<>>, SetTop(f)
      PROVE  /\ DOMAIN stack' = DOMAIN stack
             /\ stack'[d] = IF d = Len(stack) THEN f ELSE stack[d]
  <2>1. PICK r : r = Append(Front(stack), f)
    OBVIOUS
  <2>2. f \in Frame /\ stack \in Seq(Frame) /\ stack # <<>>
    BY <1>1, <1>2
  <2>3. /\ DOMAIN r = DOMAIN stack
        /\ \A e \in DOMAIN stack : r[e] = IF e = Len(stack) THEN f ELSE stack[e]
    BY ONLY <2>1, <2>2, SetLastElements
  <2>4. stack' = r
    BY <1>2, <2>1 DEF SetTop
  <2> QED
    BY <2>3, <2>4
<1>3. CASE RunTimer
  <2>1. /\ stack # <<>> /\ Top.kind # "loop" /\ timers # <<>> /\ timers \in Seq(Timer)
        /\ SetTop([Top EXCEPT !.run = timers[1].data])
    BY <1>3 DEF RunTimer, InTimerPass, Runnable, TimerInv, TypeOK
  <2>2. timers[1].data \in Data \cup {None}
    <3>1. timers[1] \in Timer
      BY <2>1, ElementOfSeq
    <3> QED
      BY <3>1 DEF Timer
  <2>3. PICK f \in Frame : SetTop(f) /\ f.run = timers[1].data
    BY <1>1, <2>1, <2>2, RunFrame
  <2>4. ~CallbackReturns \/ d # Len(stack) \/ a = timers[1].data
    BY <1>1, <1>2, <2>1, <2>3
  <2> QED
    BY <1>1, <1>2, <1>3, <2>1, <2>3 DEF Runs
<1>4. CASE RunIdle
  <2>1. /\ stack # <<>> /\ Top.kind # "loop" /\ idleList # <<>> /\ idleList \in Seq(Idle)
        /\ SetTop([Top EXCEPT !.run = idleList[1].data])
    BY <1>4 DEF RunIdle, InIdlePass, OldEnough, TimerInv, TypeOK
  <2>2. idleList[1].data \in Data \cup {None}
    <3>1. idleList[1] \in Idle
      BY <2>1, ElementOfSeq
    <3> QED
      BY <3>1 DEF Idle
  <2>3. PICK f \in Frame : SetTop(f) /\ f.run = idleList[1].data
    BY <1>1, <2>1, <2>2, RunFrame
  <2> QED
    BY <1>1, <1>2, <1>4, <2>1, <2>3 DEF Runs
<1>5. CASE CallbackReturns
  <2>1. stack # <<>> /\ Top.kind # "loop" /\ SetTop([Top EXCEPT !.run = None])
    BY <1>5 DEF CallbackReturns, AtCode
  <2>2. PICK f \in Frame : SetTop(f) /\ f.run = None
    <3>1. None \in Data \cup {None}
      OBVIOUS
    <3>2. Top \in Frame /\ Top.kind # "loop"
      BY <1>1, <2>1
    <3>3. PICK f \in Frame : f = [Top EXCEPT !.run = None] /\ f.run = None
      BY ONLY <3>1, <3>2, RunFrame
    <3> QED
      BY <2>1, <3>3
  <2> QED
    BY <1>1, <1>2, <2>1, <2>2 DEF Runs
<1>6. CASE ~RunTimer /\ ~RunIdle /\ ~CallbackReturns
  <2>1. StackKinds
    BY StackSteps DEF TimerInv
  <2>2. CASE StackSame
    BY <1>1, <1>6, <2>2 DEF StackSame, Runs
  <2>3. ASSUME NEW f \in Frame, StackPushed(f)
        PROVE  d \in DOMAIN stack /\ Runs(d, a)
    <3>1. /\ stack' = Append(stack, f)
          /\ f.kind # "loop" => f.run = None
      BY <2>3 DEF StackPushed
    <3>2. \/ d = Len(stack) + 1 /\ stack'[d] = f
          \/ d \in DOMAIN stack /\ stack'[d] = stack[d]
      BY <1>1, <3>1
    <3> QED
      BY <1>1, <3>1, <3>2 DEF Runs
  <2>4. ASSUME NEW f \in Frame, StackSet(f)
        PROVE  d \in DOMAIN stack /\ Runs(d, a)
    <3>1. stack # <<>> /\ SetTop(f) /\ f.kind = "loop"
      BY <1>6, <2>4 DEF StackSet, Continues
    <3> QED
      BY <1>1, <1>2, <3>1 DEF Runs
  <2>5. ASSUME NEW n \in 0..Len(stack), StackCut(n)
        PROVE  d \in DOMAIN stack /\ Runs(d, a)
    <3>1. PICK r : r = SubSeq(stack, 1, n)
      OBVIOUS
    <3>2. DOMAIN r = 1..n /\ \A e \in 1..n : e \in DOMAIN stack /\ r[e] = stack[e]
      BY ONLY <1>1, <2>5, <3>1, CutElements
    <3> QED
      BY <1>1, <2>5, <3>1, <3>2 DEF StackCut, Runs
  <2> QED
    BY <1>6, <2>1, <2>2, <2>3, <2>4, <2>5 DEF StackKinds
<1> QED
  BY <1>3, <1>4, <1>5, <1>6

(* A script that is off the list and allocated stays so until its callback *)
(* returns.                                                                *)
LEMMA RunningScripts ==
  ASSUME TimerInv, [Next]_vars, NEW a \in After, a \notin ToSet(afters), a \in alloc,
         CallbackReturns => a # Top.run
  PROVE  a \notin ToSet(afters') /\ a \in alloc'
<1>1. TypeOK /\ afters \in Seq(After)
  BY DEF TimerInv, TypeOK
<1>2. ASSUME UNCHANGED <<afters, alloc>>
      PROVE  a \notin ToSet(afters') /\ a \in alloc'
  BY <1>2
<1>3. ASSUME NEW b \in After, NEW token, AfterNew(b, token)
      PROVE  a \notin ToSet(afters') /\ a \in alloc'
  <2>1. <<b>> \o afters \in Seq(After)
    BY <1>1, <1>3
  <2>2. ToSet(afters') = ToSet(afters) \cup {b} /\ b \notin alloc /\ alloc' = alloc \cup {b}
    BY <1>1, <1>3, <2>1, ElementSets DEF AfterNew
  <2> QED
    BY <2>2
<1>4. ASSUME NEW b \in After, AfterCancel(b)
      PROVE  a \notin ToSet(afters') /\ a \in alloc'
  BY <1>1, <1>4, UnlistedSet DEF AfterCancel
<1>5. CASE AfterCleanupProc
  <2>1. ToSet(<<>>) = {}
    BY DEF ToSet
  <2> QED
    BY <1>5, <2>1 DEF AfterCleanupProc
<1>6. ASSUME NEW data, Start(data)
      PROVE  a \notin ToSet(afters') /\ a \in alloc'
  BY <1>1, <1>6, UnlistedSet DEF Start
<1>7. CASE RunTimer \/ RunIdle
  BY <1>6, <1>7 DEF RunTimer, RunIdle
<1>8. CASE CallbackReturns
  BY <1>8 DEF CallbackReturns
<1>9. CASE UNCHANGED vars
  BY <1>2, <1>9 DEF vars, afterVars
<1>10. CASE Application
  BY <1>2, <1>3, <1>4, <1>5, <1>10
     DEF Application, Tcl_CreateTimerHandler, Tcl_DeleteTimerHandler, DoWhenIdle, CancelIdleCall,
         AfterTimer, AfterIdle, TimerExitProc, afterVars
<1>11. CASE LoopStep
  BY <1>2, <1>7, <1>11
     DEF LoopStep, Wait, TimerPass, TimerPassEnds, NothingQueued, TclServiceIdle,
         IdlePassEnds, LoopEnds, afterVars
<1> QED
  BY <1>2, <1>8, <1>9, <1>10, <1>11
     DEF Next, Tick, Enter, Tcl_DoOneEvent, Tcl_ServiceAll, ServiceOther, WaitEnds, afterVars

(* Scripts that run stay apart from the list and from each other.          *)
LEMMA RunningStep ==
  ASSUME TimerInv, AfterPairs, RunningApart, [Next]_vars
  PROVE  RunningApart'
<1>1. /\ TypeOK /\ stack \in Seq(Frame) /\ timers \in Seq(Timer) /\ idleList \in Seq(Idle)
      /\ Len(stack) \in Nat /\ DOMAIN stack = 1..Len(stack)
      /\ stack # <<>> => Top = stack[Len(stack)]
  BY DEF TimerInv, TypeOK, Top, Last
<1>2. ASSUME NEW data, Start(data)
      PROVE  /\ UNCHANGED alloc
             /\ data \in After => ToSet(afters') = ToSet(afters) \ {data}
  BY <1>1, <1>2, UnlistedSet DEF Start
<1>3. ASSUME RunTimer, timers[1].data \in After
      PROVE  /\ timers[1].data \in ToSet(afters) /\ timers[1].data \in alloc'
             /\ timers[1].data \notin ToSet(afters')
  <2>1. ~exited /\ timers # <<>> /\ Start(timers[1].data)
    BY <1>3 DEF RunTimer, InTimerPass, Runnable
  <2>2. timers[1] \in ToSet(timers)
    BY <1>1, <2>1, ElementSets
  <2>3. timers[1].data \in ToSet(afters) /\ ToSet(afters) \subseteq alloc
    BY <1>3, <2>1, <2>2 DEF AfterPairs, Pairs
  <2> QED
    BY <1>2, <1>3, <2>1, <2>3
<1>4. ASSUME RunIdle, idleList[1].data \in After
      PROVE  /\ idleList[1].data \in ToSet(afters) /\ idleList[1].data \in alloc'
             /\ idleList[1].data \notin ToSet(afters')
  <2>1. ~exited /\ idleList # <<>> /\ Start(idleList[1].data)
    BY <1>4 DEF RunIdle, InIdlePass, OldEnough
  <2>2. idleList[1] \in ToSet(idleList)
    BY <1>1, <2>1, ElementSets
  <2>3. idleList[1].data \in ToSet(afters) /\ ToSet(afters) \subseteq alloc
    BY <1>4, <2>1, <2>2 DEF AfterPairs, Pairs
  <2> QED
    BY <1>2, <1>4, <2>1, <2>3
<1>5. ASSUME NEW a \in After, NEW d \in DOMAIN stack, Runs(d, a)
      PROVE  a \notin ToSet(afters) /\ a \in alloc
  BY <1>5 DEF RunningApart
<1>6. ASSUME CallbackReturns
      PROVE  stack # <<>> /\ Len(stack) \in DOMAIN stack /\ Runs(Len(stack), Top.run)
  BY <1>1, <1>6 DEF CallbackReturns, AtCode, Runs
<1>7. ASSUME NEW a \in After, NEW d \in DOMAIN stack', Runs(d, a)'
      PROVE  a \notin ToSet(afters') /\ a \in alloc'
  <2>1. CASE d \in DOMAIN stack /\ Runs(d, a) /\ (CallbackReturns => d # Len(stack))
    <3>1. CallbackReturns => a # Top.run
      BY <1>6, <2>1 DEF RunningApart
    <3> QED
      BY <1>5, <2>1, <3>1, RunningScripts
  <2> QED
    BY <1>3, <1>4, <1>7, <2>1, RunsStep
<1>8. ASSUME NEW a \in After, NEW d \in DOMAIN stack', NEW e \in DOMAIN stack',
             Runs(d, a)', Runs(e, a)'
      PROVE  d = e
  <2>1. /\ \/ d \in DOMAIN stack /\ Runs(d, a)
           \/ RunTimer /\ d = Len(stack) /\ a = timers[1].data
           \/ RunIdle /\ d = Len(stack) /\ a = idleList[1].data
        /\ \/ e \in DOMAIN stack /\ Runs(e, a)
           \/ RunTimer /\ e = Len(stack) /\ a = timers[1].data
           \/ RunIdle /\ e = Len(stack) /\ a = idleList[1].data
    BY <1>8, RunsStep
  <2>2. CASE d \in DOMAIN stack /\ Runs(d, a) /\ e \in DOMAIN stack /\ Runs(e, a)
    BY <2>2 DEF RunningApart
  <2>3. (RunTimer /\ a = timers[1].data) \/ (RunIdle /\ a = idleList[1].data) =>
           \A c \in DOMAIN stack : ~Runs(c, a)
    BY <1>3, <1>4, <1>5
  <2> QED
    BY <2>1, <2>2, <2>3
<1> QED
  BY <1>7, <1>8 DEF RunningApart, Runs

(* The invariant of scripts counts their callbacks.                        *)
LEMMA PairsCount ==
  ASSUME NumbersDiffer, NoNullToken, TimerInv, AfterPairs
  PROVE  AfterListedIffPending
<1> SUFFICES ASSUME ~exited, NEW a \in After
             PROVE  /\ Cardinality({i \in DOMAIN timers : timers[i].data = a})
                       + Cardinality({i \in DOMAIN idleList : idleList[i].data = a})
                         = IF a \in ToSet(afters) THEN 1 ELSE 0
                    /\ a \in ToSet(afters) => a \in alloc
  BY DEF AfterListedIffPending
<1> DEFINE TT == {i \in DOMAIN timers : timers[i].data = a}
           II == {i \in DOMAIN idleList : idleList[i].data = a}
<1>1. Pairs(ToSet(timers), ToSet(idleList), ToSet(afters), afterToken, alloc)
  BY DEF AfterPairs
<1>2. ASSUME NEW i \in DOMAIN timers, timers[i].data = a
      PROVE  a \in ToSet(afters) /\ afterToken[a] = CInt(timers[i].born) /\ afterToken[a] # 0
  <2>1. timers[i] \in ToSet(timers)
    BY DEF ToSet
  <2> QED
    BY <1>1, <1>2, <2>1, Tokens DEF Pairs
<1>3. ASSUME NEW i \in DOMAIN idleList, idleList[i].data = a
      PROVE  a \in ToSet(afters) /\ afterToken[a] = 0
  <2>1. idleList[i] \in ToSet(idleList)
    BY DEF ToSet
  <2> QED
    BY <1>1, <1>3, <2>1 DEF Pairs
<1>4. ASSUME NEW i \in DOMAIN timers, NEW j \in DOMAIN timers,
             timers[i].data = a, timers[j].data = a
      PROVE  i = j
  <2>1. CInt(timers[i].born) = CInt(timers[j].born)
    BY <1>2, <1>4
  <2> QED
    BY <2>1, Tokens
<1>5. ASSUME NEW i \in DOMAIN idleList, NEW j \in DOMAIN idleList,
             idleList[i].data = a, idleList[j].data = a
      PROVE  i = j
  <2>1. idleList[i] \in ToSet(idleList) /\ idleList[j] \in ToSet(idleList)
    BY DEF ToSet
  <2>2. idleList[i] = idleList[j]
    BY <1>1, <1>5, <2>1 DEF Pairs
  <2> QED
    BY <2>2, Tokens
<1>6. CASE a \notin ToSet(afters)
  <2>1. TT = {} /\ II = {}
    BY <1>2, <1>3, <1>6
  <2>2. Cardinality(TT) = 0 /\ Cardinality(II) = 0
    BY <2>1, FS_EmptySet
  <2> QED
    BY <1>6, <2>2
<1>7. CASE a \in ToSet(afters) /\ afterToken[a] = 0
  <2>1. TT = {}
    BY <1>2, <1>7
  <2>2. PICK i \in DOMAIN idleList : idleList[i].data = a
    <3>1. \E h \in ToSet(idleList) : h.data = a
      BY <1>1, <1>7 DEF Pairs
    <3> QED
      BY <3>1 DEF ToSet
  <2>3. II = {i}
    BY <1>5, <2>2
  <2>4. Cardinality(TT) = 0 /\ Cardinality(II) = 1 /\ a \in alloc
    BY <1>1, <1>7, <2>1, <2>3, FS_EmptySet, FS_Singleton DEF Pairs
  <2> QED
    BY <1>7, <2>4
<1>8. CASE a \in ToSet(afters) /\ afterToken[a] # 0
  <2>1. II = {}
    BY <1>3, <1>8
  <2>2. PICK i \in DOMAIN timers : timers[i].data = a
    <3>1. \E t \in ToSet(timers) : t.data = a
      BY <1>1, <1>8 DEF Pairs
    <3> QED
      BY <3>1 DEF ToSet
  <2>3. TT = {i}
    BY <1>4, <2>2
  <2>4. Cardinality(TT) = 1 /\ Cardinality(II) = 0 /\ a \in alloc
    BY <1>1, <1>8, <2>1, <2>3, FS_EmptySet, FS_Singleton DEF Pairs
  <2> QED
    BY <1>8, <2>4
<1> QED
  BY <1>6, <1>7, <1>8

(* An "after" script is listed exactly as long as its callback is pending, *)
(* and allocated as long as it is listed: after and after idle list it     *)
(* with a timer or an idle handler, after cancel, AfterProc and the        *)
(* deletion of the interpreter take both away, and the token says which of *)
(* the two lists to search.                                                *)
THEOREM ScriptsArePending ==
  ASSUME NumbersDiffer, NoNullToken
  PROVE  Spec => []AfterListedIffPending
<1>1. Init => AfterPairs /\ RunningApart
  <2> SUFFICES ASSUME Init PROVE AfterPairs /\ RunningApart
    OBVIOUS
  <2>1. ToSet(timers) = {} /\ ToSet(idleList) = {} /\ ToSet(afters) = {} /\ DOMAIN stack = {}
    BY DEF Init, ToSet
  <2> QED
    BY <2>1 DEF AfterPairs, Pairs, RunningApart
<1>2. TimerInv /\ AfterPairs /\ RunningApart /\ [Next]_vars => AfterPairs' /\ RunningApart'
  BY AfterPairsStep, RunningStep
<1>3. TimerInv /\ AfterPairs => AfterListedIffPending
  BY PairsCount
<1> QED
  BY <1>1, <1>2, <1>3, TimerInvariance, PTL DEF Spec

==============================================================================
