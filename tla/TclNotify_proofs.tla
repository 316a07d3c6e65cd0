-------------------------- MODULE TclNotify_proofs --------------------------
(***************************************************************************)
(* Proofs about the generic notifier, TclNotify: the chain of events and   *)
(* the pointers beside it, the order of service, the counts set aside, the *)
(* nesting of event loops and the wake-up of a waiting thread.             *)
(***************************************************************************)
EXTENDS TclNotify, FiniteSetTheorems, WellFoundedInduction, TLAPS

(* A set of naturals that is not empty has a least element.                *)
LEMMA LeastElement ==
    ASSUME NEW S \in SUBSET Nat, S # {}
    PROVE  \E n \in S : \A m \in S : n <= m
<1>1. PICK n \in S : \A m \in S : <<m, n>> \notin OpToRel(<, Nat)
  BY WFMin, NatLessThanWellFounded, Zenon
<1>2. \A m \in S : ~(m < n)
  BY <1>1, Zenon DEF OpToRel
<1>3. n \in Nat /\ \A m \in S : m \in Nat
  OBVIOUS
<1> QED
  BY <1>2, <1>3

(* Unlinking the i-th element of a list leaves the others, in their order: *)
(* what Tcl_ServiceEvent does to the event queue.                          *)
LEMMA RemoveAtElements ==
    ASSUME NEW S, NEW s \in Seq(S), NEW i \in DOMAIN s
    PROVE  /\ RemoveAt(s, i) \in Seq(S)
           /\ DOMAIN RemoveAt(s, i) = 1..(Len(s) - 1)
           /\ \A j \in 1..(Len(s) - 1) :
                 RemoveAt(s, i)[j] = IF j < i THEN s[j] ELSE s[j + 1]
<1> DEFINE a == SubSeq(s, 1, i - 1)
           b == SubSeq(s, i + 1, Len(s))
<1>1. i \in 1..Len(s) /\ Len(s) \in Nat
  OBVIOUS
<1>2. /\ a \in Seq(S) /\ Len(a) = i - 1
      /\ \A j \in 1..(i - 1) : a[j] = s[j]
  BY <1>1
<1>3. /\ b \in Seq(S) /\ Len(b) = Len(s) - i
      /\ \A j \in 1..(Len(s) - i) : b[j] = s[i + j]
  BY <1>1
<1>4. RemoveAt(s, i) = a \o b
  BY DEF RemoveAt
<1> HIDE DEF a, b
<1>5. /\ a \o b \in Seq(S) /\ Len(a \o b) = Len(s) - 1
  BY <1>1, <1>2, <1>3
<1>6. \A j \in 1..(Len(s) - 1) :
         (a \o b)[j] = IF j < i THEN s[j] ELSE s[j + 1]
  <2> TAKE j \in 1..(Len(s) - 1)
  <2>1. CASE j < i
    BY <1>1, <1>2, <1>3, <2>1
  <2>2. CASE j >= i
    <3>1. (a \o b)[j] = b[j - (i - 1)]
      BY <1>1, <1>2, <1>3, <2>2
    <3>2. b[j - (i - 1)] = s[i + (j - (i - 1))]
      BY <1>1, <1>3, <2>2
    <3> QED BY <3>1, <3>2, <2>2, <1>1
  <2>3. j < i \/ j >= i
    BY <1>1
  <2> QED BY <2>1, <2>2, <2>3
<1> QED BY <1>1, <1>4, <1>5, <1>6

(* r is s with e linked in as the k-th element.                            *)
Inserted(r, s, k, e) ==
    /\ DOMAIN r = 1..(Len(s) + 1)
    /\ \A j \in 1..(Len(s) + 1) :
          r[j] = IF j < k THEN s[j] ELSE IF j = k THEN e ELSE s[j - 1]

(* r is s without its i-th element.                                        *)
Removed(r, s, i) ==
    /\ DOMAIN r = 1..(Len(s) - 1)
    /\ \A j \in 1..(Len(s) - 1) : r[j] = IF j < i THEN s[j] ELSE s[j + 1]

(* Linking an event in, as QueueEvent does at the marker.                  *)
LEMMA InsertAtElements ==
  ASSUME NEW S, NEW s \in Seq(S), NEW k \in 1..(Len(s) + 1), NEW e \in S
  PROVE  InsertAt(s, k, e) \in Seq(S) /\ Inserted(InsertAt(s, k, e), s, k, e)
<1> DEFINE a == SubSeq(s, 1, k - 1)
           b == SubSeq(s, k, Len(s))
<1>1. Len(s) \in Nat /\ k \in Int /\ 1 <= k /\ k <= Len(s) + 1
  OBVIOUS
<1>2. /\ a \in Seq(S) /\ Len(a) = k - 1
      /\ \A j \in 1..(k - 1) : a[j] = s[j]
  BY <1>1
<1>3. /\ b \in Seq(S) /\ Len(b) = Len(s) - k + 1
      /\ \A j \in 1..(Len(s) - k + 1) : b[j] = s[k + j - 1]
  BY <1>1
<1>4. InsertAt(s, k, e) = (a \o <<e>>) \o b
  BY DEF InsertAt
<1> HIDE DEF a, b
<1>5. /\ a \o <<e>> \in Seq(S) /\ Len(a \o <<e>>) = k
      /\ \A j \in 1..k : (a \o <<e>>)[j] = IF j < k THEN s[j] ELSE e
  BY <1>1, <1>2
<1> DEFINE c == a \o <<e>>
<1> HIDE DEF c
<1>6. /\ c \in Seq(S) /\ Len(c) = k
      /\ \A j \in 1..k : c[j] = IF j < k THEN s[j] ELSE e
  BY <1>5 DEF c
<1>7. c \o b \in Seq(S) /\ Len(c \o b) = Len(s) + 1
  <2>1. c \in Seq(S) /\ b \in Seq(S)
    BY <1>3, <1>6
  <2>2. c \o b \in Seq(S) /\ Len(c \o b) = Len(c) + Len(b)
    BY <2>1
  <2> QED
    BY <1>1, <1>3, <1>6, <2>2
<1>8. ASSUME NEW j \in 1..(Len(s) + 1)
      PROVE  (c \o b)[j] = IF j < k THEN s[j] ELSE IF j = k THEN e ELSE s[j - 1]
  <2>0. j \in Int /\ 1 <= j /\ j <= Len(s) + 1
    BY <1>1
  <2>1. CASE j <= k
    <3>1. (c \o b)[j] = c[j] /\ j \in 1..k
      BY <1>1, <1>3, <1>6, <2>0, <2>1
    <3>2. c[j] = IF j < k THEN s[j] ELSE e
      BY <1>6, <3>1
    <3> QED
      BY <1>1, <2>0, <2>1, <3>1, <3>2
  <2>2. CASE j > k
    <3>1. (c \o b)[j] = b[j - k]
      BY <1>1, <1>3, <1>6, <2>2
    <3>2. b[j - k] = s[k + (j - k) - 1]
      BY <1>1, <1>3, <2>2
    <3> QED
      BY <1>1, <2>2, <3>1, <3>2
  <2>3. j <= k \/ j > k
    BY <1>1, <2>0
  <2> QED
    BY <2>1, <2>2, <2>3
<1>9. InsertAt(s, k, e) = c \o b
  BY <1>4 DEF c
<1> QED
  BY <1>7, <1>8, <1>9 DEF Inserted

(* Linking an event in at the front, as TCL_QUEUE_HEAD does.               *)
LEMMA PushElements ==
  ASSUME NEW S, NEW s \in Seq(S), NEW e \in S
  PROVE  <<e>> \o s \in Seq(S) /\ Inserted(<<e>> \o s, s, 1, e)
<1>1. /\ <<e>> \o s \in Seq(S) /\ Len(<<e>> \o s) = Len(s) + 1 /\ Len(s) \in Nat
      /\ \A j \in 1..(Len(s) + 1) : (<<e>> \o s)[j] = IF j = 1 THEN e ELSE s[j - 1]
  OBVIOUS
<1> QED
  BY <1>1 DEF Inserted

(* Linking an event in at the end, as TCL_QUEUE_TAIL does.                 *)
LEMMA AppendElements ==
  ASSUME NEW S, NEW s \in Seq(S), NEW e \in S
  PROVE  Append(s, e) \in Seq(S) /\ Inserted(Append(s, e), s, Len(s) + 1, e)
<1>1. /\ Append(s, e) \in Seq(S) /\ Len(Append(s, e)) = Len(s) + 1 /\ Len(s) \in Nat
      /\ \A j \in 1..(Len(s) + 1) :
            Append(s, e)[j] = IF j = Len(s) + 1 THEN e ELSE s[j]
  OBVIOUS
<1> QED
  BY <1>1 DEF Inserted

(* Leaving the innermost event loop.                                       *)
LEMMA FrontElements ==
  ASSUME NEW S, NEW s \in Seq(S), s # <<>>
  PROVE  /\ Front(s) \in Seq(S) /\ Len(Front(s)) = Len(s) - 1
         /\ Len(s) \in Nat \ {0} /\ Last(s) = s[Len(s)] /\ Last(s) \in S
         /\ \A d \in 1..(Len(s) - 1) : Front(s)[d] = s[d]
<1>1. Len(s) \in Nat \ {0} /\ s[Len(s)] \in S
  OBVIOUS
<1>2. PICK m \in Nat : m = Len(s) - 1
  BY <1>1
<1>3. /\ SubSeq(s, 1, m) \in Seq(S) /\ Len(SubSeq(s, 1, m)) = m
      /\ \A d \in 1..m : SubSeq(s, 1, m)[d] = s[d]
  BY <1>1, <1>2
<1> QED
  BY <1>1, <1>2, <1>3 DEF Front, Last

(* Moving the innermost event loop on.                                     *)
LEMMA TopElements ==
  ASSUME NEW S, NEW s \in Seq(S), s # <<>>, NEW f \in S
  PROVE  /\ [s EXCEPT ![Len(s)] = f] \in Seq(S)
         /\ Len([s EXCEPT ![Len(s)] = f]) = Len(s)
         /\ \A d \in 1..Len(s) :
               [s EXCEPT ![Len(s)] = f][d] = IF d = Len(s) THEN f ELSE s[d]
  OBVIOUS

(* The elements of r are e, the k-th, and those of s, where they were or   *)
(* one place further.                                                      *)
OnePlaceOn(r, s, k, e) ==
    /\ k \in DOMAIN r /\ r[k] = e
    /\ \A j \in DOMAIN r : j # k =>
          \E i \in DOMAIN s : r[j] = s[i] /\ (j < k => i = j) /\ (j > k => i = j - 1)
    /\ \A i \in DOMAIN s :
          \E j \in DOMAIN r : j # k /\ r[j] = s[i] /\ (i < k => j = i) /\ (i >= k => j = i + 1)

(* The elements of r are those of s but the i-th, where they were or one   *)
(* place back.                                                             *)
OnePlaceBack(r, s, i) ==
    /\ \A j \in DOMAIN r :
          \E a \in DOMAIN s : a # i /\ r[j] = s[a] /\ (j < i => a = j) /\ (j >= i => a = j + 1)
    /\ \A a \in DOMAIN s : a # i =>
          \E j \in DOMAIN r : r[j] = s[a] /\ (a < i => j = a) /\ (a > i => j = a - 1)

(* Where the elements of a list are after one was linked in ...            *)
LEMMA InsertedPlaces ==
  ASSUME NEW S, NEW s \in Seq(S), NEW k \in 1..(Len(s) + 1), NEW e, NEW r,
         Inserted(r, s, k, e)
  PROVE  OnePlaceOn(r, s, k, e)
<1>1. Len(s) \in Nat /\ DOMAIN s = 1..Len(s) /\ k \in Int
  OBVIOUS
<1>2. /\ DOMAIN r = 1..(Len(s) + 1)
      /\ \A j \in 1..(Len(s) + 1) :
            r[j] = IF j < k THEN s[j] ELSE IF j = k THEN e ELSE s[j - 1]
  BY DEF Inserted
<1>3. k \in DOMAIN r /\ r[k] = e
  BY <1>1, <1>2
<1>4. ASSUME NEW j \in DOMAIN r, j # k
      PROVE  \E i \in DOMAIN s : r[j] = s[i] /\ (j < k => i = j) /\ (j > k => i = j - 1)
  <2>1. CASE j < k
    BY <1>1, <1>2, <2>1
  <2>2. CASE j > k
    <3>1. j - 1 \in DOMAIN s /\ r[j] = s[j - 1]
      BY <1>1, <1>2, <2>2
    <3> QED
      BY <1>1, <1>2, <2>2, <3>1
  <2> QED
    BY <1>1, <1>2, <1>4, <2>1, <2>2
<1>5. ASSUME NEW i \in DOMAIN s
      PROVE  \E j \in DOMAIN r : j # k /\ r[j] = s[i] /\ (i < k => j = i) /\ (i >= k => j = i + 1)
  <2>1. CASE i < k
    BY <1>1, <1>2, <2>1
  <2>2. CASE i >= k
    <3>1. i + 1 \in DOMAIN r /\ r[i + 1] = s[i] /\ i + 1 # k
      BY <1>1, <1>2, <2>2
    <3> QED
      BY <1>1, <1>2, <2>2, <3>1
  <2> QED
    BY <1>1, <2>1, <2>2
<1> QED
  BY <1>3, <1>4, <1>5 DEF OnePlaceOn

(* ... and after one was unlinked.                                         *)
LEMMA RemovedPlaces ==
  ASSUME NEW S, NEW s \in Seq(S), NEW i \in DOMAIN s, NEW r, Removed(r, s, i)
  PROVE  OnePlaceBack(r, s, i)
<1>1. Len(s) \in Nat /\ DOMAIN s = 1..Len(s) /\ i \in 1..Len(s)
  OBVIOUS
<1>2. /\ DOMAIN r = 1..(Len(s) - 1)
      /\ \A j \in 1..(Len(s) - 1) : r[j] = IF j < i THEN s[j] ELSE s[j + 1]
  BY DEF Removed
<1>3. ASSUME NEW j \in DOMAIN r
      PROVE  \E a \in DOMAIN s : a # i /\ r[j] = s[a] /\ (j < i => a = j) /\ (j >= i => a = j + 1)
  <2>1. CASE j < i
    BY <1>1, <1>2, <2>1
  <2>2. CASE j >= i
    <3>1. j + 1 \in DOMAIN s /\ r[j] = s[j + 1] /\ j + 1 # i
      BY <1>1, <1>2, <2>2
    <3> QED
      BY <1>1, <1>2, <2>2, <3>1
  <2> QED
    BY <1>1, <1>2, <2>1, <2>2
<1>4. ASSUME NEW a \in DOMAIN s, a # i
      PROVE  \E j \in DOMAIN r : r[j] = s[a] /\ (a < i => j = a) /\ (a > i => j = a - 1)
  <2>1. CASE a < i
    BY <1>1, <1>2, <2>1
  <2>2. CASE a > i
    <3>1. a - 1 \in DOMAIN r /\ r[a - 1] = s[a]
      BY <1>1, <1>2, <2>2
    <3> QED
      BY <1>1, <1>2, <2>2, <3>1
  <2> QED
    BY <1>1, <1>4, <2>1, <2>2
<1> QED
  BY <1>3, <1>4 DEF OnePlaceBack

Live(t) == finalizing[t] = "no"
Queued(t) == {queue[t][i] : i \in DOMAIN queue[t]}

(* An event is queued in one thread only.                                  *)
QueuesApart ==
    \A t, u \in Thread : Live(t) /\ Live(u) /\ t # u => Queued(t) \cap Queued(u) = {}

(* Everything up to the marker was not queued at the tail, nothing behind  *)
(* it was queued at the mark.                                              *)
MarkDivides ==
    \A t \in Thread : Live(t) =>
       LET q == queue[t] IN
       /\ markerEventPtr[t] = None => \A i \in DOMAIN q : position[q[i]] # "mark"
       /\ \A m, i \in DOMAIN q : q[m] = markerEventPtr[t] =>
             position[q[i]] # IF i <= m THEN "tail" ELSE "mark"

(* The history is an order of the allocated events.                        *)
ArrivalIsOrder ==
    /\ arrival \subseteq alloc \X alloc
    /\ \A a, b \in alloc : <<a, b>> \in arrival => a # b /\ <<b, a>> \notin arrival

(* A thread is on the list of notifiers until it is finalised, which it is *)
(* not in the middle of a Tcl_DeleteEvents.                                *)
LifeCycle ==
    \A t \in Thread :
       /\ deleting[t] # None => Live(t)
       /\ t \in registered <=> finalizing[t] # "done"

(* Only the innermost loop of a thread is at a stage of its own: the other *)
(* ones run an event handler, with the count set aside, or idle handlers.  *)
Suspended(f) == f.ev # None \/ f.at \in {"idle", "allidle"}
FramesNest ==
    \A t \in Thread :
       /\ ~Live(t) => stack[t] = <<>>
       /\ \A d \in DOMAIN stack[t] :
             LET f == stack[t][d] IN
             /\ d < Len(stack[t]) => Suspended(f)
             /\ f.ev # None => f.at \in {"svc1", "svc2", "all"}
             /\ f.ev = None => f.saved = 0

(* Each running handler has an event of its own in the queue, and those    *)
(* are the events without a proc.                                          *)
BusyEvents(t) == {stack[t][d].ev : d \in DOMAIN stack[t]} \ {None}
HandlersOwnEvents ==
    \A t \in Thread : Live(t) =>
       /\ \A c, d \in DOMAIN stack[t] :
             stack[t][c].ev # None /\ stack[t][c].ev = stack[t][d].ev => c = d
       /\ BusyEvents(t) = inService \cap Queued(t)

(* The mode a loop restores is TCL_SERVICE_NONE unless it is the outermost *)
(* one, and Tcl_ServiceAll is.                                             *)
ModesNest ==
    \A t \in Thread :
       /\ Live(t) => (serviceMode[t] = "none" <=> stack[t] # <<>>)
       /\ \A d \in DOMAIN stack[t] :
             /\ stack[t][d].oldMode = IF d = 1 THEN "all" ELSE "none"
             /\ stack[t][d].at \in {"allcheck", "all", "allidle"} => d = 1

(* The events a thread has left to service are those counted since the     *)
(* innermost handler was entered and the ones outer loops left to it.      *)
Left(t) == Cardinality(Queued(t) \ inService)
Busy(f) == IF f.ev = None THEN 0 ELSE 1
LeftOver(t, v) ==
    /\ v[0] = 0
    /\ \A d \in DOMAIN stack[t] : v[d] = v[d - 1] + (stack[t][d].saved - Busy(stack[t][d]))
    /\ Left(t) = eventCount[t] + v[Len(stack[t])]
LeftIsCounted ==
    \A t \in Thread : Live(t) =>
       \E v \in [0..Len(stack[t]) -> Nat] : LeftOver(t, v)

(* What a loop that may wait goes by: it services every type, and when it  *)
(* has nothing left to service, or an alert is on its way.                 *)
Waiting(t) == stack[t] # <<>> /\ Top(t).ev = None /\ Top(t).at \in {"setup", "blocked"}
LoopsTakeAll ==
    \A t \in Thread : \A d \in DOMAIN stack[t] :
       LET f == stack[t][d] IN
       f.at # "idle" \/ f.ev # None \/ ~f.dontWait => f.flags = Type
WaitsForAlert ==
    \A t \in Thread : Live(t) /\ Waiting(t) =>
       \/ eventReady[t]
       \/ \E p \in Poster : owes[p] = t
       \/ Queued(t) \subseteq inService


------------------------------------------------------------------------------
(* How a step changes the stack of event loops.                            *)

(* A frame with another event and count, and at another stage.             *)
WithEvent(f, e, n) == [f EXCEPT !.ev = e, !.saved = n]
At(f, s) == [f EXCEPT !.at = s]
TopWithEvent(s, e, n) == [s EXCEPT ![Len(s)].ev = e, ![Len(s)].saved = n]
TopWithStageAt(s, e, n, x) ==
    [s EXCEPT ![Len(s)].ev = e, ![Len(s)].saved = n, ![Len(s)].at = x]

(* The stack of t is entered with frame f, left, or its innermost frame    *)
(* becomes f; those of the other threads stay.                             *)
Entered(t, f) ==
    /\ stack' \in [Thread -> Seq(Frame)]
    /\ \A u \in Thread : u # t => stack'[u] = stack[u]
    /\ stack'[t] # <<>> /\ Len(stack'[t]) = Len(stack[t]) + 1
    /\ DOMAIN stack'[t] = 1..(Len(stack[t]) + 1)
    /\ stack'[t][Len(stack[t]) + 1] = f
    /\ \A d \in 1..Len(stack[t]) : stack'[t][d] = stack[t][d]
Exited(t) ==
    /\ stack' \in [Thread -> Seq(Frame)]
    /\ \A u \in Thread : u # t => stack'[u] = stack[u]
    /\ Len(stack'[t]) = Len(stack[t]) - 1
    /\ DOMAIN stack'[t] = 1..(Len(stack[t]) - 1)
    /\ \A d \in 1..(Len(stack[t]) - 1) : stack'[t][d] = stack[t][d]
Moved(t, f) ==
    /\ stack' \in [Thread -> Seq(Frame)]
    /\ \A u \in Thread : u # t => stack'[u] = stack[u]
    /\ stack'[t] # <<>> /\ Len(stack'[t]) = Len(stack[t])
    /\ DOMAIN stack'[t] = 1..Len(stack[t])
    /\ \A d \in 1..Len(stack[t]) :
          stack'[t][d] = IF d = Len(stack[t]) THEN f ELSE stack[t][d]

(* The innermost frame is one of the stack.                                *)
LEMMA TopIsFrame ==
  ASSUME TypeOK, NEW t \in Thread, stack[t] # <<>>
  PROVE  /\ Top(t) \in Frame /\ Top(t) = stack[t][Len(stack[t])]
         /\ DOMAIN stack[t] = 1..Len(stack[t]) /\ Len(stack[t]) \in Nat \ {0}
<1>1. stack[t] \in Seq(Frame)
  BY Zenon DEF TypeOK
<1> HIDE DEF Frame
<1>2. /\ Len(stack[t]) \in Nat \ {0} /\ Last(stack[t]) = stack[t][Len(stack[t])]
      /\ Last(stack[t]) \in Frame
  BY <1>1, FrontElements, Zenon
<1>3. DOMAIN stack[t] = 1..Len(stack[t])
  BY <1>1
<1> QED
  BY <1>2, <1>3 DEF Top

(* Tcl_DoOneEvent and Tcl_ServiceAll start.                                *)
LEMMA PushEnters ==
  ASSUME TypeOK, NEW t \in Thread, NEW s, NEW flags, NEW w, Push(t, s, flags, w),
         NEW f \in Frame,
         f = [at |-> s, flags |-> flags, dontWait |-> w,
              oldMode |-> serviceMode[t], ev |-> None, saved |-> 0]
  PROVE  Entered(t, f)
<1>1. stack \in [Thread -> Seq(Frame)]
  BY Zenon DEF TypeOK
<1>2. stack' = [stack EXCEPT ![t] = Append(stack[t], f)]
  BY DEF Push
<1>3. stack[t] \in Seq(Frame)
  BY <1>1
<1> HIDE DEF Frame
<1>4. /\ Append(stack[t], f) \in Seq(Frame) /\ Append(stack[t], f) # <<>>
      /\ Inserted(Append(stack[t], f), stack[t], Len(stack[t]) + 1, f)
      /\ Len(Append(stack[t], f)) = Len(stack[t]) + 1
      /\ Len(stack[t]) \in Nat
  BY <1>3, AppendElements
<1> QED
  BY <1>1, <1>2, <1>4 DEF Entered, Inserted

(* The call of the innermost loop returns.                                 *)
LEMMA PopExits ==
  ASSUME TypeOK, NEW t \in Thread, stack[t] # <<>>,
         stack' = [stack EXCEPT ![t] = Front(stack[t])]
  PROVE  Exited(t)
<1>1. stack \in [Thread -> Seq(Frame)]
  BY Zenon DEF TypeOK
<1>3. stack[t] \in Seq(Frame)
  BY <1>1
<1> HIDE DEF Frame
<1>4. /\ Front(stack[t]) \in Seq(Frame) /\ Len(Front(stack[t])) = Len(stack[t]) - 1
      /\ \A d \in 1..(Len(stack[t]) - 1) : Front(stack[t])[d] = stack[t][d]
      /\ DOMAIN Front(stack[t]) = 1..(Len(stack[t]) - 1)
  <2>1. /\ Front(stack[t]) \in Seq(Frame) /\ Len(Front(stack[t])) = Len(stack[t]) - 1
        /\ \A d \in 1..(Len(stack[t]) - 1) : Front(stack[t])[d] = stack[t][d]
    BY <1>3, FrontElements, Zenon
  <2>2. DOMAIN Front(stack[t]) = 1..Len(Front(stack[t]))
    BY <2>1
  <2> QED
    BY <2>1, <2>2
<1> QED
  BY <1>1, <1>4 DEF Exited

(* The innermost loop goes on.                                             *)
LEMMA TopMoves ==
  ASSUME TypeOK, NEW t \in Thread, stack[t] # <<>>, NEW f \in Frame,
         stack' = [stack EXCEPT ![t] = [stack[t] EXCEPT ![Len(stack[t])] = f]]
  PROVE  Moved(t, f)
<1>1. stack \in [Thread -> Seq(Frame)]
  BY Zenon DEF TypeOK
<1>3. stack[t] \in Seq(Frame)
  BY <1>1
<1> HIDE DEF Frame
<1> DEFINE r == [stack[t] EXCEPT ![Len(stack[t])] = f]
<1>4. /\ r \in Seq(Frame) /\ Len(r) = Len(stack[t]) /\ r # <<>>
      /\ \A d \in 1..Len(stack[t]) : r[d] = IF d = Len(stack[t]) THEN f ELSE stack[t][d]
      /\ DOMAIN r = 1..Len(stack[t])
  BY <1>3, TopElements
<1> HIDE DEF r
<1>5. stack' = [stack EXCEPT ![t] = r]
  BY DEF r
<1> QED
  BY <1>1, <1>4, <1>5, Zenon DEF Moved

(* A stage ends.                                                           *)
LEMMA GoToMoves ==
  ASSUME TypeOK, NEW t \in Thread, stack[t] # <<>>,
         NEW s \in {"svc1", "setup", "blocked", "check", "svc2", "idle",
                    "allcheck", "all", "allidle"},
         GoTo(t, s)
  PROVE  At(Top(t), s) \in Frame /\ Moved(t, At(Top(t), s))
<1>1. [Top(t) EXCEPT !.at = s] \in Frame
  BY TopIsFrame DEF Frame
<1>2. stack' = [stack EXCEPT ![t] =
                  [stack[t] EXCEPT ![Len(stack[t])] = [Top(t) EXCEPT !.at = s]]]
  BY TopIsFrame DEF GoTo
<1> HIDE DEF Frame
<1>3. PICK f \in Frame : f = [Top(t) EXCEPT !.at = s]
  BY <1>1
<1>4. Moved(t, f)
  BY <1>2, <1>3, TopMoves
<1> QED
  BY <1>3, <1>4 DEF At

------------------------------------------------------------------------------
(* How a step changes the queues.                                          *)

(* Nothing of the queues or the events changes.                            *)
QueuesStay == UNCHANGED <<queue, lastEventPtr, markerEventPtr, arrival, alloc, position>>

(* The queue of t changes, and none of the others.                         *)
OthersStay(t) ==
    \A u \in Thread : u # t =>
       UNCHANGED <<queue[u], lastEventPtr[u], markerEventPtr[u], eventCount[u]>>

(* Queueing allocates the event and stays in the types.                    *)
LEMMA QueueEventTypes ==
  ASSUME TypeOK, NEW t \in Thread, NEW e \in Event,
         NEW pos \in {"tail", "head", "mark"}, QueueEvent(t, e, pos)
  PROVE  /\ queue' \in [Thread -> Seq(Event)]
         /\ lastEventPtr' \in [Thread -> Event \cup {None}]
         /\ markerEventPtr' \in [Thread -> Event \cup {None}]
         /\ eventCount' \in [Thread -> Int] /\ eventCount'[t] = eventCount[t] + 1
         /\ e \notin alloc /\ alloc' = alloc \cup {e} /\ alloc' \subseteq Event
         /\ arrival' = arrival \cup (alloc \X {e}) /\ arrival' \subseteq Event \X Event
         /\ position' \in [Event -> {"tail", "head", "mark"}]
         /\ position' = [position EXCEPT ![e] = pos]
         /\ OthersStay(t)
<1>1. /\ queue \in [Thread -> Seq(Event)] /\ eventCount \in [Thread -> Int]
      /\ lastEventPtr \in [Thread -> Event \cup {None}]
      /\ markerEventPtr \in [Thread -> Event \cup {None}]
      /\ alloc \subseteq Event /\ arrival \subseteq Event \X Event
      /\ position \in [Event -> {"tail", "head", "mark"}]
  BY Zenon DEF TypeOK
<1>2. queue[t] \in Seq(Event)
  BY <1>1
<1>3. ASSUME QueueTail(t, e)
      PROVE  /\ \E r \in Seq(Event) : queue' = [queue EXCEPT ![t] = r]
             /\ lastEventPtr' = [lastEventPtr EXCEPT ![t] = e] /\ UNCHANGED markerEventPtr
  <2>1. \A i \in DOMAIN queue[t] : Append(SubSeq(queue[t], 1, i), e) \in Seq(Event)
    BY <1>2
  <2>2. <<e>> \in Seq(Event)
    OBVIOUS
  <2> QED
    BY <1>3, <2>1, <2>2 DEF QueueTail
<1>4. ASSUME QueueHead(t, e)
      PROVE  /\ \E r \in Seq(Event) : queue' = [queue EXCEPT ![t] = r]
             /\ lastEventPtr' = [lastEventPtr EXCEPT ![t] = e] \/ UNCHANGED lastEventPtr
             /\ UNCHANGED markerEventPtr
  <2>1. <<e>> \o queue[t] \in Seq(Event)
    BY <1>2
  <2> QED
    BY <1>4, <2>1 DEF QueueHead
<1>5. ASSUME QueueMark(t, e)
      PROVE  /\ \E r \in Seq(Event) : queue' = [queue EXCEPT ![t] = r]
             /\ lastEventPtr' = [lastEventPtr EXCEPT ![t] = e] \/ UNCHANGED lastEventPtr
             /\ markerEventPtr' = [markerEventPtr EXCEPT ![t] = e]
  <2>1. <<e>> \o queue[t] \in Seq(Event)
    BY <1>2
  <2>2. \A i \in DOMAIN queue[t] : InsertAt(queue[t], i + 1, e) \in Seq(Event)
    <3> TAKE i \in DOMAIN queue[t]
    <3>1. i + 1 \in 1..(Len(queue[t]) + 1)
      BY <1>2
    <3> QED
      BY <1>2, <3>1, InsertAtElements
  <2>3. queue' = queue => queue' = [queue EXCEPT ![t] = queue[t]]
    BY <1>1
  <2> QED
    BY <1>2, <1>5, <2>1, <2>2, <2>3 DEF QueueMark
<1>6. PICK r \in Seq(Event) :
        /\ queue' = [queue EXCEPT ![t] = r]
        /\ lastEventPtr' = [lastEventPtr EXCEPT ![t] = e] \/ UNCHANGED lastEventPtr
        /\ markerEventPtr' = [markerEventPtr EXCEPT ![t] = e] \/ UNCHANGED markerEventPtr
  BY <1>3, <1>4, <1>5 DEF QueueEvent
<1>7. /\ eventCount' = [eventCount EXCEPT ![t] = @ + 1]
      /\ e \notin alloc /\ alloc' = alloc \cup {e}
      /\ arrival' = arrival \cup (alloc \X {e})
      /\ position' = [position EXCEPT ![e] = pos]
  BY DEF QueueEvent
<1>8. /\ queue' \in [Thread -> Seq(Event)]
      /\ lastEventPtr' \in [Thread -> Event \cup {None}]
      /\ markerEventPtr' \in [Thread -> Event \cup {None}]
      /\ \A u \in Thread : u # t =>
            UNCHANGED <<queue[u], lastEventPtr[u], markerEventPtr[u]>>
  BY <1>1, <1>6
<1>9. /\ eventCount' \in [Thread -> Int] /\ eventCount'[t] = eventCount[t] + 1
      /\ \A u \in Thread : u # t => UNCHANGED eventCount[u]
  BY <1>1, <1>7
<1>10. /\ alloc' \subseteq Event /\ arrival' \subseteq Event \X Event
       /\ position' \in [Event -> {"tail", "head", "mark"}]
  BY <1>1, <1>7
<1> QED
  BY <1>7, <1>8, <1>9, <1>10 DEF OthersStay

(* Event e became the k-th of the queue of t, as its position asks.        *)
LinkedAt(t, e, pos, k) ==
    /\ Inserted(queue'[t], queue[t], k, e)
    /\ pos = "tail" => k = Len(queue[t]) + 1
    /\ pos = "head" => k = 1
    /\ IF pos = "mark"
       THEN /\ markerEventPtr'[t] = e
            /\ IF markerEventPtr[t] = None THEN k = 1
               ELSE k > 1 /\ queue[t][k - 1] = markerEventPtr[t]
       ELSE markerEventPtr'[t] = markerEventPtr[t]
    /\ lastEventPtr'[t] = IF k = Len(queue[t]) + 1 THEN e ELSE lastEventPtr[t]

(* Queueing an event links it in after the last event, before the first    *)
(* one, or after the marker.                                               *)
LEMMA QueueEventLinks ==
  ASSUME TypeOK, QueueShape, NEW t \in Thread, Live(t), NEW e \in Event,
         NEW pos \in {"tail", "head", "mark"}, QueueEvent(t, e, pos)
  PROVE  \E k \in 1..(Len(queue[t]) + 1) : LinkedAt(t, e, pos, k)
<1> DEFINE q == queue[t]
           n == Len(queue[t])
<1>1. /\ queue \in [Thread -> Seq(Event)]
      /\ lastEventPtr \in [Thread -> Event \cup {None}]
      /\ markerEventPtr \in [Thread -> Event \cup {None}]
  BY Zenon DEF TypeOK
<1>2. q \in Seq(Event) /\ n \in Nat /\ DOMAIN q = 1..n /\ (q = <<>> <=> n = 0)
  BY <1>1
<1>3. /\ \A i, j \in DOMAIN q : q[i] = q[j] => i = j
      /\ lastEventPtr[t] = IF q = <<>> THEN None ELSE q[n]
      /\ markerEventPtr[t] # None => \E i \in DOMAIN q : q[i] = markerEventPtr[t]
  BY DEF QueueShape, Live, IsInjective, ToSet, Last
<1>4. CASE pos = "tail"
  <2>1. QueueTail(t, e)
    BY <1>4 DEF QueueEvent
  <2>2. queue'[t] = Append(q, e)
    <3>1. CASE q = <<>>
      <4>1. queue'[t] = <<e>>
        BY <1>1, <1>2, <2>1, <3>1 DEF QueueTail
      <4> QED
        BY <3>1, <4>1
    <3>2. CASE q # <<>>
      <4>1. PICK i \in DOMAIN q : q[i] = lastEventPtr[t] /\ queue'[t] = Append(SubSeq(q, 1, i), e)
        BY <1>1, <2>1, <3>2 DEF QueueTail
      <4>2. i = n
        <5>1. n \in DOMAIN q /\ lastEventPtr[t] = q[n]
          BY <1>2, <1>3, <3>2
        <5> QED
          BY <1>3, <4>1, <5>1
      <4>3. SubSeq(q, 1, n) = q
        BY <1>2
      <4> QED
        BY <4>1, <4>2, <4>3
    <3> QED
      BY <3>1, <3>2
  <2>3. Inserted(queue'[t], q, n + 1, e)
    BY <1>2, <2>2, AppendElements
  <2>4. markerEventPtr'[t] = markerEventPtr[t] /\ lastEventPtr'[t] = e
    BY <1>1, <2>1 DEF QueueTail
  <2>5. n + 1 \in 1..(n + 1)
    BY <1>2
  <2> QED
    BY <1>4, <2>3, <2>4, <2>5 DEF LinkedAt
<1>5. CASE pos = "head"
  <2>1. QueueHead(t, e)
    BY <1>5 DEF QueueEvent
  <2>2. queue'[t] = <<e>> \o q
    BY <1>1, <2>1 DEF QueueHead
  <2>3. Inserted(queue'[t], q, 1, e)
    BY <1>2, <2>2, PushElements
  <2>4. markerEventPtr'[t] = markerEventPtr[t]
    BY <1>1, <2>1 DEF QueueHead
  <2>5. lastEventPtr'[t] = IF 1 = n + 1 THEN e ELSE lastEventPtr[t]
    BY <1>1, <1>2, <2>1 DEF QueueHead
  <2>6. 1 \in 1..(n + 1)
    BY <1>2
  <2> QED
    BY <1>5, <2>3, <2>4, <2>5, <2>6 DEF LinkedAt
<1>6. CASE pos = "mark"
  <2>1. QueueMark(t, e)
    BY <1>6 DEF QueueEvent
  <2>2. markerEventPtr'[t] = e
    BY <1>1, <2>1 DEF QueueMark
  <2>3. CASE markerEventPtr[t] = None
    <3>0. \A i \in DOMAIN q : q[i] # None
      BY <1>2, NotifyConstants
    <3>1. queue'[t] = <<e>> \o q
      BY <1>1, <2>1, <2>3, <3>0 DEF QueueMark
    <3>2. Inserted(queue'[t], q, 1, e)
      BY <1>2, <3>1, PushElements
    <3>3. lastEventPtr'[t] = IF 1 = n + 1 THEN e ELSE lastEventPtr[t]
      BY <1>1, <1>2, <2>1, <2>3, <3>0 DEF QueueMark
    <3>4. 1 \in 1..(n + 1)
      BY <1>2
    <3> QED
      BY <1>6, <2>2, <2>3, <3>2, <3>3, <3>4 DEF LinkedAt
  <2>4. CASE markerEventPtr[t] # None
    <3>1. PICK i \in DOMAIN q :
            /\ q[i] = markerEventPtr[t]
            /\ queue' = [queue EXCEPT ![t] = InsertAt(q, i + 1, e)]
            /\ lastEventPtr' = IF i = n THEN [lastEventPtr EXCEPT ![t] = e]
                               ELSE lastEventPtr
      BY <1>3, <2>1, <2>4 DEF QueueMark
    <3>2. i + 1 \in 1..(n + 1) /\ i + 1 > 1 /\ (i + 1) - 1 = i /\ (i = n <=> i + 1 = n + 1)
      BY <1>2
    <3>3. Inserted(queue'[t], q, i + 1, e)
      BY <1>1, <1>2, <3>1, <3>2, InsertAtElements
    <3>4. lastEventPtr'[t] = IF i + 1 = n + 1 THEN e ELSE lastEventPtr[t]
      BY <1>1, <3>1, <3>2
    <3> QED
      BY <1>6, <2>2, <2>4, <3>1, <3>2, <3>3, <3>4 DEF LinkedAt
  <2> QED
    BY <2>3, <2>4
<1> QED
  BY <1>4, <1>5, <1>6

(* Unlinking an event frees it and leaves the rest of the queue.           *)
LEMMA UnlinkRemoves ==
  ASSUME TypeOK, NEW t \in Thread, NEW i \in DOMAIN queue[t], Unlink(t, i)
  PROVE  /\ queue' \in [Thread -> Seq(Event)]
         /\ lastEventPtr' \in [Thread -> Event \cup {None}]
         /\ markerEventPtr' \in [Thread -> Event \cup {None}]
         /\ \A u \in Thread : u # t =>
               UNCHANGED <<queue[u], lastEventPtr[u], markerEventPtr[u]>>
         /\ alloc' = alloc \ {queue[t][i]} /\ alloc' \subseteq Event
         /\ arrival' = arrival \cap (alloc' \X alloc')
         /\ position' \in [Event -> {"tail", "head", "mark"}]
         /\ \A e \in Event : e # queue[t][i] => position'[e] = position[e]
         /\ Removed(queue'[t], queue[t], i)
         /\ LET prevPtr == IF i = 1 THEN None ELSE queue[t][i - 1] IN
            /\ lastEventPtr'[t] = IF i = Len(queue[t]) THEN prevPtr ELSE lastEventPtr[t]
            /\ markerEventPtr'[t] = IF markerEventPtr[t] = queue[t][i] THEN prevPtr
                                    ELSE markerEventPtr[t]
<1>1. /\ queue \in [Thread -> Seq(Event)]
      /\ lastEventPtr \in [Thread -> Event \cup {None}]
      /\ markerEventPtr \in [Thread -> Event \cup {None}]
      /\ alloc \subseteq Event
      /\ position \in [Event -> {"tail", "head", "mark"}]
  BY Zenon DEF TypeOK
<1>2. queue[t] \in Seq(Event)
  BY <1>1
<1>3. /\ queue' = [queue EXCEPT ![t] = RemoveAt(queue[t], i)]
      /\ alloc' = alloc \ {queue[t][i]}
      /\ arrival' = arrival \cap (alloc' \X alloc')
      /\ position' = [position EXCEPT ![queue[t][i]] = "tail"]
  BY DEF Unlink
<1>4. RemoveAt(queue[t], i) \in Seq(Event) /\ Removed(RemoveAt(queue[t], i), queue[t], i)
  BY <1>2, RemoveAtElements DEF Removed
<1>5. queue[t][i] \in Event /\ (i # 1 => queue[t][i - 1] \in Event)
  BY <1>2
<1> DEFINE prevPtr == IF i = 1 THEN None ELSE queue[t][i - 1]
<1>6. prevPtr \in Event \cup {None}
  BY <1>5
<1>7. /\ lastEventPtr' = IF i = Len(queue[t]) THEN [lastEventPtr EXCEPT ![t] = prevPtr]
                         ELSE lastEventPtr
      /\ markerEventPtr' = IF markerEventPtr[t] = queue[t][i]
                           THEN [markerEventPtr EXCEPT ![t] = prevPtr]
                           ELSE markerEventPtr
  BY DEF Unlink
<1> HIDE DEF prevPtr
<1>8. /\ lastEventPtr' \in [Thread -> Event \cup {None}]
      /\ markerEventPtr' \in [Thread -> Event \cup {None}]
      /\ \A u \in Thread : u # t => UNCHANGED <<lastEventPtr[u], markerEventPtr[u]>>
      /\ lastEventPtr'[t] = IF i = Len(queue[t]) THEN prevPtr ELSE lastEventPtr[t]
      /\ markerEventPtr'[t] = IF markerEventPtr[t] = queue[t][i] THEN prevPtr
                              ELSE markerEventPtr[t]
  BY <1>1, <1>6, <1>7
<1>9. /\ queue' \in [Thread -> Seq(Event)] /\ queue'[t] = RemoveAt(queue[t], i)
      /\ \A u \in Thread : u # t => UNCHANGED queue[u]
  BY <1>1, <1>3, <1>4
<1>10. /\ position' \in [Event -> {"tail", "head", "mark"}]
       /\ \A e \in Event : e # queue[t][i] => position'[e] = position[e]
  BY <1>1, <1>3, <1>5
<1>11. alloc' \subseteq Event
  BY <1>1, <1>3
<1> QED
  BY <1>3, <1>4, <1>8, <1>9, <1>10, <1>11 DEF prevPtr

------------------------------------------------------------------------------
(* The kinds of steps there are.                                           *)

LifeStays == \A t \in Thread : Live(t)' <=> Live(t)
AlertsStay == UNCHANGED <<eventReady, owes>>
ModeBecomes(t, m) == serviceMode' = [serviceMode EXCEPT ![t] = m]

(* An event is queued in t: by the thread itself, not while it waits, or   *)
(* by a poster, which owes an alert unless the queue counts as not empty.  *)
Queueing(t, e, pos) ==
    /\ QueueEvent(t, e, pos)
    /\ UNCHANGED <<inService, stack, serviceMode, eventReady>> /\ LifeStays
    /\ \/ ~Waiting(t) /\ UNCHANGED owes
       \/ \E p \in Poster : owes[p] = None /\ owes' = [owes EXCEPT ![p] = t]
       \/ eventCount[t] > 0 /\ UNCHANGED owes

(* Tcl_DeleteEvents takes an event.                                        *)
Deleting(t, i) ==
    /\ Live(t) /\ Unlink(t, i) /\ queue[t][i] \notin inService
    /\ eventCount' = [eventCount EXCEPT ![t] = @ - 1]
    /\ UNCHANGED <<inService, stack, serviceMode>> /\ AlertsStay /\ LifeStays

(* Tcl_ServiceEvent starts the handler of an event.                        *)
Dispatching(t, i, f) ==
    /\ Live(t) /\ stack[t] # <<>> /\ Top(t).ev = None
    /\ Top(t).at \in {"svc1", "svc2", "all"} /\ queue[t][i] \notin inService
    /\ f = WithEvent(Top(t), queue[t][i], eventCount[t])
    /\ f \in Frame /\ Moved(t, f)
    /\ QueuesStay /\ inService' = inService \cup {queue[t][i]}
    /\ eventCount' = [eventCount EXCEPT ![t] = 0]
    /\ UNCHANGED serviceMode /\ AlertsStay /\ LifeStays

(* A handler has handled its event; Tcl_ServiceAll goes on, Tcl_DoOneEvent *)
(* returns.                                                                *)
Handled(t, i, f) ==
    /\ Live(t) /\ stack[t] # <<>> /\ Top(t).ev # None
    /\ queue[t][i] = Top(t).ev /\ Unlink(t, i)
    /\ eventCount' = [eventCount EXCEPT ![t] = (@ + Top(t).saved) - 1]
    /\ inService' = inService \ {Top(t).ev}
    /\ f = WithEvent(Top(t), None, 0) /\ f \in Frame
    /\ IF Top(t).at = "all" THEN Moved(t, f) /\ UNCHANGED serviceMode
       ELSE Exited(t) /\ ModeBecomes(t, Top(t).oldMode)
    /\ AlertsStay /\ LifeStays

(* A handler has not, and the loop goes on with the n-th event, or with    *)
(* none.                                                                   *)
Deferred(t, n, f) ==
    /\ Live(t) /\ stack[t] # <<>> /\ Top(t).ev # None /\ ~Handles(t)
    /\ Top(t).ev \in Queued(t)
    /\ queue[t][n] \notin inService
    /\ f = WithEvent(Top(t), queue[t][n], eventCount[t] + Top(t).saved)
    /\ f \in Frame /\ Moved(t, f)
    /\ QueuesStay /\ inService' = (inService \ {Top(t).ev}) \cup {queue[t][n]}
    /\ eventCount' = [eventCount EXCEPT ![t] = 0]
    /\ UNCHANGED serviceMode /\ AlertsStay /\ LifeStays
DeferredLast(t, f) ==
    /\ Live(t) /\ stack[t] # <<>> /\ Top(t).ev # None /\ ~Handles(t)
    /\ Top(t).ev \in Queued(t)
    /\ f = At(WithEvent(Top(t), None, 0), f.at)
    /\ f.at = "allidle" <=> Top(t).at \notin {"svc1", "svc2"}
    /\ f.at \in {"setup", "idle", "allidle"}
    /\ f \in Frame /\ Moved(t, f)
    /\ QueuesStay /\ inService' = inService \ {Top(t).ev}
    /\ eventCount' = [eventCount EXCEPT ![t] = @ + Top(t).saved]
    /\ UNCHANGED serviceMode /\ AlertsStay /\ LifeStays

(* The queues, the counts and the handlers stay as they are.               *)
Resting == QueuesStay /\ UNCHANGED <<eventCount, inService>>

(* Tcl_DoOneEvent or Tcl_ServiceAll is called.                             *)
Calling(t, f) ==
    /\ Live(t) /\ (stack[t] # <<>> => Suspended(Top(t)))
    /\ \E s, fl, w : f = [at |-> s, flags |-> fl, dontWait |-> w,
                          oldMode |-> serviceMode[t], ev |-> None, saved |-> 0]
    /\ f.at \in {"svc1", "idle", "allcheck"}
    /\ f.at = "allcheck" => serviceMode[t] # "none" /\ f.flags = Type
    /\ f.at = "idle" => f.dontWait
    /\ f.at = "svc1" => \E fl \in Flags : f.flags = IF fl = {} THEN Type ELSE fl
    /\ f \in Frame /\ Entered(t, f) /\ ModeBecomes(t, "none")
    /\ Resting /\ AlertsStay /\ LifeStays

(* The innermost call returns, not from a handler.                         *)
Returning(t) ==
    /\ Live(t) /\ stack[t] # <<>> /\ Top(t).ev = None /\ Exited(t)
    /\ Top(t).at \notin {"allcheck", "all"}
    /\ ModeBecomes(t, IF Top(t).at = "allidle" THEN "all" ELSE Top(t).oldMode)
    /\ Resting /\ AlertsStay /\ LifeStays

(* The innermost call goes from a stage to another one.                    *)
Moving(t, f) ==
    /\ Live(t) /\ stack[t] # <<>> /\ Top(t).ev = None
    /\ f = At(Top(t), f.at) /\ f \in Frame /\ Moved(t, f)
    /\ Top(t).at \in {"allcheck", "all", "allidle"}
          <=> f.at \in {"allcheck", "all", "allidle"}
    /\ Top(t).at = "idle" => f.at = "svc1" /\ ~Top(t).dontWait
    /\ \/ f.at = "setup" /\ Queued(t) \subseteq inService /\ UNCHANGED eventReady
       \/ f.at = "blocked" /\ Top(t).at = "setup" /\ UNCHANGED eventReady
       \/ f.at \notin {"setup", "blocked"}
          /\ \A u \in Thread : u # t => UNCHANGED eventReady[u]
    /\ UNCHANGED <<serviceMode, owes>> /\ Resting /\ LifeStays

(* No queue and no loop is touched.                                        *)
Standing ==
    /\ UNCHANGED stack /\ Resting /\ LifeStays
    /\ UNCHANGED serviceMode \/ \E t \in Thread, m \in Modes : ModeBecomes(t, m)
    /\ \/ AlertsStay
       \/ \E p \in Poster :
             /\ owes[p] # None /\ owes' = [owes EXCEPT ![p] = None]
             /\ eventReady' = IF owes[p] \in registered
                              THEN [eventReady EXCEPT ![owes[p]] = TRUE]
                              ELSE eventReady

StepKinds ==
    \/ \E t \in Thread, e \in Event, pos \in {"tail", "head", "mark"} : Queueing(t, e, pos)
    \/ \E t \in Thread : \E i \in DOMAIN queue[t] : Deleting(t, i)
    \/ \E t \in Thread : \E i \in DOMAIN queue[t], f \in Frame :
          Dispatching(t, i, f) \/ Handled(t, i, f) \/ Deferred(t, i, f)
    \/ \E t \in Thread, f \in Frame : DeferredLast(t, f) \/ Calling(t, f) \/ Moving(t, f)
    \/ \E t \in Thread : Returning(t) \/ FinalizeQueue(t)
    \/ Standing

(* The variables that are not about queues and loops stay in their types.  *)
ListTypes ==
    /\ deleting \in [Thread -> Type \cup {None}]
    /\ eventReady \in [Thread -> BOOLEAN]
    /\ registered \subseteq Thread
    /\ finalizing \in [Thread -> {"no", "list", "done"}]
    /\ owes \in [Poster -> Thread \cup {None}]
    /\ listLock \in Poster \cup {None}

(* A thread is taken off the list of notifiers when it has been finalised, *)
(* which it is not while it deletes events.                                *)
LEMMA LifeStep ==
  ASSUME ListTypes, LifeCycle, [Next]_vars
  PROVE  ListTypes' /\ LifeCycle'
<1>1. ASSUME NEW t \in Thread, NEW i \in DOMAIN queue[t], ServiceFirst(t, i)
      PROVE  ListTypes' /\ LifeCycle'
  BY <1>1, NotifyConstants DEF ServiceFirst, queueVars, eventVars, listVars, ListTypes, LifeCycle, Live, AtCode, AtStage, Return, GoTo, Push
<1>2. ASSUME NEW t \in Thread, NEW i \in DOMAIN queue[t], HandlerDone(t, i)
      PROVE  ListTypes' /\ LifeCycle'
  BY <1>2, NotifyConstants DEF HandlerDone, queueVars, eventVars, listVars, ListTypes, LifeCycle, Live, AtCode, AtStage, Return, GoTo, Push
<1>3. ASSUME NEW t \in Thread, NEW i \in DOMAIN queue[t], HandlerDefers(t, i)
      PROVE  ListTypes' /\ LifeCycle'
  BY <1>3, NotifyConstants DEF HandlerDefers, queueVars, eventVars, listVars, ListTypes, LifeCycle, Live, AtCode, AtStage, Return, GoTo, Push
<1>4. ASSUME NEW t \in Thread, Idle(t)
      PROVE  ListTypes' /\ LifeCycle'
  BY <1>4, NotifyConstants DEF Idle, queueVars, eventVars, listVars, ListTypes, LifeCycle, Live, AtCode, AtStage, Return, GoTo, Push
<1>5. ASSUME NEW t \in Thread, ServiceAllIdle(t)
      PROVE  ListTypes' /\ LifeCycle'
  BY <1>5, NotifyConstants DEF ServiceAllIdle, queueVars, eventVars, listVars, ListTypes, LifeCycle, Live, AtCode, AtStage, Return, GoTo, Push
<1>6. ASSUME NEW t \in Thread, ServiceNone(t)
      PROVE  ListTypes' /\ LifeCycle'
  BY <1>6, NotifyConstants DEF ServiceNone, queueVars, eventVars, listVars, ListTypes, LifeCycle, Live, AtCode, AtStage, Return, GoTo, Push
<1>7. ASSUME NEW t \in Thread, SetupAndWait(t)
      PROVE  ListTypes' /\ LifeCycle'
  BY <1>7, NotifyConstants DEF SetupAndWait, queueVars, eventVars, listVars, ListTypes, LifeCycle, Live, AtCode, AtStage, Return, GoTo, Push
<1>8. ASSUME NEW t \in Thread, CheckDone(t)
      PROVE  ListTypes' /\ LifeCycle'
  BY <1>8, NotifyConstants DEF CheckDone, queueVars, eventVars, listVars, ListTypes, LifeCycle, Live, AtCode, AtStage, Return, GoTo, Push
<1>9. ASSUME NEW t \in Thread, ServiceAsync(t)
      PROVE  ListTypes' /\ LifeCycle'
  BY <1>9, NotifyConstants DEF ServiceAsync, queueVars, eventVars, listVars, ListTypes, LifeCycle, Live, AtCode, AtStage, Return, GoTo, Push
<1>10. ASSUME NEW t \in Thread, WaitEnds(t)
      PROVE  ListTypes' /\ LifeCycle'
  BY <1>10, NotifyConstants DEF WaitEnds, queueVars, eventVars, listVars, ListTypes, LifeCycle, Live, AtCode, AtStage, Return, GoTo, Push
<1>11. ASSUME NEW t \in Thread, WaitAborts(t)
      PROVE  ListTypes' /\ LifeCycle'
  BY <1>11, NotifyConstants DEF WaitAborts, queueVars, eventVars, listVars, ListTypes, LifeCycle, Live, AtCode, AtStage, Return, GoTo, Push
<1>12. ASSUME NEW t \in Thread, NEW e \in Event, NEW pos \in Positions,
          Tcl_QueueEvent(t, e, pos)
      PROVE  ListTypes' /\ LifeCycle'
  BY <1>12, NotifyConstants DEF Tcl_QueueEvent, queueVars, eventVars, listVars, ListTypes, LifeCycle, Live, AtCode, AtStage, Return, GoTo, Push
<1>13. ASSUME NEW t \in Thread, NEW e \in Event, SourceQueues(t, e)
      PROVE  ListTypes' /\ LifeCycle'
  BY <1>13, NotifyConstants DEF SourceQueues, queueVars, eventVars, listVars, ListTypes, LifeCycle, Live, AtCode, AtStage, Return, GoTo, Push
<1>14. ASSUME NEW t \in Thread, NEW k \in Type, NEW i \in DOMAIN queue[t],
          Tcl_DeleteEvents(t, k, i)
      PROVE  ListTypes' /\ LifeCycle'
  BY <1>14, NotifyConstants DEF Tcl_DeleteEvents, queueVars, eventVars, listVars, ListTypes, LifeCycle, Live, AtCode, AtStage, Return, GoTo, Push
<1>15. ASSUME NEW t \in Thread, DeleteEventsDone(t)
      PROVE  ListTypes' /\ LifeCycle'
  BY <1>15, NotifyConstants DEF DeleteEventsDone, queueVars, eventVars, listVars, ListTypes, LifeCycle, Live, AtCode, AtStage, Return, GoTo, Push
<1>16. ASSUME NEW t \in Thread, NEW flags \in Flags, NEW w \in BOOLEAN,
          Tcl_DoOneEvent(t, flags, w)
      PROVE  ListTypes' /\ LifeCycle'
  BY <1>16, NotifyConstants DEF Tcl_DoOneEvent, queueVars, eventVars, listVars, ListTypes, LifeCycle, Live, AtCode, AtStage, Return, GoTo, Push
<1>17. ASSUME NEW t \in Thread, DoIdleEvents(t)
      PROVE  ListTypes' /\ LifeCycle'
  BY <1>17, NotifyConstants DEF DoIdleEvents, queueVars, eventVars, listVars, ListTypes, LifeCycle, Live, AtCode, AtStage, Return, GoTo, Push
<1>18. ASSUME NEW t \in Thread, Tcl_ServiceAll(t)
      PROVE  ListTypes' /\ LifeCycle'
  BY <1>18, NotifyConstants DEF Tcl_ServiceAll, queueVars, eventVars, listVars, ListTypes, LifeCycle, Live, AtCode, AtStage, Return, GoTo, Push
<1>19. ASSUME NEW t \in Thread, NEW mode \in Modes, Tcl_SetServiceMode(t, mode)
      PROVE  ListTypes' /\ LifeCycle'
  BY <1>19, NotifyConstants DEF Tcl_SetServiceMode, queueVars, eventVars, listVars, ListTypes, LifeCycle, Live, AtCode, AtStage, Return, GoTo, Push
<1>20. ASSUME NEW t \in Thread, FinalizeQueue(t)
      PROVE  ListTypes' /\ LifeCycle'
  BY <1>20, NotifyConstants DEF FinalizeQueue, queueVars, eventVars, listVars, ListTypes, LifeCycle, Live, AtCode, AtStage, Return, GoTo, Push
<1>21. ASSUME NEW t \in Thread, FinalizeList(t)
      PROVE  ListTypes' /\ LifeCycle'
  BY <1>21, NotifyConstants DEF FinalizeList, queueVars, eventVars, listVars, ListTypes, LifeCycle, Live, AtCode, AtStage, Return, GoTo, Push
<1>22. ASSUME NEW p \in Poster, NEW t \in Thread, NEW e \in Event,
          NEW pos \in Positions, PostAlertIfEmpty(p, t, e, pos)
      PROVE  ListTypes' /\ LifeCycle'
  BY <1>22, NotifyConstants DEF PostAlertIfEmpty, queueVars, eventVars, listVars, ListTypes, LifeCycle, Live, AtCode, AtStage, Return, GoTo, Push
<1>23. ASSUME NEW p \in Poster, NEW t \in Thread, NEW e \in Event,
          NEW pos \in Positions, Post(p, t, e, pos)
      PROVE  ListTypes' /\ LifeCycle'
  BY <1>23, NotifyConstants DEF Post, queueVars, eventVars, listVars, ListTypes, LifeCycle, Live, AtCode, AtStage, Return, GoTo, Push
<1>24. ASSUME NEW p \in Poster, Tcl_ThreadAlert(p)
      PROVE  ListTypes' /\ LifeCycle'
  BY <1>24, NotifyConstants DEF Tcl_ThreadAlert, queueVars, eventVars, listVars, ListTypes, LifeCycle, Live, AtCode, AtStage, Return, GoTo, Push
<1>25. ASSUME UNCHANGED vars
      PROVE  ListTypes' /\ LifeCycle'
  BY <1>25, NotifyConstants DEF vars, queueVars, eventVars, listVars, ListTypes, LifeCycle, Live, AtCode, AtStage, Return, GoTo, Push
<1> QED
  BY <1>1, <1>2, <1>3, <1>4, <1>5, <1>6, <1>7, <1>8, <1>9, <1>10, <1>11, <1>12,
     <1>13, <1>14, <1>15, <1>16, <1>17, <1>18, <1>19, <1>20, <1>21, <1>22, <1>23,
     <1>24, <1>25
     DEF Next, ThreadStep, PosterStep, LoopStep, Service, HandlerReturns, IdleReturns

(* Starting or ending a handler changes the event and the count of a frame.*)
LEMMA WithEventIsFrame ==
  ASSUME NEW f \in Frame, NEW e \in Event \cup {None}, NEW n \in Int
  PROVE  LET g == WithEvent(f, e, n) IN
         /\ g \in Frame /\ g.ev = e /\ g.saved = n /\ g.dontWait = f.dontWait
         /\ g.at = f.at /\ g.flags = f.flags /\ g.oldMode = f.oldMode
<1>1. PICK h : h = [f EXCEPT !.ev = e]
  OBVIOUS
<1>2. /\ h \in Frame /\ h.ev = e /\ h.dontWait = f.dontWait
      /\ h.at = f.at /\ h.flags = f.flags /\ h.oldMode = f.oldMode
  BY <1>1 DEF Frame
<1>3. PICK g : g = [h EXCEPT !.saved = n]
  OBVIOUS
<1>4. g = WithEvent(f, e, n)
  BY <1>1, <1>3 DEF WithEvent
<1>5. /\ g \in Frame /\ g.ev = e /\ g.saved = n /\ g.dontWait = f.dontWait
      /\ g.at = f.at /\ g.flags = f.flags /\ g.oldMode = f.oldMode
  BY <1>2, <1>3 DEF Frame
<1> QED
  BY <1>4, <1>5

(* So does a change of the stage.                                          *)
LEMMA AtIsFrame ==
  ASSUME NEW f \in Frame,
         NEW x \in {"svc1", "setup", "blocked", "check", "svc2", "idle",
                    "allcheck", "all", "allidle"}
  PROVE  LET g == At(f, x) IN
         /\ g \in Frame /\ g.at = x /\ g.ev = f.ev /\ g.saved = f.saved
         /\ g.dontWait = f.dontWait /\ g.flags = f.flags /\ g.oldMode = f.oldMode
<1>1. PICK h : h = [f EXCEPT !.at = x]
  OBVIOUS
<1>2. /\ h \in Frame /\ h.at = x /\ h.ev = f.ev /\ h.saved = f.saved
      /\ h.dontWait = f.dontWait /\ h.flags = f.flags /\ h.oldMode = f.oldMode
  BY <1>1 DEF Frame
<1> QED
  BY <1>1, <1>2 DEF At

(* The same for the innermost frame of a stack.                            *)
LEMMA TopWith ==
  ASSUME NEW s \in Seq(Frame), s # <<>>, NEW e, NEW n
  PROVE  TopWithEvent(s, e, n) = [s EXCEPT ![Len(s)] = WithEvent(s[Len(s)], e, n)]
<1>1. Len(s) \in DOMAIN s
  OBVIOUS
<1> DEFINE a == [s EXCEPT ![Len(s)].ev = e]
<1>2. a[Len(s)] = [s[Len(s)] EXCEPT !.ev = e] /\ DOMAIN a = DOMAIN s
  BY <1>1
<1>3. \A d \in DOMAIN s : d # Len(s) => a[d] = s[d]
  BY <1>1
<1>4. [s EXCEPT ![Len(s)].ev = e, ![Len(s)].saved = n]
         = [a EXCEPT ![Len(s)] = [a[Len(s)] EXCEPT !.saved = n]]
  OBVIOUS
<1>5. [a[Len(s)] EXCEPT !.saved = n] = WithEvent(s[Len(s)], e, n)
  BY <1>2 DEF WithEvent
<1> HIDE DEF a
<1>6. a = [d \in DOMAIN s |-> a[d]]
  BY <1>1, <1>2 DEF a
<1>7. ASSUME NEW g PROVE [a EXCEPT ![Len(s)] = g] = [s EXCEPT ![Len(s)] = g]
  BY <1>1, <1>2, <1>3, <1>6
<1> QED
  BY <1>4, <1>5, <1>7 DEF TopWithEvent

(* The same when the stage changes too.                                    *)
LEMMA TopWithStage ==
  ASSUME NEW s \in Seq(Frame), s # <<>>, NEW e, NEW n, NEW x
  PROVE  TopWithStageAt(s, e, n, x) = [s EXCEPT ![Len(s)] = At(WithEvent(s[Len(s)], e, n), x)]
<1>1. Len(s) \in DOMAIN s
  OBVIOUS
<1>2. PICK g : g = WithEvent(s[Len(s)], e, n)
  OBVIOUS
<1>3. PICK a : a = [s EXCEPT ![Len(s)].ev = e, ![Len(s)].saved = n]
  OBVIOUS
<1>4. a = [s EXCEPT ![Len(s)] = g]
  <2>1. a = TopWithEvent(s, e, n)
    BY <1>3 DEF TopWithEvent
  <2> QED
    BY <1>2, <2>1, TopWith
<1>5. [s EXCEPT ![Len(s)].ev = e, ![Len(s)].saved = n, ![Len(s)].at = x]
         = [a EXCEPT ![Len(s)] = [a[Len(s)] EXCEPT !.at = x]]
  BY <1>3
<1>6. a[Len(s)] = g
  BY <1>1, <1>4
<1>7. [a[Len(s)] EXCEPT !.at = x] = At(g, x)
  BY <1>6 DEF At
<1>8. \A f : [a EXCEPT ![Len(s)] = f] = [s EXCEPT ![Len(s)] = f]
  BY <1>1, <1>4
<1> QED
  BY <1>2, <1>5, <1>7, <1>8 DEF TopWithStageAt

(* A stack is made of frames.                                              *)
LEMMA StackType ==
  ASSUME TypeOK, NEW t \in Thread
  PROVE  stack[t] \in Seq(Frame)
<1>1. stack \in [Thread -> Seq(Frame)]
  BY Zenon DEF TypeOK
<1> QED
  BY <1>1

(* Starting and ending a handler move the innermost frame.                 *)
LEMMA EventMoves ==
  ASSUME TypeOK, NEW t \in Thread, stack[t] # <<>>, NEW e, NEW n,
         NEW f \in Frame, f = WithEvent(Top(t), e, n),
         stack' = [stack EXCEPT ![t] = TopWithEvent(stack[t], e, n)]
  PROVE  Moved(t, f)
<1>1. PICK s \in Seq(Frame) : s = stack[t]
  BY StackType
<1>2. TopWithEvent(s, e, n) = [s EXCEPT ![Len(s)] = WithEvent(s[Len(s)], e, n)]
  BY <1>1, TopWith
<1>3. s[Len(s)] = Top(t)
  BY <1>1, TopIsFrame
<1>4. stack' = [stack EXCEPT ![t] = [stack[t] EXCEPT ![Len(stack[t])] = f]]
  BY <1>1, <1>2, <1>3
<1> QED
  BY <1>4, TopMoves

(* So does ending a call of Tcl_ServiceEvent.                              *)
LEMMA EndsMoves ==
  ASSUME TypeOK, NEW t \in Thread, stack[t] # <<>>, NEW x, NEW f \in Frame,
         f = At(WithEvent(Top(t), None, 0), x),
         stack' = [stack EXCEPT ![t] = TopWithStageAt(stack[t], None, 0, x)]
  PROVE  Moved(t, f)
<1>1. PICK s \in Seq(Frame) : s = stack[t]
  BY StackType
<1>2. s[Len(s)] = Top(t)
  BY <1>1, TopIsFrame
<1>3. TopWithStageAt(s, None, 0, x) = [s EXCEPT ![Len(s)] = At(WithEvent(s[Len(s)], None, 0), x)]
  BY <1>1, TopWithStage
<1>4. stack' = [stack EXCEPT ![t] = [stack[t] EXCEPT ![Len(stack[t])] = f]]
  BY <1>1, <1>2, <1>3
<1> QED
  BY <1>4, TopMoves

(* What a queue holds are events.                                          *)
LEMMA QueueType ==
  ASSUME TypeOK, NEW t \in Thread
  PROVE  /\ queue[t] \in Seq(Event) /\ eventCount[t] \in Int
         /\ DOMAIN queue[t] = 1..Len(queue[t]) /\ Len(queue[t]) \in Nat
         /\ \A i \in DOMAIN queue[t] : queue[t][i] \in Event
<1>1. queue \in [Thread -> Seq(Event)] /\ eventCount \in [Thread -> Int]
  BY Zenon DEF TypeOK
<1>2. queue[t] \in Seq(Event) /\ eventCount[t] \in Int
  BY <1>1
<1> QED
  BY <1>2

(* Every step is of one of the kinds.                                      *)
LEMMA Steps ==
  ASSUME TypeOK, LifeCycle, FramesNest, [Next]_vars
  PROVE  StepKinds
<1>1. ASSUME NEW t \in Thread, NEW i \in DOMAIN queue[t], ServiceFirst(t, i)
      PROVE  StepKinds
  <2>1. /\ Live(t) /\ stack[t] # <<>> /\ Top(t).ev = None
        /\ Top(t).at \in {"svc1", "svc2", "all"} /\ queue[t][i] \notin inService
        /\ QueuesStay /\ inService' = inService \cup {queue[t][i]}
        /\ eventCount' = [eventCount EXCEPT ![t] = 0]
        /\ UNCHANGED serviceMode /\ AlertsStay /\ LifeStays
    BY <1>1 DEF ServiceFirst, AtStage, Dispatch, Serviceable, QueuesStay, AlertsStay,
         LifeStays, Live, eventVars, listVars
  <2>2. queue[t][i] \in Event /\ eventCount[t] \in Int
    BY QueueType
  <2>3. Top(t) \in Frame /\ Top(t) = stack[t][Len(stack[t])]
    BY <2>1, TopIsFrame
  <2>4. PICK f \in Frame : f = WithEvent(Top(t), queue[t][i], eventCount[t])
    BY <2>2, <2>3, WithEventIsFrame
  <2>5. stack' = [stack EXCEPT ![t] = TopWithEvent(stack[t], queue[t][i], eventCount[t])]
    BY <1>1 DEF ServiceFirst, Dispatch, TopWithEvent
  <2>6. Moved(t, f)
    BY <2>1, <2>4, <2>5, EventMoves
  <2>7. Dispatching(t, i, f)
    BY <2>1, <2>4, <2>6 DEF Dispatching
  <2> QED
    BY <2>7 DEF StepKinds
<1>2. ASSUME NEW t \in Thread, NEW i \in DOMAIN queue[t], HandlerDone(t, i)
      PROVE  StepKinds
  <2>1. /\ Live(t) /\ stack[t] # <<>> /\ Top(t).ev # None
        /\ queue[t][i] = Top(t).ev /\ Unlink(t, i)
        /\ eventCount' = [eventCount EXCEPT ![t] = (@ + Top(t).saved) - 1]
        /\ inService' = inService \ {Top(t).ev}
        /\ AlertsStay /\ LifeStays
    BY <1>2 DEF HandlerDone, InHandler, AtCode, AlertsStay, LifeStays, Live, listVars
  <2>2. Top(t) \in Frame /\ Top(t) = stack[t][Len(stack[t])]
    BY <2>1, TopIsFrame
  <2>3. PICK f \in Frame : f = WithEvent(Top(t), None, 0)
    <3>1. None \in Event \cup {None} /\ 0 \in Int
      OBVIOUS
    <3>2. WithEvent(Top(t), None, 0) \in Frame
      BY <2>2, <3>1, WithEventIsFrame
    <3> QED
      BY <3>2
  <2>4. IF Top(t).at = "all" THEN Moved(t, f) /\ UNCHANGED serviceMode
        ELSE Exited(t) /\ ModeBecomes(t, Top(t).oldMode)
    <3>1. CASE Top(t).at = "all"
      <4>1. stack' = [stack EXCEPT ![t] = TopWithEvent(stack[t], None, 0)]
        BY <1>2, <3>1 DEF HandlerDone, TopWithEvent
      <4> QED
        BY <1>2, <2>1, <2>3, <3>1, <4>1, EventMoves DEF HandlerDone
    <3>2. CASE Top(t).at # "all"
      <4>1. Return(t)
        BY <1>2, <3>2 DEF HandlerDone
      <4>2. Exited(t)
        BY <2>1, <4>1, PopExits DEF Return
      <4> QED
        BY <3>2, <4>1, <4>2 DEF Return, ModeBecomes
    <3> QED
      BY <3>1, <3>2
  <2>5. Handled(t, i, f)
    BY <2>1, <2>3, <2>4 DEF Handled
  <2> QED
    BY <2>5 DEF StepKinds
<1>3. ASSUME NEW t \in Thread, NEW i \in DOMAIN queue[t], HandlerDefers(t, i)
      PROVE  StepKinds
  <2>1. /\ Live(t) /\ stack[t] # <<>> /\ Top(t).ev # None /\ ~Handles(t)
        /\ Top(t).ev \in Queued(t) /\ QueuesStay
        /\ UNCHANGED serviceMode /\ AlertsStay /\ LifeStays
    BY <1>3 DEF HandlerDefers, InHandler, AtCode, AlertsStay, LifeStays, Live, Queued,
         QueuesStay, eventVars, listVars
  <2>2. /\ Top(t) \in Frame /\ Top(t) = stack[t][Len(stack[t])]
        /\ eventCount[t] \in Int /\ eventCount \in [Thread -> Int]
    BY <2>1, TopIsFrame DEF TypeOK
  <2>3. ASSUME NEW m \in (i + 1)..Len(queue[t]), Serviceable(t, m),
               inService' = (inService \ {Top(t).ev}) \cup {queue[t][m]},
               stack' = [stack EXCEPT ![t] =
                             [@ EXCEPT ![Len(@)].ev = queue[t][m],
                                       ![Len(@)].saved = eventCount[t] + Top(t).saved]],
               eventCount' = [eventCount EXCEPT ![t] = 0]
        PROVE  StepKinds
    <3>1. m \in DOMAIN queue[t] /\ queue[t][m] \in Event
      BY QueueType
    <3>2. PICK f \in Frame :
            f = WithEvent(Top(t), queue[t][m], eventCount[t] + Top(t).saved)
      <4>1. eventCount[t] + Top(t).saved \in Int
        BY <2>2 DEF Frame
      <4> QED
        BY <2>2, <3>1, <4>1, WithEventIsFrame
    <3>3. stack' = [stack EXCEPT ![t] =
             TopWithEvent(stack[t], queue[t][m], eventCount[t] + Top(t).saved)]
      BY <2>3 DEF TopWithEvent
    <3>4. Moved(t, f)
      BY <2>1, <3>2, <3>3, EventMoves
    <3>5. Deferred(t, m, f)
      BY <2>1, <2>3, <3>2, <3>4 DEF Deferred, Serviceable
    <3> QED
      BY <3>1, <3>5 DEF StepKinds
  <2>4. ASSUME inService' = inService \ {Top(t).ev},
               stack' = [stack EXCEPT ![t] =
                             [@ EXCEPT ![Len(@)].ev = None,
                                       ![Len(@)].saved = 0,
                                       ![Len(@)].at = AfterNothing(Top(t).at)]],
               eventCount' = [eventCount EXCEPT ![t] = @ + Top(t).saved]
        PROVE  StepKinds
    <3>1. Top(t).at \in {"svc1", "svc2", "all"}
      BY <2>1, <2>2, TopIsFrame DEF FramesNest
    <3>2. AfterNothing(Top(t).at) = IF Top(t).at = "svc1" THEN "setup"
                                    ELSE IF Top(t).at = "svc2" THEN "idle" ELSE "allidle"
      BY <3>1 DEF AfterNothing
    <3>3. PICK f \in Frame :
            /\ f = At(WithEvent(Top(t), None, 0), AfterNothing(Top(t).at))
            /\ f.at = AfterNothing(Top(t).at)
      <4>1. PICK g \in Frame : g = WithEvent(Top(t), None, 0)
        <5>1. Top(t) \in Frame
          BY <2>2
        <5> QED
          BY <5>1, WithEventIsFrame
      <4> QED
        BY <3>1, <3>2, <4>1, AtIsFrame
    <3>4. stack' = [stack EXCEPT ![t] =
             TopWithStageAt(stack[t], None, 0, AfterNothing(Top(t).at))]
      BY <2>4 DEF TopWithStageAt
    <3>5. Moved(t, f)
      BY <2>1, <3>3, <3>4, EndsMoves
    <3>7. DeferredLast(t, f)
      BY <2>1, <2>4, <3>1, <3>2, <3>3, <3>5 DEF DeferredLast
    <3> QED
      BY <3>7 DEF StepKinds
  <2> QED
    BY <1>3, <2>3, <2>4 DEF HandlerDefers
<1>4. ASSUME NEW t \in Thread, Idle(t)
      PROVE  StepKinds
  <2>1. /\ Resting /\ LifeStays /\ Live(t) /\ stack[t] # <<>> /\ Top(t).ev = None
        /\ UNCHANGED <<owes, eventReady>> /\ Top(t).at = "idle"
    BY <1>4 DEF Idle, AtStage, Resting, QueuesStay, LifeStays, Live, queueVars, eventVars, listVars
  <2>2. CASE Return(t)
    <3>1. Exited(t) /\ ModeBecomes(t, Top(t).oldMode)
      BY <2>1, <2>2, PopExits DEF Return, ModeBecomes
    <3> QED
      BY <2>1, <3>1 DEF StepKinds, Returning, AlertsStay
  <2>7. CASE ~Top(t).dontWait /\ GoTo(t, "svc1") /\ UNCHANGED serviceMode
    <3>3. PICK f \in Frame : f = At(Top(t), "svc1")
      BY <2>1, <2>7, GoToMoves
    <3>4. Moved(t, f)
      BY <2>1, <2>7, <3>3, GoToMoves
    <3>5. Top(t) \in Frame
      BY <2>1, TopIsFrame
    <3>6. f.at = "svc1"
      BY <3>3, <3>5, AtIsFrame
    <3> QED
      BY <2>1, <2>7, <3>3, <3>4, <3>6 DEF StepKinds, Moving
  <2> QED
    BY <1>4, <2>2, <2>7 DEF Idle
<1>5. ASSUME NEW t \in Thread, ServiceAllIdle(t)
      PROVE  StepKinds
  <2>1. /\ Resting /\ AlertsStay /\ LifeStays /\ Live(t)
        /\ stack[t] # <<>> /\ Top(t).ev = None /\ Top(t).at \notin {"allcheck", "all"}
        /\ stack' = [stack EXCEPT ![t] = Front(stack[t])]
        /\ ModeBecomes(t, IF Top(t).at = "allidle" THEN "all" ELSE Top(t).oldMode)
    BY <1>5 DEF ServiceAllIdle, AtStage, Return, Resting, QueuesStay, AlertsStay, LifeStays, Live,
         queueVars, eventVars, listVars, ModeBecomes
  <2>2. Exited(t)
    BY <2>1, PopExits
  <2> QED
    BY <2>1, <2>2 DEF StepKinds, Returning
<1>6. ASSUME NEW t \in Thread, ServiceNone(t)
      PROVE  StepKinds
  <2>1. /\ Resting /\ LifeStays /\ Live(t) /\ stack[t] # <<>> /\ Top(t).ev = None
        /\ UNCHANGED <<serviceMode, owes, eventReady>>
        /\ Queued(t) \subseteq inService
    BY <1>6 DEF ServiceNone, AtStage, Resting, QueuesStay, LifeStays, Live, queueVars, eventVars, listVars,
         Queued, Serviceable
  <2>2. PICK s \in {"setup", "idle", "allidle"} :
          /\ GoTo(t, s)
          /\ Top(t).at = IF s = "setup" THEN "svc1" ELSE IF s = "idle" THEN "svc2" ELSE "all"
    BY <1>6 DEF ServiceNone, AtStage, AfterNothing
  <2>3. PICK f \in Frame : f = At(Top(t), s)
    BY <2>1, <2>2, GoToMoves
  <2>4. Moved(t, f)
    BY <2>1, <2>2, <2>3, GoToMoves
  <2>5. Top(t) \in Frame
    BY <2>1, TopIsFrame
  <2>6. f.at = s
    BY <2>3, <2>5, AtIsFrame
  <2> QED
    BY <2>1, <2>2, <2>3, <2>4, <2>6 DEF StepKinds, Moving
<1>7. ASSUME NEW t \in Thread, SetupAndWait(t)
      PROVE  StepKinds
  <2>1. /\ Resting /\ LifeStays /\ Live(t) /\ stack[t] # <<>> /\ Top(t).ev = None
        /\ UNCHANGED <<serviceMode, owes>> /\ Top(t).at = "setup"
        /\ \A u \in Thread : u # t => UNCHANGED eventReady[u]
    BY <1>7 DEF SetupAndWait, AtStage, Resting, QueuesStay, LifeStays, Live, queueVars, eventVars, listVars, TypeOK
  <2>2. PICK s \in {"check", "blocked"} : GoTo(t, s) /\ (s = "blocked" => UNCHANGED eventReady)
    BY <1>7 DEF SetupAndWait
  <2>3. PICK f \in Frame : f = At(Top(t), s)
    BY <2>1, <2>2, GoToMoves
  <2>4. Moved(t, f)
    BY <2>1, <2>2, <2>3, GoToMoves
  <2>5. Top(t) \in Frame
    BY <2>1, TopIsFrame
  <2>6. f.at = s
    BY <2>3, <2>5, AtIsFrame
  <2> QED
    BY <2>1, <2>2, <2>3, <2>4, <2>6 DEF StepKinds, Moving
<1>8. ASSUME NEW t \in Thread, CheckDone(t)
      PROVE  StepKinds
  <2>1. /\ Resting /\ LifeStays /\ Live(t) /\ stack[t] # <<>> /\ Top(t).ev = None
        /\ UNCHANGED <<serviceMode, owes, eventReady>>
    BY <1>8 DEF CheckDone, AtStage, Resting, QueuesStay, LifeStays, Live, queueVars, eventVars, listVars
  <2>2. PICK s \in {"svc2", "all"} :
          GoTo(t, s) /\ Top(t).at = IF s = "svc2" THEN "check" ELSE "allcheck"
    BY <1>8 DEF CheckDone, AtStage
  <2>3. PICK f \in Frame : f = At(Top(t), s)
    BY <2>1, <2>2, GoToMoves
  <2>4. Moved(t, f)
    BY <2>1, <2>2, <2>3, GoToMoves
  <2>5. Top(t) \in Frame
    BY <2>1, TopIsFrame
  <2>6. f.at = s
    BY <2>3, <2>5, AtIsFrame
  <2> QED
    BY <2>1, <2>2, <2>3, <2>4, <2>6 DEF StepKinds, Moving
<1>9. ASSUME NEW t \in Thread, ServiceAsync(t)
      PROVE  StepKinds
  <2>1. /\ Resting /\ AlertsStay /\ LifeStays /\ Live(t)
        /\ stack[t] # <<>> /\ Top(t).ev = None /\ Top(t).at \notin {"allcheck", "all"}
        /\ stack' = [stack EXCEPT ![t] = Front(stack[t])]
        /\ ModeBecomes(t, IF Top(t).at = "allidle" THEN "all" ELSE Top(t).oldMode)
    BY <1>9 DEF ServiceAsync, AtStage, Return, Resting, QueuesStay, AlertsStay, LifeStays, Live,
         queueVars, eventVars, listVars, ModeBecomes
  <2>2. Exited(t)
    BY <2>1, PopExits
  <2> QED
    BY <2>1, <2>2 DEF StepKinds, Returning
<1>10. ASSUME NEW t \in Thread, WaitEnds(t)
      PROVE  StepKinds
  <2>1. /\ Resting /\ LifeStays /\ Live(t) /\ stack[t] # <<>> /\ Top(t).ev = None
        /\ UNCHANGED <<serviceMode, owes>>
        /\ GoTo(t, "check") /\ Top(t).at = "blocked"
        /\ \A u \in Thread : u # t => UNCHANGED eventReady[u]
    BY <1>10 DEF WaitEnds, AtStage, Resting, QueuesStay, LifeStays, Live, queueVars, eventVars, listVars, TypeOK
  <2>3. PICK f \in Frame : f = At(Top(t), "check")
    BY <2>1, GoToMoves
  <2>4. Moved(t, f)
    BY <2>1, <2>3, GoToMoves
  <2>5. Top(t) \in Frame
    BY <2>1, TopIsFrame
  <2>6. f.at = "check"
    BY <2>3, <2>5, AtIsFrame
  <2> QED
    BY <2>1, <2>3, <2>4, <2>6 DEF StepKinds, Moving
<1>11. ASSUME NEW t \in Thread, WaitAborts(t)
      PROVE  StepKinds
  <2>1. /\ Resting /\ AlertsStay /\ LifeStays /\ Live(t)
        /\ stack[t] # <<>> /\ Top(t).ev = None /\ Top(t).at \notin {"allcheck", "all"}
        /\ stack' = [stack EXCEPT ![t] = Front(stack[t])]
        /\ ModeBecomes(t, IF Top(t).at = "allidle" THEN "all" ELSE Top(t).oldMode)
    BY <1>11 DEF WaitAborts, AtStage, Return, Resting, QueuesStay, AlertsStay, LifeStays, Live,
         queueVars, eventVars, listVars, ModeBecomes
  <2>2. Exited(t)
    BY <2>1, PopExits
  <2> QED
    BY <2>1, <2>2 DEF StepKinds, Returning
<1>12. ASSUME NEW t \in Thread, NEW e \in Event, NEW pos \in Positions,
          Tcl_QueueEvent(t, e, pos)
      PROVE  StepKinds
  <2>1. /\ QueueEvent(t, e, pos) /\ pos \in {"tail", "head", "mark"}
        /\ UNCHANGED <<inService, stack, serviceMode, eventReady>> /\ LifeStays
        /\ ~Waiting(t) /\ UNCHANGED owes
    BY <1>12, NotifyConstants DEF Tcl_QueueEvent, listVars, LifeStays, Live, AtCode, Waiting
  <2> QED
    BY <2>1 DEF StepKinds, Queueing
<1>13. ASSUME NEW t \in Thread, NEW e \in Event, SourceQueues(t, e)
      PROVE  StepKinds
  <2>1. /\ QueueEvent(t, e, "tail") /\ "tail" \in {"tail", "head", "mark"}
        /\ UNCHANGED <<inService, stack, serviceMode, eventReady>> /\ LifeStays
        /\ ~Waiting(t) /\ UNCHANGED owes
    BY <1>13, NotifyConstants DEF SourceQueues, listVars, LifeStays, Live, AtStage, Waiting
  <2> QED
    BY <2>1 DEF StepKinds, Queueing
<1>14. ASSUME NEW t \in Thread, NEW k \in Type, NEW i \in DOMAIN queue[t],
          Tcl_DeleteEvents(t, k, i)
      PROVE  StepKinds
  <2>1. Live(t)
    BY <1>14, NotifyConstants DEF Tcl_DeleteEvents, AtCode, LifeCycle, Live
  <2>2. Deleting(t, i)
    BY <1>14, <2>1 DEF Deleting, Tcl_DeleteEvents, Selected, AlertsStay, LifeStays, Live, listVars
  <2> QED
    BY <2>2 DEF StepKinds
<1>15. ASSUME NEW t \in Thread, DeleteEventsDone(t)
      PROVE  StepKinds
  <2>1. Standing
    BY <1>15 DEF DeleteEventsDone, Standing, Resting, QueuesStay, AlertsStay, LifeStays, Live, ModeBecomes,
         queueVars, eventVars, listVars
  <2> QED
    BY <2>1 DEF StepKinds
<1>16. ASSUME NEW t \in Thread, NEW flags \in Flags, NEW w \in BOOLEAN,
          Tcl_DoOneEvent(t, flags, w)
      PROVE  StepKinds
  <2>1. /\ Resting /\ AlertsStay /\ LifeStays /\ Live(t)
        /\ stack[t] # <<>> => Suspended(Top(t))
        /\ Push(t, "svc1", IF flags = {} THEN Type ELSE flags, w)
        /\ ModeBecomes(t, "none")
    BY <1>16 DEF Tcl_DoOneEvent, AtCode, Push, Resting, QueuesStay, AlertsStay, LifeStays, Live,
         queueVars, eventVars, listVars, ModeBecomes, Suspended
  <2>2. PICK f \in Frame : f = [at |-> "svc1", flags |-> IF flags = {} THEN Type ELSE flags, dontWait |-> w,
                              oldMode |-> serviceMode[t], ev |-> None, saved |-> 0]
    <3>1. serviceMode[t] \in {"all", "none"}
      BY DEF TypeOK
    <3>2. PICK fl \in SUBSET Type : fl = IF flags = {} THEN Type ELSE flags
      BY NotifyConstants
    <3>3. [at |-> "svc1", flags |-> fl, dontWait |-> w,
           oldMode |-> serviceMode[t], ev |-> None, saved |-> 0] \in Frame
      BY <3>1 DEF Frame
    <3> QED
      BY <3>2, <3>3
  <2>3. Entered(t, f)
    BY <2>1, <2>2, PushEnters
  <2>4. Calling(t, f)
    BY <2>1, <2>2, <2>3 DEF Calling
  <2> QED
    BY <2>4 DEF StepKinds
<1>17. ASSUME NEW t \in Thread, DoIdleEvents(t)
      PROVE  StepKinds
  <2>1. /\ Resting /\ AlertsStay /\ LifeStays /\ Live(t)
        /\ stack[t] # <<>> => Suspended(Top(t))
        /\ Push(t, "idle", {}, TRUE)
        /\ ModeBecomes(t, "none")
    BY <1>17 DEF DoIdleEvents, AtCode, Push, Resting, QueuesStay, AlertsStay, LifeStays, Live,
         queueVars, eventVars, listVars, ModeBecomes, Suspended
  <2>2. PICK f \in Frame : f = [at |-> "idle", flags |-> {}, dontWait |-> TRUE,
                              oldMode |-> serviceMode[t], ev |-> None, saved |-> 0]
    <3>1. serviceMode[t] \in {"all", "none"}
      BY DEF TypeOK
    <3>2. PICK fl \in SUBSET Type : fl = {}
      BY NotifyConstants
    <3>3. [at |-> "idle", flags |-> fl, dontWait |-> TRUE,
           oldMode |-> serviceMode[t], ev |-> None, saved |-> 0] \in Frame
      BY <3>1 DEF Frame
    <3> QED
      BY <3>2, <3>3
  <2>3. Entered(t, f)
    BY <2>1, <2>2, PushEnters
  <2>4. Calling(t, f)
    BY <2>1, <2>2, <2>3 DEF Calling
  <2> QED
    BY <2>4 DEF StepKinds
<1>18. ASSUME NEW t \in Thread, Tcl_ServiceAll(t)
      PROVE  StepKinds
  <2>1. /\ Resting /\ AlertsStay /\ LifeStays /\ Live(t)
        /\ stack[t] # <<>> => Suspended(Top(t))
        /\ Push(t, "allcheck", Type, TRUE)
        /\ ModeBecomes(t, "none")
        /\ serviceMode[t] # "none"
    BY <1>18 DEF Tcl_ServiceAll, AtCode, Push, Resting, QueuesStay, AlertsStay, LifeStays, Live,
         queueVars, eventVars, listVars, ModeBecomes, Suspended
  <2>2. PICK f \in Frame : f = [at |-> "allcheck", flags |-> Type, dontWait |-> TRUE,
                              oldMode |-> serviceMode[t], ev |-> None, saved |-> 0]
    <3>1. serviceMode[t] \in {"all", "none"}
      BY DEF TypeOK
    <3>2. PICK fl \in SUBSET Type : fl = Type
      BY NotifyConstants
    <3>3. [at |-> "allcheck", flags |-> fl, dontWait |-> TRUE,
           oldMode |-> serviceMode[t], ev |-> None, saved |-> 0] \in Frame
      BY <3>1 DEF Frame
    <3> QED
      BY <3>2, <3>3
  <2>3. Entered(t, f)
    BY <2>1, <2>2, PushEnters
  <2>4. Calling(t, f)
    BY <2>1, <2>2, <2>3 DEF Calling
  <2> QED
    BY <2>4 DEF StepKinds
<1>19. ASSUME NEW t \in Thread, NEW mode \in Modes, Tcl_SetServiceMode(t, mode)
      PROVE  StepKinds
  <2>1. Standing
    BY <1>19 DEF Tcl_SetServiceMode, Standing, Resting, QueuesStay, AlertsStay, LifeStays, Live, ModeBecomes,
         queueVars, eventVars, listVars
  <2> QED
    BY <2>1 DEF StepKinds
<1>20. ASSUME NEW t \in Thread, FinalizeQueue(t)
      PROVE  StepKinds
  BY <1>20 DEF StepKinds
<1>21. ASSUME NEW t \in Thread, FinalizeList(t)
      PROVE  StepKinds
  <2>1. UNCHANGED <<queueVars, eventVars, inService, stack, serviceMode, eventReady, owes>>
    BY <1>21 DEF FinalizeList
  <2>2. LifeStays
    BY <1>21 DEF FinalizeList, LifeStays, Live, TypeOK
  <2>3. Standing
    BY <2>1, <2>2 DEF Standing, Resting, QueuesStay, AlertsStay, queueVars, eventVars
  <2> QED
    BY <2>3 DEF StepKinds
<1>22. ASSUME NEW p \in Poster, NEW t \in Thread, NEW e \in Event,
          NEW pos \in Positions, PostAlertIfEmpty(p, t, e, pos)
      PROVE  StepKinds
  <2>1. /\ QueueEvent(t, e, pos) /\ pos \in {"tail", "head", "mark"}
        /\ UNCHANGED <<inService, stack, serviceMode, eventReady>> /\ LifeStays
        /\ \/ owes[p] = None /\ owes' = [owes EXCEPT ![p] = t]
           \/ eventCount[t] > 0 /\ UNCHANGED owes
    BY <1>22, NotifyConstants DEF PostAlertIfEmpty, listVars, LifeStays, Live, TypeOK
  <2> QED
    BY <2>1 DEF StepKinds, Queueing
<1>23. ASSUME NEW p \in Poster, NEW t \in Thread, NEW e \in Event,
          NEW pos \in Positions, Post(p, t, e, pos)
      PROVE  StepKinds
  <2>1. /\ QueueEvent(t, e, pos) /\ pos \in {"tail", "head", "mark"}
        /\ UNCHANGED <<inService, stack, serviceMode, eventReady>> /\ LifeStays
        /\ owes[p] = None /\ owes' = [owes EXCEPT ![p] = t]
    BY <1>23, NotifyConstants DEF Post, listVars, LifeStays, Live
  <2> QED
    BY <2>1 DEF StepKinds, Queueing
<1>24. ASSUME NEW p \in Poster, Tcl_ThreadAlert(p)
      PROVE  StepKinds
  <2>1. Standing
    BY <1>24 DEF Tcl_ThreadAlert, Standing, Resting, QueuesStay, AlertsStay, LifeStays, Live, ModeBecomes,
         queueVars, eventVars, listVars
  <2> QED
    BY <2>1 DEF StepKinds
<1>25. ASSUME UNCHANGED vars
      PROVE  StepKinds
  <2>1. Standing
    BY <1>25 DEF vars, Standing, Resting, QueuesStay, AlertsStay, LifeStays, Live, ModeBecomes,
         queueVars, eventVars, listVars
  <2> QED
    BY <2>1 DEF StepKinds
<1> QED
  BY <1>1, <1>2, <1>3, <1>4, <1>5, <1>6, <1>7, <1>8, <1>9, <1>10, <1>11, <1>12,
     <1>13, <1>14, <1>15, <1>16, <1>17, <1>18, <1>19, <1>20, <1>21, <1>22, <1>23,
     <1>24, <1>25
     DEF Next, ThreadStep, PosterStep, LoopStep, Service, HandlerReturns, IdleReturns

(* The mode and the count a frame remembers.                               *)
LEMMA TopMode ==
  ASSUME TypeOK, NEW t \in Thread, stack[t] # <<>>
  PROVE  Top(t).oldMode \in {"all", "none"} /\ Top(t).saved \in Int
  BY TopIsFrame DEF Frame

(* A frame without a handler is that of a call that goes on with the next  *)
(* event.                                                                  *)
LEMMA ClearedFrame ==
  ASSUME TypeOK, NEW t \in Thread, stack[t] # <<>>, NEW f, f = WithEvent(Top(t), None, 0)
  PROVE  /\ f \in Frame /\ f.ev = None /\ f.saved = 0 /\ f.dontWait = Top(t).dontWait
         /\ f.at = Top(t).at /\ f.flags = Top(t).flags /\ f.oldMode = Top(t).oldMode
<1>1. Top(t) \in Frame
  BY TopIsFrame
<1> DEFINE g == WithEvent(Top(t), None, 0)
<1>2. /\ g \in Frame /\ g.ev = None /\ g.saved = 0 /\ g.dontWait = Top(t).dontWait
      /\ g.at = Top(t).at /\ g.flags = Top(t).flags /\ g.oldMode = Top(t).oldMode
  BY <1>1, WithEventIsFrame
<1> QED
  BY <1>2

(* A loop that moves on changes its stage and nothing else.                *)
LEMMA MovingFrame ==
  ASSUME TypeOK, NEW t \in Thread, NEW f \in Frame, Moving(t, f)
  PROVE  /\ Top(t) \in Frame /\ stack[t] # <<>> /\ Top(t).ev = None /\ f.ev = None
         /\ f.saved = Top(t).saved /\ f.dontWait = Top(t).dontWait
         /\ f.flags = Top(t).flags /\ f.oldMode = Top(t).oldMode
         /\ f.at \in {"allcheck", "all", "allidle"} => Top(t).at \in {"allcheck", "all", "allidle"}
<1>1. stack[t] # <<>> /\ Top(t).ev = None /\ f = At(Top(t), f.at)
      /\ (f.at \in {"allcheck", "all", "allidle"} => Top(t).at \in {"allcheck", "all", "allidle"})
  BY DEF Moving
<1>2. Top(t) \in Frame
  BY <1>1, TopIsFrame
<1>3. PICK x \in {"svc1", "setup", "blocked", "check", "svc2", "idle",
                  "allcheck", "all", "allidle"} : x = f.at
  BY DEF Frame
<1> DEFINE g == At(Top(t), x)
<1>4. /\ g.ev = Top(t).ev /\ g.saved = Top(t).saved /\ g.dontWait = Top(t).dontWait
      /\ g.flags = Top(t).flags /\ g.oldMode = Top(t).oldMode
  BY <1>2, AtIsFrame
<1>5. f = g
  BY <1>1, <1>3
<1> QED
  BY <1>1, <1>2, <1>4, <1>5

(* What is queued is allocated.                                            *)
LEMMA QueuedAllocated ==
  ASSUME QueueShape, NEW t \in Thread, Live(t), NEW i \in DOMAIN queue[t]
  PROVE  queue[t][i] \in alloc
  BY DEF QueueShape, Live, ToSet

(* Every step stays in the types.                                          *)
LEMMA TypeStep ==
  ASSUME TypeOK, QueueShape, ListTypes', StepKinds
  PROVE  TypeOK'
<1>1. ASSUME NEW t \in Thread, NEW e \in Event,
          NEW pos \in {"tail", "head", "mark"}, Queueing(t, e, pos)
      PROVE  TypeOK'
  <2>1. /\ QueueEvent(t, e, pos) /\ UNCHANGED <<inService, stack, serviceMode>>
    BY <1>1 DEF Queueing
  <2>2. inService' \subseteq alloc'
    BY <2>1, QueueEventTypes DEF TypeOK
  <2> QED
    BY <2>1, <2>2, QueueEventTypes DEF TypeOK, ListTypes
<1>2. ASSUME NEW t \in Thread, NEW i \in DOMAIN queue[t], Deleting(t, i)
      PROVE  TypeOK'
  <2>1. /\ Unlink(t, i) /\ UNCHANGED <<inService, stack, serviceMode>>
        /\ queue[t][i] \notin inService
    BY <1>2 DEF Deleting
  <2>2. eventCount' \in [Thread -> Int]
    BY <1>2 DEF Deleting, TypeOK
  <2>3. inService' \subseteq alloc' /\ arrival' \subseteq Event \X Event
    BY <2>1, UnlinkRemoves DEF TypeOK
  <2> QED
    BY <2>1, <2>2, <2>3, UnlinkRemoves DEF TypeOK, ListTypes
<1>3. ASSUME NEW t \in Thread, NEW i \in DOMAIN queue[t], NEW f \in Frame,
          Dispatching(t, i, f)
      PROVE  TypeOK'
  <2>1. /\ stack' \in [Thread -> Seq(Frame)]
        /\ UNCHANGED <<serviceMode, queue, arrival, lastEventPtr, markerEventPtr, alloc, position>>
    BY <1>3 DEF Dispatching, Moved, QueuesStay
  <2>2. eventCount' \in [Thread -> Int]
    BY <1>3, TopMode DEF Dispatching, TypeOK
  <2>3. inService' \subseteq alloc
    BY <1>3, QueuedAllocated DEF Dispatching, TypeOK, Live
  <2> QED
    BY <2>1, <2>2, <2>3 DEF TypeOK, ListTypes
<1>4. ASSUME NEW t \in Thread, NEW i \in DOMAIN queue[t], NEW f \in Frame,
          Handled(t, i, f)
      PROVE  TypeOK'
  <2>1. /\ Unlink(t, i) /\ inService' = inService \ {queue[t][i]}
        /\ stack[t] # <<>>
    BY <1>4 DEF Handled
  <2>2. eventCount' \in [Thread -> Int]
    BY <1>4, TopMode DEF Handled, TypeOK
  <2>3. inService' \subseteq alloc' /\ arrival' \subseteq Event \X Event
    BY <2>1, UnlinkRemoves DEF TypeOK
  <2>4. /\ stack' \in [Thread -> Seq(Frame)]
        /\ serviceMode' \in [Thread -> {"all", "none"}]
    BY <1>4, <2>1, TopMode DEF Handled, ModeBecomes, Moved, Exited, TypeOK
  <2> QED
    BY <2>1, <2>2, <2>3, <2>4, UnlinkRemoves DEF TypeOK, ListTypes
<1>5. ASSUME NEW t \in Thread, NEW i \in DOMAIN queue[t], NEW f \in Frame,
          Deferred(t, i, f)
      PROVE  TypeOK'
  <2>1. /\ stack' \in [Thread -> Seq(Frame)]
        /\ UNCHANGED <<serviceMode, queue, arrival, lastEventPtr, markerEventPtr, alloc, position>>
    BY <1>5 DEF Deferred, Moved, QueuesStay
  <2>2. eventCount' \in [Thread -> Int]
    BY <1>5, TopMode DEF Deferred, TypeOK
  <2>3. inService' \subseteq alloc
    BY <1>5, QueuedAllocated DEF Deferred, TypeOK, Live
  <2> QED
    BY <2>1, <2>2, <2>3 DEF TypeOK, ListTypes
<1>6. ASSUME NEW t \in Thread, NEW f \in Frame, DeferredLast(t, f)
      PROVE  TypeOK'
  <2>1. /\ stack' \in [Thread -> Seq(Frame)]
        /\ UNCHANGED <<serviceMode, queue, arrival, lastEventPtr, markerEventPtr, alloc, position>>
    BY <1>6 DEF DeferredLast, Moved, QueuesStay
  <2>2. eventCount' \in [Thread -> Int]
    BY <1>6, TopMode DEF DeferredLast, TypeOK
  <2>3. inService' \subseteq alloc
    BY <1>6, QueuedAllocated DEF DeferredLast, TypeOK, Live
  <2> QED
    BY <2>1, <2>2, <2>3 DEF TypeOK, ListTypes
<1>7. ASSUME NEW t \in Thread, NEW f \in Frame, Calling(t, f)
      PROVE  TypeOK'
  <2>1. stack' \in [Thread -> Seq(Frame)]
    BY <1>7 DEF Calling, Entered
  <2>2. serviceMode' \in [Thread -> {"all", "none"}]
    BY <1>7, TopMode DEF Calling, ModeBecomes, TypeOK
  <2>3. UNCHANGED <<queue, arrival, lastEventPtr, markerEventPtr, eventCount, alloc, position,
                    inService>>
    BY <1>7 DEF Calling, Resting, QueuesStay
  <2> QED
    BY <2>1, <2>2, <2>3 DEF TypeOK, ListTypes
<1>8. ASSUME NEW t \in Thread, NEW f \in Frame, Moving(t, f)
      PROVE  TypeOK'
  <2>1. stack' \in [Thread -> Seq(Frame)]
    BY <1>8 DEF Moving, Moved
  <2>2. serviceMode' \in [Thread -> {"all", "none"}]
    BY <1>8, TopMode DEF Moving, ModeBecomes, TypeOK
  <2>3. UNCHANGED <<queue, arrival, lastEventPtr, markerEventPtr, eventCount, alloc, position,
                    inService>>
    BY <1>8 DEF Moving, Resting, QueuesStay
  <2> QED
    BY <2>1, <2>2, <2>3 DEF TypeOK, ListTypes
<1>9. ASSUME NEW t \in Thread, Returning(t)
      PROVE  TypeOK'
  <2>1. stack' \in [Thread -> Seq(Frame)]
    BY <1>9 DEF Returning, Exited
  <2>2. serviceMode' \in [Thread -> {"all", "none"}]
    BY <1>9, TopMode DEF Returning, ModeBecomes, TypeOK
  <2>3. UNCHANGED <<queue, arrival, lastEventPtr, markerEventPtr, eventCount, alloc, position,
                    inService>>
    BY <1>9 DEF Returning, Resting, QueuesStay
  <2> QED
    BY <2>1, <2>2, <2>3 DEF TypeOK, ListTypes
<1>10. ASSUME NEW t \in Thread, FinalizeQueue(t)
      PROVE  TypeOK'
  <2>1. /\ alloc' = alloc \ ToSet(queue[t]) /\ inService' = inService \ ToSet(queue[t])
        /\ arrival' = arrival \cap (alloc' \X alloc')
        /\ position' \in [Event -> {"tail", "head", "mark"}]
        /\ stack' \in [Thread -> Seq(Frame)] /\ queue' \in [Thread -> Seq(Event)]
    <3>1. <<>> \in Seq(Frame) /\ <<>> \in Seq(Event)
      OBVIOUS
    <3> HIDE DEF Frame
    <3> QED
      BY <1>10, <3>1 DEF FinalizeQueue, TypeOK
  <2>2. /\ alloc' \subseteq Event /\ inService' \subseteq alloc'
        /\ arrival' \subseteq Event \X Event
    BY <2>1 DEF TypeOK
  <2> QED
    BY <1>10, <2>1, <2>2 DEF FinalizeQueue, TypeOK, ListTypes
<1>11. CASE Standing
  <2>1. UNCHANGED <<queue, arrival, lastEventPtr, markerEventPtr, eventCount, alloc, position,
                    inService, stack>>
    BY <1>11 DEF Standing, Resting, QueuesStay
  <2>2. serviceMode' \in [Thread -> {"all", "none"}]
    <3>1. serviceMode \in [Thread -> {"all", "none"}]
      BY DEF TypeOK
    <3>2. \A m \in Modes : m \in {"all", "none"}
      BY NotifyConstants
    <3>3. UNCHANGED serviceMode \/ \E t \in Thread, m \in Modes : ModeBecomes(t, m)
      BY <1>11 DEF Standing
    <3> QED
      BY <3>1, <3>2, <3>3 DEF ModeBecomes
  <2> QED
    BY <2>1, <2>2 DEF TypeOK, ListTypes
<1> QED
  BY <1>1, <1>2, <1>3, <1>4, <1>5, <1>6, <1>7, <1>8, <1>9, <1>10, <1>11
     DEF StepKinds

------------------------------------------------------------------------------
(* Nesting.                                                                *)

(* The nesting of loops is kept when it is in the thread that steps.       *)
LEMMA FramesKept ==
  ASSUME FramesNest, LifeStays, NEW t \in Thread, Live(t),
         \A u \in Thread : u # t => stack'[u] = stack[u],
         \A d \in DOMAIN stack'[t] :
            /\ d < Len(stack'[t]) => Suspended(stack'[t][d])
            /\ stack'[t][d].ev # None => stack'[t][d].at \in {"svc1", "svc2", "all"}
            /\ stack'[t][d].ev = None => stack'[t][d].saved = 0
  PROVE  FramesNest'
  BY DEF FramesNest, LifeStays, Suspended

(* It is when the innermost call goes on ...                               *)
LEMMA FramesMoved ==
  ASSUME TypeOK, FramesNest, NEW t \in Thread, Live(t), LifeStays, stack[t] # <<>>,
         NEW f, Moved(t, f),
         f.ev # None => f.at \in {"svc1", "svc2", "all"},
         f.ev = None => f.saved = 0
  PROVE  FramesNest'
<1>1. stack[t] # <<>> /\ Moved(t, f)
  OBVIOUS
<1>3. ASSUME NEW d \in DOMAIN stack'[t]
      PROVE  /\ d < Len(stack'[t]) => Suspended(stack'[t][d])
             /\ stack'[t][d].ev # None => stack'[t][d].at \in {"svc1", "svc2", "all"}
             /\ stack'[t][d].ev = None => stack'[t][d].saved = 0
  <2>1. CASE d = Len(stack[t])
    BY <1>1, <1>3, <2>1 DEF Moved
  <2>2. CASE d # Len(stack[t])
    <3>1. d \in DOMAIN stack[t] /\ stack'[t][d] = stack[t][d] /\ d < Len(stack[t])
      BY <1>1, <1>3, <2>2, TopIsFrame DEF Moved
    <3> QED
      BY <3>1 DEF FramesNest
  <2> QED
    BY <2>1, <2>2
<1>4. \A u \in Thread : u # t => stack'[u] = stack[u]
  BY <1>1 DEF Moved
<1> QED
  BY <1>1, <1>3, <1>4, FramesKept

(* ... and when it returns.                                                *)
LEMMA FramesExited ==
  ASSUME TypeOK, FramesNest, NEW t \in Thread, Live(t), LifeStays, stack[t] # <<>>, Exited(t)
  PROVE  FramesNest'
<1>1. DOMAIN stack[t] = 1..Len(stack[t]) /\ Len(stack[t]) \in Nat \ {0}
  BY TopIsFrame
<1>2. ASSUME NEW d \in DOMAIN stack'[t]
      PROVE  /\ d < Len(stack'[t]) => Suspended(stack'[t][d])
             /\ stack'[t][d].ev # None => stack'[t][d].at \in {"svc1", "svc2", "all"}
             /\ stack'[t][d].ev = None => stack'[t][d].saved = 0
  <2>1. d \in DOMAIN stack[t] /\ stack'[t][d] = stack[t][d] /\ d < Len(stack[t])
    BY <1>1, <1>2 DEF Exited
  <2> QED
    BY <2>1 DEF FramesNest
<1>3. \A u \in Thread : u # t => stack'[u] = stack[u]
  BY DEF Exited
<1> QED
  BY <1>2, <1>3, FramesKept

(* Every step keeps the nesting.                                           *)
LEMMA NestStep ==
  ASSUME TypeOK, QueueShape, FramesNest, StepKinds
  PROVE  FramesNest'
<1>1. ASSUME NEW t \in Thread, NEW e \in Event,
          NEW pos \in {"tail", "head", "mark"}, Queueing(t, e, pos)
      PROVE  FramesNest'
  <2>1. UNCHANGED stack /\ LifeStays
    BY <1>1 DEF Queueing
  <2> QED
    BY <2>1 DEF FramesNest, LifeStays
<1>2. ASSUME NEW t \in Thread, NEW i \in DOMAIN queue[t], Deleting(t, i)
      PROVE  FramesNest'
  <2>1. UNCHANGED stack /\ LifeStays
    BY <1>2 DEF Deleting
  <2> QED
    BY <2>1 DEF FramesNest, LifeStays
<1>3. ASSUME NEW t \in Thread, NEW i \in DOMAIN queue[t], NEW f \in Frame,
          Dispatching(t, i, f)
      PROVE  FramesNest'
  <2>1. Live(t) /\ LifeStays /\ stack[t] # <<>> /\ Moved(t, f)
    BY <1>3 DEF Dispatching
  <2>2. /\ f.ev # None => f.at \in {"svc1", "svc2", "all"}
        /\ f.ev = None => f.saved = 0
    <3>1. Top(t) \in Frame /\ Top(t).at \in {"svc1", "svc2", "all"}
      BY <1>3, <2>1, TopIsFrame DEF Dispatching
    <3>2. queue[t][i] \in Event /\ eventCount[t] \in Int
      BY QueueType
    <3>3. f = WithEvent(Top(t), queue[t][i], eventCount[t])
      BY <1>3 DEF Dispatching
    <3>4. f.ev = queue[t][i] /\ f.at = Top(t).at
      BY <3>1, <3>2, <3>3, WithEventIsFrame
    <3> QED
      BY <3>1, <3>2, <3>4, NotifyConstants
  <2> QED
    BY <2>1, <2>2, FramesMoved
<1>4. ASSUME NEW t \in Thread, NEW i \in DOMAIN queue[t], NEW f \in Frame,
          Handled(t, i, f)
      PROVE  FramesNest'
  <2>1. Live(t) /\ LifeStays /\ stack[t] # <<>>
    BY <1>4 DEF Handled
  <2>2. CASE Top(t).at = "all"
    <3>1. Moved(t, f) /\ f.ev = None /\ f.saved = 0
      <4>1. Top(t) \in Frame
        BY <2>1, TopIsFrame
      <4>2. WithEvent(Top(t), None, 0).ev = None /\ WithEvent(Top(t), None, 0).saved = 0
        BY <4>1, WithEventIsFrame
      <4> QED
        BY <1>4, <2>2, <4>2 DEF Handled
    <3> QED
      BY <2>1, <3>1, FramesMoved
  <2>3. CASE Top(t).at # "all"
    BY <1>4, <2>1, <2>3, FramesExited DEF Handled
  <2> QED
    BY <2>2, <2>3
<1>5. ASSUME NEW t \in Thread, NEW i \in DOMAIN queue[t], NEW f \in Frame,
          Deferred(t, i, f)
      PROVE  FramesNest'
  <2>1. Live(t) /\ LifeStays /\ stack[t] # <<>> /\ Moved(t, f)
    BY <1>5 DEF Deferred
  <2>2. /\ f.ev # None => f.at \in {"svc1", "svc2", "all"}
        /\ f.ev = None => f.saved = 0
    <3>1. Top(t) \in Frame /\ Top(t).at \in {"svc1", "svc2", "all"}
      BY <1>5, <2>1, TopIsFrame DEF Deferred, FramesNest
    <3>2. eventCount[t] + Top(t).saved \in Int
      BY <2>1, QueueType, TopMode
    <3>3. queue[t][i] \in Event
      BY QueueType
    <3>4. f = WithEvent(Top(t), queue[t][i], eventCount[t] + Top(t).saved)
      BY <1>5 DEF Deferred
    <3>5. f.ev = queue[t][i] /\ f.at = Top(t).at
      BY <3>1, <3>2, <3>3, <3>4, WithEventIsFrame
    <3> QED
      BY <3>1, <3>3, <3>5, NotifyConstants
  <2> QED
    BY <2>1, <2>2, FramesMoved
<1>6. ASSUME NEW t \in Thread, NEW f \in Frame, DeferredLast(t, f)
      PROVE  FramesNest'
  <2>1. Live(t) /\ LifeStays /\ stack[t] # <<>> /\ Moved(t, f)
    BY <1>6 DEF DeferredLast
  <2>2. /\ f.ev # None => f.at \in {"svc1", "svc2", "all"}
        /\ f.ev = None => f.saved = 0
    <3>1. PICK g \in Frame : g = WithEvent(Top(t), None, 0) /\ g.ev = None /\ g.saved = 0
      <4>1. Top(t) \in Frame
        BY <2>1, TopIsFrame
      <4>2. /\ WithEvent(Top(t), None, 0) \in Frame
            /\ WithEvent(Top(t), None, 0).ev = None /\ WithEvent(Top(t), None, 0).saved = 0
        BY <4>1, WithEventIsFrame
      <4> QED
        BY <4>2
    <3> QED
      BY <1>6, <3>1, AtIsFrame DEF DeferredLast
  <2> QED
    BY <2>1, <2>2, FramesMoved
<1>7. ASSUME NEW t \in Thread, NEW f \in Frame, Calling(t, f)
      PROVE  FramesNest'
  <2>1. /\ Live(t) /\ LifeStays /\ Entered(t, f) /\ f.ev = None /\ f.saved = 0
        /\ stack[t] # <<>> => Suspended(Top(t))
    BY <1>7 DEF Calling, Frame
  <2>2. stack[t] \in Seq(Frame) /\ DOMAIN stack[t] = 1..Len(stack[t]) /\ Len(stack[t]) \in Nat
    BY StackType
  <2>3. ASSUME NEW d \in DOMAIN stack'[t]
        PROVE  /\ d < Len(stack'[t]) => Suspended(stack'[t][d])
               /\ stack'[t][d].ev # None => stack'[t][d].at \in {"svc1", "svc2", "all"}
               /\ stack'[t][d].ev = None => stack'[t][d].saved = 0
    <3>1. CASE d = Len(stack[t]) + 1
      BY <2>1, <2>2, <2>3, <3>1 DEF Entered
    <3>2. CASE d # Len(stack[t]) + 1
      <4>1. d \in DOMAIN stack[t] /\ stack'[t][d] = stack[t][d] /\ stack[t] # <<>>
        BY <2>1, <2>2, <2>3, <3>2 DEF Entered
      <4>2. Suspended(stack[t][d])
        <5>1. CASE d = Len(stack[t])
          BY <2>1, <4>1, <5>1, TopIsFrame
        <5>2. CASE d # Len(stack[t])
          BY <2>2, <4>1, <5>2 DEF FramesNest
        <5> QED
          BY <5>1, <5>2
      <4> QED
        BY <4>1, <4>2 DEF FramesNest
    <3> QED
      BY <3>1, <3>2
  <2>4. \A u \in Thread : u # t => stack'[u] = stack[u]
    BY <2>1 DEF Entered
  <2> QED
    BY <2>1, <2>3, <2>4, FramesKept
<1>8. ASSUME NEW t \in Thread, NEW f \in Frame, Moving(t, f)
      PROVE  FramesNest'
  <2>1. Live(t) /\ LifeStays /\ stack[t] # <<>> /\ Moved(t, f)
    BY <1>8 DEF Moving
  <2>2. /\ f.ev # None => f.at \in {"svc1", "svc2", "all"}
        /\ f.ev = None => f.saved = 0
    <3>1. f.ev = Top(t).ev /\ f.saved = Top(t).saved /\ Top(t).ev = None
      BY <1>8, <2>1, TopIsFrame, AtIsFrame DEF Moving, Frame
    <3> QED
      BY <2>1, <3>1, TopIsFrame DEF FramesNest
  <2> QED
    BY <2>1, <2>2, FramesMoved
<1>9. ASSUME NEW t \in Thread, Returning(t)
      PROVE  FramesNest'
  BY <1>9, FramesExited DEF Returning
<1>10. ASSUME NEW t \in Thread, FinalizeQueue(t)
      PROVE  FramesNest'
  <2>1. stack'[t] = <<>> /\ \A u \in Thread : u # t => stack'[u] = stack[u]
    BY <1>10 DEF FinalizeQueue, TypeOK
  <2>2. \A u \in Thread : u # t => (Live(u)' <=> Live(u))
    BY <1>10 DEF FinalizeQueue, Live, TypeOK
  <2> QED
    BY <2>1, <2>2 DEF FramesNest
<1>11. CASE Standing
  <2>1. UNCHANGED stack /\ LifeStays
    BY <1>11 DEF Standing
  <2> QED
    BY <2>1 DEF FramesNest, LifeStays
<1> QED
  BY <1>1, <1>2, <1>3, <1>4, <1>5, <1>6, <1>7, <1>8, <1>9, <1>10, <1>11
     DEF StepKinds

------------------------------------------------------------------------------
(* The queues.                                                             *)

(* What a step does to the queues.                                         *)
Fading == \A u \in Thread : Live(u)' => Live(u)
Linking(t, e, pos) == LifeStays /\ QueueEvent(t, e, pos)
Unlinking(t, i) == LifeStays /\ Live(t) /\ Unlink(t, i)
QueueKinds ==
    \/ \E t \in Thread, e \in Event, pos \in {"tail", "head", "mark"} : Linking(t, e, pos)
    \/ \E t \in Thread : \E i \in DOMAIN queue[t] : Unlinking(t, i)
    \/ \E t \in Thread : FinalizeQueue(t)
    \/ LifeStays /\ QueuesStay

(* There are no other ways.                                                *)
LEMMA QueueSteps ==
  ASSUME StepKinds
  PROVE  QueueKinds
BY DEF StepKinds, QueueKinds, Linking, Unlinking, Queueing, Deleting, Dispatching,
       Handled, Deferred, DeferredLast, Calling, Moving, Returning, Standing, Resting

(* The queue of t, and the pointers beside it.                             *)
Shape(t) ==
    /\ \A i, j \in DOMAIN queue[t] : queue[t][i] = queue[t][j] => i = j
    /\ \A i \in DOMAIN queue[t] : queue[t][i] \in alloc
    /\ lastEventPtr[t] = IF queue[t] = <<>> THEN None ELSE queue[t][Len(queue[t])]
    /\ markerEventPtr[t] = None \/ \E i \in DOMAIN queue[t] : queue[t][i] = markerEventPtr[t]

AllShapes == \A t \in Thread : Live(t) => Shape(t)

(* QueueShape is about the queues one by one.                              *)
LEMMA ShapeIsQueueShape == QueueShape <=> AllShapes
<1>1. ASSUME NEW t \in Thread
      PROVE  (LET q == queue[t] IN
              /\ IsInjective(q) /\ ToSet(q) \subseteq alloc
              /\ lastEventPtr[t] = IF q = <<>> THEN None ELSE Last(q)
              /\ markerEventPtr[t] \in ToSet(q) \cup {None}) <=> Shape(t)
  <2>1. IsInjective(queue[t]) <=> \A i, j \in DOMAIN queue[t] : queue[t][i] = queue[t][j] => i = j
    BY DEF IsInjective
  <2>2. ToSet(queue[t]) \subseteq alloc <=> \A i \in DOMAIN queue[t] : queue[t][i] \in alloc
    BY DEF ToSet
  <2>3. markerEventPtr[t] \in ToSet(queue[t]) \cup {None}
        <=> markerEventPtr[t] = None \/ \E i \in DOMAIN queue[t] : queue[t][i] = markerEventPtr[t]
    BY DEF ToSet
  <2> QED
    BY <2>1, <2>2, <2>3 DEF Shape, Last
<1> QED
  BY <1>1 DEF QueueShape, AllShapes, Live

(* So it is after a step.                                                  *)
LEMMA ShapeIsQueueShapeNext == AllShapes' => QueueShape'
<1>1. [](QueueShape <=> AllShapes)
  BY ShapeIsQueueShape, PTL
<1> QED
  BY <1>1, PTL

(* What the other queues need: the queue of t changes, by one new event at *)
(* most, and no event of another queue is freed.                           *)
LEMMA ShapeKept ==
  ASSUME QueueShape, QueuesApart, Fading, NEW t \in Thread,
         \A u \in Thread : u # t =>
            UNCHANGED <<queue[u], lastEventPtr[u], markerEventPtr[u]>>,
         \A u \in Thread : u # t /\ Live(u) =>
            \A i \in DOMAIN queue[u] : queue[u][i] \in alloc',
         Live(t)' => /\ Shape(t)'
                     /\ \A i \in DOMAIN queue'[t] :
                           queue'[t][i] \in Queued(t) \/ queue'[t][i] \notin alloc
  PROVE  QueueShape' /\ QueuesApart'
<1>1. ASSUME NEW u \in Thread, Live(u)' PROVE Shape(u)'
  <2>1. CASE u = t
    BY <1>1, <2>1
  <2>2. CASE u # t
    <3>1. Shape(u)
      BY <1>1, ShapeIsQueueShape DEF AllShapes, Fading
    <3> QED
      BY <1>1, <2>2, <3>1 DEF Shape, Fading
  <2> QED
    BY <2>1, <2>2
<1>2. ASSUME NEW u \in Thread, NEW v \in Thread, Live(u)', Live(v)', u # v, v # t,
             NEW i \in DOMAIN queue'[u], NEW j \in DOMAIN queue'[v]
      PROVE  queue'[u][i] # queue'[v][j]
  <2>1. j \in DOMAIN queue[v] /\ queue'[v][j] = queue[v][j] /\ queue[v][j] \in Queued(v)
    BY <1>2 DEF Queued
  <2>2. Queued(u) \cap Queued(v) = {}
    BY <1>2 DEF QueuesApart, Fading
  <2>3. queue[v][j] \in alloc
    BY <1>2, <2>1, QueuedAllocated DEF Fading
  <2>4. CASE u = t
    BY <1>2, <2>1, <2>2, <2>3, <2>4
  <2>5. CASE u # t
    <3>1. queue'[u][i] \in Queued(u)
      BY <1>2, <2>5 DEF Queued
    <3> QED
      BY <2>1, <2>2, <3>1
  <2> QED
    BY <2>4, <2>5
<1>3. QueueShape'
  <2>1. AllShapes'
    BY <1>1 DEF AllShapes
  <2> QED
    BY <2>1, ShapeIsQueueShapeNext
<1>4. ASSUME NEW u \in Thread, NEW v \in Thread, Live(u)', Live(v)', u # v
      PROVE  (Queued(u) \cap Queued(v))' = {}
  <2>1. CASE v # t
    BY <1>2, <1>4, <2>1 DEF Queued
  <2>2. CASE u # t
    BY <1>2, <1>4, <2>2 DEF Queued
  <2> QED
    BY <1>4, <2>1, <2>2
<1> QED
  BY <1>3, <1>4 DEF QueuesApart

(* Queueing keeps the shape: the new event is at one place of the chain,   *)
(* and both pointers are in it.                                            *)
LEMMA LinkingShape ==
  ASSUME TypeOK, QueueShape, NEW t \in Thread, Live(t), NEW e \in Event,
         NEW pos \in {"tail", "head", "mark"}, QueueEvent(t, e, pos)
  PROVE  /\ Shape(t)'
         /\ \A i \in DOMAIN queue'[t] : queue'[t][i] \in Queued(t) \/ queue'[t][i] = e
<1> DEFINE q == queue[t]
           r == queue'[t]
           n == Len(queue[t])
<1>1. q \in Seq(Event) /\ n \in Nat /\ DOMAIN q = 1..n /\ (q = <<>> <=> n = 0)
  <2>1. q \in Seq(Event)
    BY DEF TypeOK
  <2> QED
    BY <2>1
<1>2. PICK k \in 1..(n + 1) : LinkedAt(t, e, pos, k)
  BY QueueEventLinks
<1>3. Inserted(r, q, k, e)
  BY <1>2 DEF LinkedAt
<1>4. /\ k \in DOMAIN r /\ r[k] = e
      /\ \A j \in DOMAIN r : j # k =>
            \E i \in DOMAIN q : r[j] = q[i] /\ (j < k => i = j) /\ (j > k => i = j - 1)
      /\ \A i \in DOMAIN q :
            \E j \in DOMAIN r : j # k /\ r[j] = q[i] /\ (i < k => j = i) /\ (i >= k => j = i + 1)
  <2>1. OnePlaceOn(r, q, k, e)
    BY <1>1, <1>3, InsertedPlaces
  <2> QED
    BY <2>1 DEF OnePlaceOn
<1>5. e \notin alloc /\ alloc' = alloc \cup {e} /\ r \in Seq(Event)
  BY QueueEventTypes
<1>6. Shape(t)
  BY ShapeIsQueueShape DEF AllShapes
<1>7. DOMAIN r = 1..(n + 1) /\ r # <<>> /\ Len(r) = n + 1
  <2>1. DOMAIN r = 1..(n + 1)
    BY <1>3 DEF Inserted
  <2> QED
    BY <1>1, <1>5, <2>1
<1>8. \A i \in DOMAIN q : q[i] # e
  BY <1>5, <1>6 DEF Shape
<1>9. ASSUME NEW i \in DOMAIN r, NEW j \in DOMAIN r, r[i] = r[j]
      PROVE  i = j
  <2>1. CASE i = k \/ j = k
    BY <1>4, <1>8, <1>9, <2>1
  <2>2. CASE i # k /\ j # k
    <3>1. PICK a \in DOMAIN q : r[i] = q[a] /\ (i < k => a = i) /\ (i > k => a = i - 1)
      BY <1>4, <2>2
    <3>2. PICK b \in DOMAIN q : r[j] = q[b] /\ (j < k => b = j) /\ (j > k => b = j - 1)
      BY <1>4, <2>2
    <3>3. a = b
      BY <1>6, <1>9, <3>1, <3>2 DEF Shape
    <3> QED
      BY <1>1, <1>7, <2>2, <3>1, <3>2, <3>3
  <2> QED
    BY <2>1, <2>2
<1>10. \A i \in DOMAIN r : r[i] \in Queued(t) \/ r[i] = e
  BY <1>4 DEF Queued
<1>11. \A i \in DOMAIN r : r[i] \in alloc'
  BY <1>5, <1>6, <1>10 DEF Queued, Shape
<1>12. lastEventPtr'[t] = r[n + 1]
  <2>1. lastEventPtr'[t] = IF k = n + 1 THEN e ELSE lastEventPtr[t]
    BY <1>2 DEF LinkedAt
  <2>2. CASE k # n + 1
    <3>1. r[n + 1] = q[(n + 1) - 1] /\ q # <<>> /\ (n + 1) - 1 = n
      BY <1>1, <1>3, <2>2 DEF Inserted
    <3>2. lastEventPtr[t] = q[n]
      BY <1>6, <3>1 DEF Shape
    <3> QED
      BY <2>1, <2>2, <3>1, <3>2
  <2> QED
    BY <1>4, <2>1, <2>2
<1>13. markerEventPtr'[t] = None \/ \E i \in DOMAIN r : r[i] = markerEventPtr'[t]
  <2>1. markerEventPtr'[t] = e \/ markerEventPtr'[t] = markerEventPtr[t]
    BY <1>2 DEF LinkedAt
  <2> QED
    BY <1>4, <1>6, <2>1 DEF Shape
<1> QED
  BY <1>7, <1>9, <1>10, <1>11, <1>12, <1>13 DEF Shape

(* So does unlinking: the pointers move off the event that is freed.       *)
LEMMA UnlinkingShape ==
  ASSUME TypeOK, QueueShape, NEW t \in Thread, Live(t), NEW i \in DOMAIN queue[t], Unlink(t, i)
  PROVE  Shape(t)' /\ \A j \in DOMAIN queue'[t] : queue'[t][j] \in Queued(t)
<1> DEFINE q == queue[t]
           r == queue'[t]
           n == Len(queue[t])
           prevPtr == IF i = 1 THEN None ELSE q[i - 1]
<1>1. q \in Seq(Event) /\ n \in Nat /\ DOMAIN q = 1..n
  <2>1. q \in Seq(Event)
    BY DEF TypeOK
  <2> QED
    BY <2>1
<1>2. /\ Removed(r, q, i) /\ alloc' = alloc \ {q[i]} /\ queue' \in [Thread -> Seq(Event)]
      /\ lastEventPtr'[t] = IF i = n THEN prevPtr ELSE lastEventPtr[t]
      /\ markerEventPtr'[t] = IF markerEventPtr[t] = q[i] THEN prevPtr ELSE markerEventPtr[t]
  BY UnlinkRemoves
<1>3. /\ \A j \in DOMAIN r : \E a \in DOMAIN q : /\ a # i /\ r[j] = q[a]
                                                 /\ j < i => a = j
                                                 /\ j >= i => a = j + 1
      /\ \A a \in DOMAIN q : a # i => \E j \in DOMAIN r : /\ r[j] = q[a]
                                                          /\ a < i => j = a
                                                          /\ a > i => j = a - 1
  <2>1. OnePlaceBack(r, q, i)
    BY <1>1, <1>2, RemovedPlaces
  <2> QED
    BY <2>1 DEF OnePlaceBack
<1>4. Shape(t)
  BY ShapeIsQueueShape DEF AllShapes
<1>5. DOMAIN r = 1..(n - 1) /\ r \in Seq(Event) /\ Len(r) = n - 1 /\ (r = <<>> <=> n = 1)
  <2>1. DOMAIN r = 1..(n - 1) /\ r \in Seq(Event) /\ i \in 1..n
    BY <1>1, <1>2 DEF Removed
  <2>2. n - 1 \in Nat
    BY <1>1, <2>1
  <2>3. Len(r) = n - 1
    BY <2>1, <2>2
  <2>4. r = <<>> <=> Len(r) = 0
    BY <2>1
  <2> QED
    BY <1>1, <2>1, <2>3, <2>4
<1>6. ASSUME NEW j \in DOMAIN r, NEW k \in DOMAIN r, r[j] = r[k]
      PROVE  j = k
  <2>1. PICK a \in DOMAIN q : a # i /\ r[j] = q[a] /\ (j < i => a = j) /\ (j >= i => a = j + 1)
    BY <1>3
  <2>2. PICK b \in DOMAIN q : b # i /\ r[k] = q[b] /\ (k < i => b = k) /\ (k >= i => b = k + 1)
    BY <1>3
  <2>3. a = b
    BY <1>4, <1>6, <2>1, <2>2 DEF Shape
  <2> QED
    BY <1>1, <1>5, <2>1, <2>2, <2>3
<1>7. \A j \in DOMAIN r : r[j] \in alloc' /\ r[j] \in Queued(t)
  <2> TAKE j \in DOMAIN r
  <2>1. PICK a \in DOMAIN q : a # i /\ r[j] = q[a]
    BY <1>3
  <2> QED
    BY <1>2, <1>4, <2>1 DEF Shape, Queued
<1>8. prevPtr = None \/ \E j \in DOMAIN r : r[j] = prevPtr
  <2>1. CASE i # 1
    <3>1. i - 1 \in DOMAIN q /\ i - 1 # i /\ prevPtr = q[i - 1]
      BY <1>1, <2>1
    <3> QED
      BY <1>3, <3>1
  <2> QED
    BY <2>1
<1>9. lastEventPtr'[t] = IF r = <<>> THEN None ELSE r[n - 1]
  <2>1. CASE i = n
    <3>1. n # 1 => r[n - 1] = q[n - 1]
      <4>1. n # 1 => n - 1 \in 1..(n - 1) /\ n - 1 < i
        <5>1. i \in 1..n /\ n \in Nat
          BY <1>1
        <5> HIDE DEF n
        <5> QED
          BY <2>1, <5>1
      <4> QED
        BY <1>2, <4>1 DEF Removed
    <3> QED
      BY <1>1, <1>2, <1>5, <2>1, <3>1
  <2>2. CASE i # n
    <3>1. r[n - 1] = q[(n - 1) + 1] /\ (n - 1) + 1 = n /\ n # 1 /\ q # <<>>
      BY <1>1, <1>2, <2>2 DEF Removed
    <3> QED
      BY <1>2, <1>4, <1>5, <2>2, <3>1 DEF Shape
  <2> QED
    BY <2>1, <2>2
<1>10. markerEventPtr'[t] = None \/ \E j \in DOMAIN r : r[j] = markerEventPtr'[t]
  <2>1. CASE markerEventPtr[t] = q[i]
    BY <1>2, <1>8, <2>1
  <2>2. CASE markerEventPtr[t] # q[i] /\ markerEventPtr[t] # None
    <3>1. PICK a \in DOMAIN q : q[a] = markerEventPtr[t]
      BY <1>4, <2>2 DEF Shape
    <3>2. a # i
      BY <2>2, <3>1
    <3>3. PICK j \in DOMAIN r : r[j] = q[a]
      BY <1>3, <3>2
    <3> QED
      BY <1>2, <2>2, <3>1, <3>3
  <2>3. CASE markerEventPtr[t] # q[i] /\ markerEventPtr[t] = None
    BY <1>2, <2>3
  <2> QED
    BY <2>1, <2>2, <2>3
<1> QED
  BY <1>5, <1>6, <1>7, <1>9, <1>10 DEF Shape

(* Every step keeps the queues in shape, and apart from one another.       *)
LEMMA ShapeStep ==
  ASSUME TypeOK, QueueShape, QueuesApart, QueueKinds
  PROVE  QueueShape' /\ QueuesApart'
<1>1. ASSUME NEW t \in Thread, NEW e \in Event, NEW pos \in {"tail", "head", "mark"},
             Linking(t, e, pos)
      PROVE  QueueShape' /\ QueuesApart'
  <2>1. QueueEvent(t, e, pos) /\ LifeStays
    BY <1>1 DEF Linking
  <2>2. /\ alloc' = alloc \cup {e} /\ e \notin alloc
        /\ \A u \in Thread : u # t =>
              UNCHANGED <<queue[u], lastEventPtr[u], markerEventPtr[u]>>
    BY <2>1, QueueEventTypes DEF OthersStay
  <2>3. Live(t)' => /\ Shape(t)'
                    /\ \A i \in DOMAIN queue'[t] :
                          queue'[t][i] \in Queued(t) \/ queue'[t][i] \notin alloc
    BY <2>1, <2>2, LinkingShape DEF LifeStays
  <2>4. Fading
    BY <2>1 DEF LifeStays, Fading
  <2>5. \A u \in Thread : u # t /\ Live(u) => \A i \in DOMAIN queue[u] : queue[u][i] \in alloc'
    BY <2>2, QueuedAllocated
  <2> QED
    BY <2>2, <2>3, <2>4, <2>5, ShapeKept
<1>2. ASSUME NEW t \in Thread, NEW i \in DOMAIN queue[t], Unlinking(t, i)
      PROVE  QueueShape' /\ QueuesApart'
  <2>1. Unlink(t, i) /\ LifeStays /\ Live(t)
    BY <1>2 DEF Unlinking
  <2>2. /\ alloc' = alloc \ {queue[t][i]}
        /\ \A u \in Thread : u # t =>
              UNCHANGED <<queue[u], lastEventPtr[u], markerEventPtr[u]>>
    BY <2>1, UnlinkRemoves
  <2>3. Shape(t)' /\ \A j \in DOMAIN queue'[t] : queue'[t][j] \in Queued(t)
    BY <2>1, UnlinkingShape
  <2>4. Fading
    BY <2>1 DEF LifeStays, Fading
  <2>5. \A u \in Thread : u # t /\ Live(u) => \A j \in DOMAIN queue[u] : queue[u][j] \in alloc'
    BY <2>1, <2>2, QueuedAllocated DEF QueuesApart, Queued
  <2> QED
    BY <2>2, <2>3, <2>4, <2>5, ShapeKept
<1>3. ASSUME NEW t \in Thread, FinalizeQueue(t)
      PROVE  QueueShape' /\ QueuesApart'
  <2>1. /\ alloc' = alloc \ Queued(t) /\ Live(t) /\ ~Live(t)' /\ UNCHANGED markerEventPtr
        /\ \A u \in Thread : u # t => UNCHANGED <<queue[u], lastEventPtr[u]>>
        /\ Fading
    BY <1>3 DEF FinalizeQueue, TypeOK, AtCode, Live, Fading, Queued, ToSet
  <2>2. \A u \in Thread : u # t /\ Live(u) => \A j \in DOMAIN queue[u] : queue[u][j] \in alloc'
    BY <2>1, QueuedAllocated DEF QueuesApart, Queued
  <2> QED
    BY <2>1, <2>2, ShapeKept
<1>4. CASE LifeStays /\ QueuesStay
  <2>1. AllShapes'
    <3>1. ASSUME NEW u \in Thread, Live(u)'
          PROVE  Shape(u)'
      <4>1. Shape(u)
        BY <1>4, <3>1, ShapeIsQueueShape DEF AllShapes, LifeStays
      <4> QED
        BY <1>4, <4>1 DEF Shape, QueuesStay
    <3> QED
      BY <3>1 DEF AllShapes
  <2>2. QueuesApart'
    BY <1>4 DEF LifeStays, QueuesStay, QueuesApart, Queued
  <2> QED
    BY <2>1, <2>2, ShapeIsQueueShapeNext
<1> QED
  BY <1>1, <1>2, <1>3, <1>4 DEF QueueKinds

------------------------------------------------------------------------------
(* The order of service.                                                   *)

(* DeliveryOrder and MarkDivides, for one thread.                          *)
InOrder(a, b) ==
    /\ position[a] = "tail" => position[b] = "tail"
    /\ position[a] = position[b] =>
          (IF position[a] = "head" THEN <<b, a>> ELSE <<a, b>>) \in arrival
InOrderNext(a, b) ==
    /\ position'[a] = "tail" => position'[b] = "tail"
    /\ position'[a] = position'[b] =>
          (IF position'[a] = "head" THEN <<b, a>> ELSE <<a, b>>) \in arrival'
Ordered(t) == \A i, j \in DOMAIN queue[t] : i < j => InOrder(queue[t][i], queue[t][j])
Divided(t) ==
    /\ markerEventPtr[t] = None => \A i \in DOMAIN queue[t] : position[queue[t][i]] # "mark"
    /\ \A m, i \in DOMAIN queue[t] : queue[t][m] = markerEventPtr[t] =>
          /\ i <= m => position[queue[t][i]] # "tail"
          /\ i > m => position[queue[t][i]] # "mark"

AllInOrder == \A t \in Thread : Live(t) => Ordered(t) /\ Divided(t)

(* They are about the queues one by one.                                   *)
LEMMA OrderIsEverywhere ==
  ASSUME TypeOK
  PROVE  DeliveryOrder /\ MarkDivides <=> AllInOrder
<1>1. DeliveryOrder <=> \A t \in Thread : Live(t) => Ordered(t)
  BY DEF DeliveryOrder, Ordered, InOrder, Live
<1>2. ASSUME NEW t \in Thread, NEW m \in DOMAIN queue[t], NEW i \in DOMAIN queue[t]
      PROVE  position[queue[t][i]] # (IF i <= m THEN "tail" ELSE "mark")
             <=> /\ i <= m => position[queue[t][i]] # "tail"
                 /\ i > m => position[queue[t][i]] # "mark"
  <2>1. i \in Int /\ m \in Int
    BY DEF TypeOK
  <2> QED
    BY <2>1
<1>3. MarkDivides <=> \A t \in Thread : Live(t) => Divided(t)
  BY <1>2 DEF MarkDivides, Divided
<1> QED
  BY <1>1, <1>3 DEF AllInOrder

(* So it is after a step.                                                  *)
LEMMA OrderIsEverywhereNext == TypeOK' /\ AllInOrder' => DeliveryOrder' /\ MarkDivides'
<1>1. TypeOK => (DeliveryOrder /\ MarkDivides <=> AllInOrder)
  BY OrderIsEverywhere
<1>2. [](TypeOK => (DeliveryOrder /\ MarkDivides <=> AllInOrder))
  BY <1>1, PTL
<1> QED
  BY <1>2, PTL

(* A queue that stays keeps its order when its events keep their positions *)
(* and what is known about their arrival.                                  *)
LEMMA OrderKept ==
  ASSUME NEW t \in Thread, Ordered(t), Divided(t),
         UNCHANGED <<queue[t], markerEventPtr[t]>>,
         \A i \in DOMAIN queue[t] : UNCHANGED position[queue[t][i]],
         \A i, j \in DOMAIN queue[t] :
            <<queue[t][i], queue[t][j]>> \in arrival
               => <<queue[t][i], queue[t][j]>> \in arrival'
  PROVE  Ordered(t)' /\ Divided(t)'
<1>1. Divided(t)'
  BY DEF Divided
<1>2. ASSUME NEW i \in DOMAIN queue[t], NEW j \in DOMAIN queue[t], i < j
      PROVE  InOrder(queue[t][i], queue[t][j])'
  <2>1. InOrder(queue[t][i], queue[t][j])
    BY <1>2 DEF Ordered
  <2> QED
    BY <2>1 DEF InOrder
<1>3. Ordered(t)'
  BY <1>2 DEF Ordered
<1> QED
  BY <1>1, <1>3

(* Queueing at the tail, at the head and behind the marker keep the order. *)
LEMMA LinkingOrder ==
  ASSUME TypeOK, QueueShape, NEW t \in Thread, Live(t), Ordered(t), Divided(t),
         NEW e \in Event, NEW pos \in {"tail", "head", "mark"}, QueueEvent(t, e, pos)
  PROVE  Ordered(t)' /\ Divided(t)'
<1> DEFINE q == queue[t]
           r == queue'[t]
           n == Len(queue[t])
<1>1. q \in Seq(Event) /\ n \in Nat /\ DOMAIN q = 1..n
  <2>1. q \in Seq(Event)
    BY DEF TypeOK
  <2> QED
    BY <2>1
<1>2. PICK k \in 1..(n + 1) : LinkedAt(t, e, pos, k)
  BY QueueEventLinks
<1>3. Inserted(r, q, k, e)
  BY <1>2 DEF LinkedAt
<1>4. /\ k \in DOMAIN r /\ r[k] = e
      /\ \A j \in DOMAIN r : j # k =>
            \E i \in DOMAIN q : r[j] = q[i] /\ (j < k => i = j) /\ (j > k => i = j - 1)
  <2>1. OnePlaceOn(r, q, k, e)
    BY <1>1, <1>3, InsertedPlaces
  <2> QED
    BY <2>1 DEF OnePlaceOn
<1>5. /\ e \notin alloc /\ arrival' = arrival \cup (alloc \X {e})
      /\ position' = [position EXCEPT ![e] = pos]
      /\ position \in [Event -> {"tail", "head", "mark"}]
  BY QueueEventTypes DEF TypeOK
<1>6. Shape(t) /\ DOMAIN r = 1..(n + 1)
  BY <1>3, ShapeIsQueueShape DEF AllShapes, Inserted
<1>7. \A i \in DOMAIN q : q[i] \in alloc /\ q[i] # e /\ q[i] \in Event
  BY <1>1, <1>5, <1>6 DEF Shape
<1>8. /\ position'[e] = pos
      /\ \A i \in DOMAIN q : position'[q[i]] = position[q[i]]
  BY <1>5, <1>7
<1>9. \A i \in DOMAIN q : <<q[i], e>> \in arrival'
  BY <1>5, <1>7
<1>10. /\ pos = "tail" => k = n + 1
       /\ pos = "head" => k = 1
       /\ pos = "mark" => /\ markerEventPtr'[t] = e
                          /\ markerEventPtr[t] = None => k = 1
                          /\ markerEventPtr[t] # None =>
                                k - 1 \in DOMAIN q /\ q[k - 1] = markerEventPtr[t]
       /\ pos # "mark" => markerEventPtr'[t] = markerEventPtr[t]
  <2>1. /\ pos = "tail" => k = n + 1
        /\ pos = "head" => k = 1
        /\ pos = "mark" => /\ markerEventPtr'[t] = e
                           /\ markerEventPtr[t] = None => k = 1
                           /\ markerEventPtr[t] # None =>
                                 k > 1 /\ q[k - 1] = markerEventPtr[t]
        /\ pos # "mark" => markerEventPtr'[t] = markerEventPtr[t]
    BY <1>2 DEF LinkedAt
  <2>2. k > 1 => k - 1 \in DOMAIN q
    BY <1>1
  <2> QED
    BY <2>1, <2>2
<1>11. pos = "mark" => /\ \A i \in DOMAIN q : i < k => position[q[i]] # "tail"
                       /\ \A i \in DOMAIN q : i >= k => position[q[i]] # "mark"
  <2>1. CASE markerEventPtr[t] = None
    BY <1>1, <1>10, <2>1 DEF Divided
  <2>2. CASE markerEventPtr[t] # None
    <3>1. ASSUME pos = "mark", NEW i \in DOMAIN q
          PROVE  /\ i < k => position[q[i]] # "tail"
                 /\ i >= k => position[q[i]] # "mark"
      <4>1. k - 1 \in DOMAIN q /\ q[k - 1] = markerEventPtr[t]
        BY <1>10, <2>2, <3>1
      <4>2. /\ i <= k - 1 => position[q[i]] # "tail"
            /\ i > k - 1 => position[q[i]] # "mark"
        BY <4>1 DEF Divided
      <4> QED
        BY <1>1, <4>2
    <3> QED
      BY <3>1
  <2> QED
    BY <2>1, <2>2
<1>12. ASSUME NEW i \in DOMAIN r, NEW j \in DOMAIN r, i < j
       PROVE  InOrderNext(r[i], r[j])
  <2>1. CASE i # k /\ j # k
    <3>1. PICK a \in DOMAIN q : r[i] = q[a] /\ (i < k => a = i) /\ (i > k => a = i - 1)
      BY <1>4, <2>1
    <3>2. PICK b \in DOMAIN q : r[j] = q[b] /\ (j < k => b = j) /\ (j > k => b = j - 1)
      BY <1>4, <2>1
    <3>3. a < b
      BY <1>1, <1>6, <1>12, <2>1, <3>1, <3>2
    <3>4. InOrder(q[a], q[b])
      BY <3>3 DEF Ordered
    <3> QED
      BY <1>5, <1>8, <3>1, <3>2, <3>4 DEF InOrder, InOrderNext
  <2>2. CASE j = k
    <3>1. i < k /\ i \in DOMAIN q /\ r[i] = q[i]
      BY <1>1, <1>4, <1>6, <1>12, <2>2
    <3>2. pos # "head"
      BY <1>1, <1>10, <3>1
    <3>3. pos = "tail" \/ position'[q[i]] # "tail"
      BY <1>8, <1>11, <3>1, <3>2
    <3>4. r[j] = e /\ <<q[i], e>> \in arrival'
      BY <1>4, <1>9, <2>2, <3>1
    <3> QED
      BY <1>8, <3>1, <3>2, <3>3, <3>4 DEF InOrderNext
  <2>3. CASE i = k
    <3>1. j - 1 \in DOMAIN q /\ j - 1 >= k /\ r[j] = q[j - 1]
      BY <1>1, <1>4, <1>6, <1>12, <2>3
    <3>2. pos # "tail"
      BY <1>1, <1>10, <3>1
    <3>3. pos = "mark" => position'[q[j - 1]] # "mark"
      BY <1>8, <1>11, <3>1
    <3>4. r[i] = e /\ <<q[j - 1], e>> \in arrival'
      BY <1>4, <1>9, <2>3, <3>1
    <3> QED
      BY <1>8, <3>1, <3>2, <3>3, <3>4 DEF InOrderNext
  <2> QED
    BY <2>1, <2>2, <2>3
<1>13. ASSUME markerEventPtr'[t] = None, NEW i \in DOMAIN r
       PROVE  position'[r[i]] # "mark"
  <2>1. pos # "mark" /\ markerEventPtr[t] = None
    BY <1>10, <1>13, NotifyConstants
  <2>2. CASE i = k
    BY <1>4, <1>8, <2>1, <2>2
  <2>3. CASE i # k
    <3>1. PICK a \in DOMAIN q : r[i] = q[a]
      BY <1>4, <2>3
    <3> QED
      BY <1>8, <2>1, <3>1 DEF Divided
  <2> QED
    BY <2>2, <2>3
<1>14. ASSUME NEW m \in DOMAIN r, NEW i \in DOMAIN r, r[m] = markerEventPtr'[t]
       PROVE  /\ i <= m => position'[r[i]] # "tail"
              /\ i > m => position'[r[i]] # "mark"
  <2>1. CASE pos = "mark"
    <3>1. m = k
      BY <1>4, <1>7, <1>10, <1>14, <2>1
    <3>2. CASE i = k
      BY <1>1, <1>4, <1>8, <2>1, <3>1, <3>2
    <3>3. CASE i # k
      <4>1. PICK a \in DOMAIN q : r[i] = q[a] /\ (i < k => a = i) /\ (i > k => a = i - 1)
        BY <1>4, <3>3
      <4>2. (i < k => a < k) /\ (i > k => a >= k)
        BY <1>1, <1>6, <4>1
      <4> QED
        BY <1>1, <1>6, <1>8, <1>11, <2>1, <3>1, <3>3, <4>1, <4>2
    <3> QED
      BY <3>2, <3>3
  <2>2. CASE pos # "mark"
    <3>1. markerEventPtr'[t] = markerEventPtr[t] /\ markerEventPtr[t] # e
      <4>1. markerEventPtr[t] # e
        BY <1>6, <1>7, NotifyConstants DEF Shape
      <4> QED
        BY <1>10, <2>2, <4>1
    <3>2. PICK a \in DOMAIN q : r[m] = q[a] /\ (m < k => a = m) /\ (m > k => a = m - 1) /\ m # k
      BY <1>4, <1>14, <3>1
    <3>3. CASE i = k
      <4>1. (pos = "tail" => i > m) /\ (pos = "head" => i < m)
        BY <1>1, <1>6, <1>10, <3>2, <3>3
      <4> QED
        BY <1>1, <1>4, <1>6, <1>8, <2>2, <3>3, <4>1
    <3>4. CASE i # k
      <4>1. PICK b \in DOMAIN q : r[i] = q[b] /\ (i < k => b = i) /\ (i > k => b = i - 1)
        BY <1>4, <3>4
      <4>2. (i <= m => b <= a) /\ (i > m => b > a)
        BY <1>1, <1>6, <3>2, <3>4, <4>1
      <4>3. /\ b <= a => position[q[b]] # "tail"
            /\ b > a => position[q[b]] # "mark"
        BY <1>14, <3>1, <3>2 DEF Divided
      <4> QED
        BY <1>8, <4>1, <4>2, <4>3
    <3> QED
      BY <3>3, <3>4
  <2> QED
    BY <2>1, <2>2
<1>15. Ordered(t)'
  BY <1>12 DEF Ordered, InOrder, InOrderNext
<1>16. Divided(t)'
  BY <1>13, <1>14 DEF Divided
<1> QED
  BY <1>15, <1>16

(* Unlinking keeps it, though the marker may move to the event before.     *)
LEMMA UnlinkingOrder ==
  ASSUME TypeOK, QueueShape, NEW t \in Thread, Live(t), Ordered(t), Divided(t),
         NEW i \in DOMAIN queue[t], Unlink(t, i)
  PROVE  Ordered(t)' /\ Divided(t)'
<1> DEFINE q == queue[t]
           r == queue'[t]
           n == Len(queue[t])
           prevPtr == IF i = 1 THEN None ELSE q[i - 1]
<1>1. q \in Seq(Event) /\ n \in Nat /\ DOMAIN q = 1..n
  <2>1. q \in Seq(Event)
    BY DEF TypeOK
  <2> QED
    BY <2>1
<1>2. /\ Removed(r, q, i) /\ alloc' = alloc \ {q[i]} /\ arrival' = arrival \cap (alloc' \X alloc')
      /\ \A e \in Event : e # q[i] => position'[e] = position[e]
      /\ markerEventPtr'[t] = IF markerEventPtr[t] = q[i] THEN prevPtr ELSE markerEventPtr[t]
  BY UnlinkRemoves
<1>3. \A j \in DOMAIN r : \E a \in DOMAIN q : /\ a # i /\ r[j] = q[a]
                                              /\ j < i => a = j
                                              /\ j >= i => a = j + 1
  <2>1. OnePlaceBack(r, q, i)
    BY <1>1, <1>2, RemovedPlaces
  <2> QED
    BY <2>1 DEF OnePlaceBack
<1>4. Shape(t) /\ DOMAIN r = 1..(n - 1)
  BY <1>2, ShapeIsQueueShape DEF AllShapes, Removed
<1>5. \A a \in DOMAIN q : a # i => position'[q[a]] = position[q[a]] /\ q[a] \in alloc'
  BY <1>1, <1>2, <1>4 DEF Shape
<1>6. ASSUME NEW j \in DOMAIN r, NEW k \in DOMAIN r, j < k
      PROVE  InOrderNext(r[j], r[k])
  <2>1. PICK a \in DOMAIN q : a # i /\ r[j] = q[a] /\ (j < i => a = j) /\ (j >= i => a = j + 1)
    BY <1>3
  <2>2. PICK b \in DOMAIN q : b # i /\ r[k] = q[b] /\ (k < i => b = k) /\ (k >= i => b = k + 1)
    BY <1>3
  <2>3. a < b
    BY <1>1, <1>4, <1>6, <2>1, <2>2
  <2>4. InOrder(q[a], q[b])
    BY <2>3 DEF Ordered
  <2> QED
    BY <1>2, <1>5, <2>1, <2>2, <2>4 DEF InOrder, InOrderNext
<1>7. ASSUME markerEventPtr'[t] = None, NEW j \in DOMAIN r
      PROVE  position'[r[j]] # "mark"
  <2>1. PICK a \in DOMAIN q : a # i /\ r[j] = q[a]
    BY <1>3
  <2>2. CASE markerEventPtr[t] = q[i]
    <3>1. i = 1
      BY <1>1, <1>2, <1>7, <2>2, NotifyConstants
    <3>2. a > i
      BY <1>1, <2>1, <3>1
    <3> QED
      BY <1>5, <2>1, <2>2, <3>2 DEF Divided
  <2>3. CASE markerEventPtr[t] # q[i]
    BY <1>2, <1>5, <1>7, <2>1, <2>3 DEF Divided
  <2> QED
    BY <2>2, <2>3
<1>8. ASSUME NEW m \in DOMAIN r, NEW j \in DOMAIN r, r[m] = markerEventPtr'[t]
      PROVE  /\ j <= m => position'[r[j]] # "tail"
             /\ j > m => position'[r[j]] # "mark"
  <2>1. PICK a \in DOMAIN q : a # i /\ r[m] = q[a] /\ (m < i => a = m) /\ (m >= i => a = m + 1)
    BY <1>3
  <2>2. PICK b \in DOMAIN q : b # i /\ r[j] = q[b] /\ (j < i => b = j) /\ (j >= i => b = j + 1)
    BY <1>3
  <2>3. (j <= m => b <= a) /\ (j > m => b > a)
    BY <1>1, <1>4, <2>1, <2>2
  <2>4. CASE markerEventPtr[t] = q[i]
    <3>1. a = i - 1
      <4>1. i # 1 /\ q[a] = q[i - 1] /\ i - 1 \in DOMAIN q
        BY <1>1, <1>2, <1>8, <2>1, <2>4, NotifyConstants
      <4> QED
        BY <1>4, <4>1 DEF Shape
    <3>2. (b <= a => b <= i) /\ (b > a => b > i)
      BY <1>1, <2>2, <3>1
    <3>3. /\ b <= i => position[q[b]] # "tail"
          /\ b > i => position[q[b]] # "mark"
      BY <2>4 DEF Divided
    <3> QED
      BY <1>5, <2>2, <2>3, <3>2, <3>3
  <2>5. CASE markerEventPtr[t] # q[i]
    <3>1. /\ b <= a => position[q[b]] # "tail"
          /\ b > a => position[q[b]] # "mark"
      BY <1>2, <1>8, <2>1, <2>5 DEF Divided
    <3> QED
      BY <1>5, <2>2, <2>3, <3>1
  <2> QED
    BY <2>4, <2>5
<1>9. Ordered(t)'
  BY <1>6 DEF Ordered, InOrder, InOrderNext
<1>10. Divided(t)'
  BY <1>7, <1>8 DEF Divided
<1> QED
  BY <1>9, <1>10

(* Every step keeps the order of service.                                  *)
LEMMA OrderStep ==
  ASSUME TypeOK, TypeOK', QueueShape, QueuesApart, DeliveryOrder, MarkDivides, QueueKinds
  PROVE  DeliveryOrder' /\ MarkDivides'
<1>1. \A u \in Thread : Live(u) => Ordered(u) /\ Divided(u)
  BY OrderIsEverywhere DEF AllInOrder
<1>2. SUFFICES ASSUME NEW u \in Thread, Live(u)' PROVE Ordered(u)' /\ Divided(u)'
  <2>1. AllInOrder'
    BY <1>2 DEF AllInOrder
  <2> QED
    BY <2>1, OrderIsEverywhereNext
<1>3. Live(u) => Shape(u)
  BY ShapeIsQueueShape DEF AllShapes
<1>4. \A i \in DOMAIN queue[u] : queue[u][i] \in Event
  BY QueueType
<1>5. ASSUME NEW t \in Thread, NEW e \in Event, NEW pos \in {"tail", "head", "mark"},
             Linking(t, e, pos)
      PROVE  Ordered(u)' /\ Divided(u)'
  <2>1. QueueEvent(t, e, pos) /\ Live(u)
    BY <1>2, <1>5 DEF Linking, LifeStays
  <2>2. CASE u = t
    BY <1>1, <2>1, <2>2, LinkingOrder
  <2>3. CASE u # t
    <3>1. /\ UNCHANGED <<queue[u], markerEventPtr[u]>>
          /\ position' = [position EXCEPT ![e] = pos] /\ e \notin alloc
          /\ arrival' = arrival \cup (alloc \X {e})
          /\ position \in [Event -> {"tail", "head", "mark"}]
      BY <2>1, <2>3, QueueEventTypes DEF OthersStay, TypeOK
    <3>2. \A i \in DOMAIN queue[u] : UNCHANGED position[queue[u][i]]
      BY <1>3, <1>4, <2>1, <3>1 DEF Shape
    <3> QED
      BY <1>1, <2>1, <3>1, <3>2, OrderKept
  <2> QED
    BY <2>2, <2>3
<1>6. ASSUME NEW t \in Thread, NEW i \in DOMAIN queue[t], Unlinking(t, i)
      PROVE  Ordered(u)' /\ Divided(u)'
  <2>1. Unlink(t, i) /\ Live(u) /\ Live(t)
    BY <1>2, <1>6 DEF Unlinking, LifeStays
  <2>2. CASE u = t
    BY <1>1, <2>1, <2>2, UnlinkingOrder
  <2>3. CASE u # t
    <3>1. /\ UNCHANGED <<queue[u], markerEventPtr[u]>> /\ alloc' = alloc \ {queue[t][i]}
          /\ arrival' = arrival \cap (alloc' \X alloc')
          /\ \A e \in Event : e # queue[t][i] => position'[e] = position[e]
      BY <2>1, <2>3, UnlinkRemoves
    <3>2. \A j \in DOMAIN queue[u] : queue[u][j] # queue[t][i]
      BY <2>1, <2>3 DEF QueuesApart, Queued
    <3>3. \A j \in DOMAIN queue[u] : UNCHANGED position[queue[u][j]] /\ queue[u][j] \in alloc'
      BY <1>3, <1>4, <2>1, <3>1, <3>2 DEF Shape
    <3> QED
      BY <1>1, <2>1, <3>1, <3>3, OrderKept
  <2> QED
    BY <2>2, <2>3
<1>7. ASSUME NEW t \in Thread, FinalizeQueue(t)
      PROVE  Ordered(u)' /\ Divided(u)'
  <2>1. /\ u # t /\ Live(u) /\ Live(t) /\ alloc' = alloc \ Queued(t)
        /\ UNCHANGED <<queue[u], markerEventPtr[u]>> /\ arrival' = arrival \cap (alloc' \X alloc')
        /\ position' = [e \in Event |-> IF e \in Queued(t) THEN "tail" ELSE position[e]]
    BY <1>2, <1>7 DEF FinalizeQueue, TypeOK, AtCode, Live, Queued, ToSet
  <2>2. \A j \in DOMAIN queue[u] : queue[u][j] \notin Queued(t)
    BY <2>1 DEF QueuesApart, Queued
  <2>3. \A j \in DOMAIN queue[u] : UNCHANGED position[queue[u][j]] /\ queue[u][j] \in alloc'
    BY <1>3, <1>4, <2>1, <2>2 DEF Shape
  <2> QED
    BY <1>1, <2>1, <2>3, OrderKept
<1>8. CASE LifeStays /\ QueuesStay
  <2>1. Live(u) /\ UNCHANGED <<queue[u], markerEventPtr[u], position, arrival>>
    BY <1>2, <1>8 DEF LifeStays, QueuesStay
  <2> QED
    BY <1>1, <2>1, OrderKept
<1> QED
  BY <1>5, <1>6, <1>7, <1>8 DEF QueueKinds

(* Every step keeps the history an order.                                  *)
LEMMA ArrivalStep ==
  ASSUME TypeOK, ArrivalIsOrder, QueueKinds
  PROVE  ArrivalIsOrder'
<1>1. ASSUME NEW t \in Thread, NEW e \in Event, NEW pos \in {"tail", "head", "mark"},
             Linking(t, e, pos)
      PROVE  ArrivalIsOrder'
  <2>1. alloc' = alloc \cup {e} /\ e \notin alloc /\ arrival' = arrival \cup (alloc \X {e})
    BY <1>1, QueueEventTypes DEF Linking
  <2> QED
    BY <2>1 DEF ArrivalIsOrder
<1>2. ASSUME NEW t \in Thread, NEW i \in DOMAIN queue[t], Unlinking(t, i)
      PROVE  ArrivalIsOrder'
  <2>1. alloc' = alloc \ {queue[t][i]} /\ arrival' = arrival \cap (alloc' \X alloc')
    BY <1>2, UnlinkRemoves DEF Unlinking
  <2> QED
    BY <2>1 DEF ArrivalIsOrder
<1>3. ASSUME NEW t \in Thread, FinalizeQueue(t)
      PROVE  ArrivalIsOrder'
  <2>1. alloc' = alloc \ ToSet(queue[t]) /\ arrival' = arrival \cap (alloc' \X alloc')
    BY <1>3 DEF FinalizeQueue
  <2> QED
    BY <2>1 DEF ArrivalIsOrder
<1>4. CASE LifeStays /\ QueuesStay
  BY <1>4 DEF QueuesStay, ArrivalIsOrder
<1> QED
  BY <1>1, <1>2, <1>3, <1>4 DEF QueueKinds

(* The invariant the other ones build on.                                  *)
QueueInv ==
    /\ TypeOK /\ LifeCycle /\ FramesNest /\ QueueShape /\ QueuesApart
    /\ DeliveryOrder /\ MarkDivides /\ ArrivalIsOrder

(* It holds initially, when no queue has an event.                         *)
LEMMA QueueInit ==
  ASSUME Init
  PROVE  QueueInv
<1>1. <<>> \in Seq(Event) /\ <<>> \in Seq(Frame) /\ DOMAIN <<>> = {}
  OBVIOUS
<1>2. TypeOK
  <2> HIDE DEF Frame
  <2> QED
    BY <1>1 DEF Init, TypeOK
<1>3. \A t \in Thread : /\ queue[t] = <<>> /\ stack[t] = <<>> /\ DOMAIN queue[t] = {}
                        /\ DOMAIN stack[t] = {} /\ lastEventPtr[t] = None
                        /\ markerEventPtr[t] = None /\ deleting[t] = None
                        /\ t \in registered /\ finalizing[t] = "no"
  BY <1>1 DEF Init
<1>4. LifeCycle /\ FramesNest
  BY <1>3 DEF LifeCycle, FramesNest, Live
<1>5. QueueShape /\ QueuesApart
  <2>1. \A t \in Thread : Shape(t) /\ Queued(t) = {}
    BY <1>3 DEF Shape, Queued
  <2> QED
    BY <2>1, ShapeIsQueueShape DEF AllShapes, QueuesApart
<1>6. DeliveryOrder /\ MarkDivides
  <2>1. \A t \in Thread : Ordered(t) /\ Divided(t)
    BY <1>3 DEF Ordered, Divided
  <2> QED
    BY <1>2, <2>1, OrderIsEverywhere DEF AllInOrder
<1>7. ArrivalIsOrder
  BY DEF Init, ArrivalIsOrder
<1> QED
  BY <1>2, <1>4, <1>5, <1>6, <1>7 DEF QueueInv

(* Every step is of one of the kinds and keeps the invariant.              *)
LEMMA QueueStep ==
  ASSUME QueueInv, [Next]_vars
  PROVE  StepKinds /\ QueueInv'
<1>1. ListTypes
  BY DEF QueueInv, TypeOK, ListTypes
<1>2. ListTypes' /\ LifeCycle'
  BY <1>1, LifeStep DEF QueueInv
<1>3. StepKinds
  BY Steps DEF QueueInv
<1>4. TypeOK'
  BY <1>2, <1>3, TypeStep DEF QueueInv
<1>5. FramesNest'
  BY <1>3, NestStep DEF QueueInv
<1>6. QueueKinds
  BY <1>3, QueueSteps
<1>7. QueueShape' /\ QueuesApart'
  BY <1>6, ShapeStep DEF QueueInv
<1>8. DeliveryOrder' /\ MarkDivides'
  BY <1>4, <1>6, OrderStep DEF QueueInv
<1>9. ArrivalIsOrder'
  BY <1>6, ArrivalStep DEF QueueInv
<1> QED
  BY <1>2, <1>3, <1>4, <1>5, <1>7, <1>8, <1>9 DEF QueueInv

(* The invariant holds for ever.                                           *)
LEMMA QueueInvariant == Spec => []QueueInv
<1>1. Init => QueueInv
  BY QueueInit
<1>2. QueueInv /\ [Next]_vars => QueueInv'
  BY QueueStep
<1> QED
  BY <1>1, <1>2, PTL DEF Spec

(* The pointers kept beside the chain of events always agree with it: no   *)
(* Tcl_QueueEvent, Tcl_DeleteEvents or Tcl_ServiceEvent, in any thread, at *)
(* any nesting of event loops, loses an event or leaves a pointer to one   *)
(* that was freed.                                                         *)
THEOREM PointersFollowQueue == Spec => [](TypeOK /\ QueueShape)
<1>1. QueueInv => TypeOK /\ QueueShape
  BY DEF QueueInv
<1> QED
  BY <1>1, QueueInvariant, PTL

(* Events are in the queue in the order TCL_QUEUE_TAIL, TCL_QUEUE_HEAD and *)
(* TCL_QUEUE_MARK promise, by a history that is an order: the marker       *)
(* divides the queue, whatever is serviced and deleted around it.          *)
THEOREM ServedInOrder == Spec => [](DeliveryOrder /\ ArrivalIsOrder)
<1>1. QueueInv => DeliveryOrder /\ ArrivalIsOrder
  BY DEF QueueInv
<1> QED
  BY <1>1, QueueInvariant, PTL

------------------------------------------------------------------------------
(* The running handlers and their events.                                  *)

(* HandlersOwnEvents, for one thread.                                      *)
Distinct(t) ==
    \A c, d \in DOMAIN stack[t] :
       stack[t][c].ev # None /\ stack[t][c].ev = stack[t][d].ev => c = d

(* The innermost call goes on, with a handler, with another one or without *)
(* one.                                                                    *)
LEMMA BusyMoved ==
  ASSUME TypeOK, NEW t \in Thread, stack[t] # <<>>, Distinct(t), NEW f, Moved(t, f),
         f.ev = None \/ f.ev \notin BusyEvents(t) \/ f.ev = Top(t).ev
  PROVE  Distinct(t)' /\ BusyEvents(t)' = (BusyEvents(t) \ {Top(t).ev}) \cup ({f.ev} \ {None})
<1> DEFINE m == Len(stack[t])
<1>1. /\ DOMAIN stack[t] = 1..m /\ m \in Nat \ {0} /\ Top(t) = stack[t][m]
      /\ DOMAIN stack'[t] = 1..m
      /\ \A d \in 1..m : stack'[t][d] = IF d = m THEN f ELSE stack[t][d]
  BY TopIsFrame DEF Moved
<1>2. \A d \in 1..m : d # m /\ stack[t][d].ev # None => /\ stack[t][d].ev # Top(t).ev
                                                        /\ stack[t][d].ev \in BusyEvents(t)
  BY <1>1 DEF Distinct, BusyEvents
<1>3. Distinct(t)'
  <2> SUFFICES ASSUME NEW c \in 1..m, NEW d \in 1..m,
                      stack'[t][c].ev # None, stack'[t][c].ev = stack'[t][d].ev
               PROVE  c = d
    BY <1>1 DEF Distinct
  <2> QED
    BY <1>1, <1>2 DEF Distinct
<1>4. BusyEvents(t)' = {stack'[t][d].ev : d \in 1..m} \ {None}
  BY <1>1 DEF BusyEvents
<1>5. BusyEvents(t) = {stack[t][d].ev : d \in 1..m} \ {None}
  BY <1>1 DEF BusyEvents
<1>6. ASSUME NEW x
      PROVE  x \in BusyEvents(t)' <=> x \in (BusyEvents(t) \ {Top(t).ev}) \cup ({f.ev} \ {None})
  <2>1. ASSUME x \in BusyEvents(t)'
        PROVE  x \in (BusyEvents(t) \ {Top(t).ev}) \cup ({f.ev} \ {None})
    <3>1. PICK d \in 1..m : x = stack'[t][d].ev /\ x # None
      BY <1>4, <2>1
    <3> QED
      BY <1>1, <1>2, <3>1
  <2>2. ASSUME x \in BusyEvents(t), x # Top(t).ev PROVE x \in BusyEvents(t)'
    <3>1. PICK d \in 1..m : x = stack[t][d].ev /\ x # None
      BY <1>5, <2>2
    <3>2. stack'[t][d].ev = x
      BY <1>1, <2>2, <3>1
    <3> QED
      BY <1>4, <3>1, <3>2
  <2>3. ASSUME x = f.ev, x # None PROVE x \in BusyEvents(t)'
    <3>1. m \in 1..m /\ stack'[t][m].ev = x
      BY <1>1, <2>3
    <3> QED
      BY <1>4, <2>3, <3>1
  <2> QED
    BY <2>1, <2>2, <2>3
<1> QED
  BY <1>3, <1>6

(* It returns: its handler, if it ran one, has returned.                   *)
LEMMA BusyExited ==
  ASSUME TypeOK, NEW t \in Thread, stack[t] # <<>>, Distinct(t), Exited(t)
  PROVE  Distinct(t)' /\ BusyEvents(t)' = BusyEvents(t) \ {Top(t).ev}
<1> DEFINE m == Len(stack[t])
<1>1. /\ DOMAIN stack[t] = 1..m /\ m \in Nat \ {0} /\ Top(t) = stack[t][m]
      /\ DOMAIN stack'[t] = 1..(m - 1)
      /\ \A d \in 1..(m - 1) : stack'[t][d] = stack[t][d]
  BY TopIsFrame DEF Exited
<1>2. Distinct(t)'
  BY <1>1 DEF Distinct
<1>3. ASSUME NEW x
      PROVE  x \in BusyEvents(t)' <=> x \in BusyEvents(t) \ {Top(t).ev}
  <2>1. x \in BusyEvents(t)' <=> x # None /\ \E d \in 1..(m - 1) : x = stack[t][d].ev
    BY <1>1 DEF BusyEvents
  <2>2. x \in BusyEvents(t) <=> x # None /\ \E d \in 1..m : x = stack[t][d].ev
    BY <1>1 DEF BusyEvents
  <2>3. \A d \in 1..(m - 1) : d \in 1..m /\ d # m
    BY <1>1
  <2>4. \A d \in 1..m : d \in 1..(m - 1) \/ d = m
    BY <1>1
  <2>5. \A d \in 1..(m - 1) : stack[t][d].ev # None => stack[t][d].ev # stack[t][m].ev
    <3>1. m \in 1..m
      BY <1>1
    <3>2. \A c, d \in 1..m : stack[t][c].ev # None /\ stack[t][c].ev = stack[t][d].ev => c = d
      BY <1>1 DEF Distinct
    <3> QED
      BY <2>3, <3>1, <3>2
  <2> QED
    BY <1>1, <2>1, <2>2, <2>3, <2>4, <2>5
<1> QED
  BY <1>2, <1>3

(* A call starts without a handler.                                        *)
LEMMA BusyEntered ==
  ASSUME TypeOK, NEW t \in Thread, Distinct(t), NEW f, f.ev = None, Entered(t, f)
  PROVE  Distinct(t)' /\ BusyEvents(t)' = BusyEvents(t)
<1> DEFINE m == Len(stack[t])
<1>1. /\ DOMAIN stack[t] = 1..m /\ m \in Nat
      /\ DOMAIN stack'[t] = 1..(m + 1) /\ stack'[t][m + 1].ev = None
      /\ \A d \in 1..m : stack'[t][d] = stack[t][d]
  BY StackType DEF Entered
<1>2. Distinct(t)'
  <2> SUFFICES ASSUME NEW c \in 1..(m + 1), NEW d \in 1..(m + 1),
                      stack'[t][c].ev # None, stack'[t][c].ev = stack'[t][d].ev
               PROVE  c = d
    BY <1>1 DEF Distinct
  <2>1. \A b \in 1..(m + 1) : b = m + 1 \/ b \in 1..m
    BY <1>1
  <2>2. c \in 1..m /\ d \in 1..m
    BY <1>1, <2>1
  <2> QED
    BY <1>1, <2>2 DEF Distinct
<1>3. ASSUME NEW x
      PROVE  x \in BusyEvents(t)' <=> x \in BusyEvents(t)
  <2>1. x \in BusyEvents(t)' <=> x # None /\ \E d \in 1..(m + 1) : x = stack'[t][d].ev
    BY <1>1 DEF BusyEvents
  <2>2. x \in BusyEvents(t) <=> x # None /\ \E d \in 1..m : x = stack[t][d].ev
    BY <1>1 DEF BusyEvents
  <2>3. \A d \in 1..m : d \in 1..(m + 1)
    BY <1>1
  <2>4. \A d \in 1..(m + 1) : d \in 1..m \/ d = m + 1
    BY <1>1
  <2> QED
    BY <1>1, <2>1, <2>2, <2>3, <2>4
<1> QED
  BY <1>2, <1>3

(* Which events are queued after an event was queued ...                   *)
LEMMA QueuedLinking ==
  ASSUME TypeOK, QueueShape, NEW t \in Thread, Live(t), NEW e \in Event,
         NEW pos \in {"tail", "head", "mark"}, QueueEvent(t, e, pos)
  PROVE  Queued(t)' = Queued(t) \cup {e} /\ Len(queue'[t]) = Len(queue[t]) + 1
<1>1. queue[t] \in Seq(Event) /\ queue'[t] \in Seq(Event)
  BY QueueEventTypes DEF TypeOK
<1>2. PICK k \in 1..(Len(queue[t]) + 1) : Inserted(queue'[t], queue[t], k, e)
  BY QueueEventLinks DEF LinkedAt
<1>3. /\ k \in DOMAIN queue'[t] /\ queue'[t][k] = e
      /\ \A j \in DOMAIN queue'[t] : j # k => \E i \in DOMAIN queue[t] : queue'[t][j] = queue[t][i]
      /\ \A i \in DOMAIN queue[t] : \E j \in DOMAIN queue'[t] : queue'[t][j] = queue[t][i]
  <2>1. OnePlaceOn(queue'[t], queue[t], k, e)
    BY <1>1, <1>2, InsertedPlaces
  <2> QED
    BY <2>1 DEF OnePlaceOn
<1>4. Len(queue'[t]) = Len(queue[t]) + 1
  BY <1>1, <1>2 DEF Inserted
<1>5. ASSUME NEW x PROVE x \in Queued(t)' <=> x \in Queued(t) \cup {e}
  BY <1>3 DEF Queued
<1> QED
  BY <1>4, <1>5

(* ... and after one was unlinked.                                         *)
LEMMA QueuedUnlinking ==
  ASSUME TypeOK, QueueShape, NEW t \in Thread, Live(t), NEW i \in DOMAIN queue[t], Unlink(t, i)
  PROVE  Queued(t)' = Queued(t) \ {queue[t][i]} /\ Len(queue'[t]) = Len(queue[t]) - 1
<1>1. queue[t] \in Seq(Event) /\ queue'[t] \in Seq(Event) /\ Removed(queue'[t], queue[t], i)
  BY UnlinkRemoves DEF TypeOK
<1>2. /\ \A j \in DOMAIN queue'[t] :
            \E a \in DOMAIN queue[t] : a # i /\ queue'[t][j] = queue[t][a]
      /\ \A a \in DOMAIN queue[t] : a # i => \E j \in DOMAIN queue'[t] : queue'[t][j] = queue[t][a]
  <2>1. OnePlaceBack(queue'[t], queue[t], i)
    BY <1>1, RemovedPlaces
  <2> QED
    BY <2>1 DEF OnePlaceBack
<1>3. Shape(t)
  BY ShapeIsQueueShape DEF AllShapes
<1>4. Len(queue'[t]) = Len(queue[t]) - 1
  BY <1>1 DEF Removed
<1>5. ASSUME NEW x PROVE x \in Queued(t)' <=> x \in Queued(t) \ {queue[t][i]}
  BY <1>2, <1>3 DEF Queued, Shape
<1> QED
  BY <1>4, <1>5

(* HandlersOwnEvents, for one thread.                                      *)
Own(t) == Distinct(t) /\ BusyEvents(t) = inService \cap Queued(t)

AllOwn == \A t \in Thread : Live(t) => Own(t)

(* HandlersOwnEvents is about the threads one by one.                      *)
LEMMA OwnIsHandlers == HandlersOwnEvents <=> AllOwn
  BY DEF HandlersOwnEvents, Own, Distinct, AllOwn

(* So it is after a step.                                                  *)
LEMMA OwnIsHandlersNext == AllOwn' => HandlersOwnEvents'
<1>1. [](HandlersOwnEvents <=> AllOwn)
  BY OwnIsHandlers, PTL
<1> QED
  BY <1>1, PTL

(* What the other threads need: their events stay in service, or out of    *)
(* it.                                                                     *)
LEMMA OwnKept ==
  ASSUME HandlersOwnEvents, Fading \/ LifeStays, NEW t \in Thread,
         \A u \in Thread : u # t => UNCHANGED <<stack[u], queue[u]>>,
         inService' = inService
         \/ \A u \in Thread : u # t /\ Live(u) =>
               inService' \cap Queued(u) = inService \cap Queued(u),
         Live(t)' => Own(t)'
  PROVE  HandlersOwnEvents'
<1>1. ASSUME NEW u \in Thread, Live(u)' PROVE Own(u)'
  <2>1. CASE u = t
    BY <1>1, <2>1
  <2>2. CASE u # t
    <3>1. Live(u) /\ Own(u) /\ UNCHANGED <<stack[u], queue[u]>>
      BY <1>1, <2>2, OwnIsHandlers DEF AllOwn, LifeStays, Fading
    <3>2. UNCHANGED <<BusyEvents(u), Queued(u)>> /\ Distinct(u)'
      BY <3>1 DEF BusyEvents, Queued, Own, Distinct
    <3> QED
      BY <2>2, <3>1, <3>2 DEF Own
  <2> QED
    BY <2>1, <2>2
<1>2. AllOwn'
  BY <1>1 DEF AllOwn
<1> QED
  BY <1>2, OwnIsHandlersNext

(* Every step keeps the running handlers and the events without a proc     *)
(* together.                                                               *)
LEMMA HandlersStep ==
  ASSUME TypeOK, QueueShape, QueuesApart, HandlersOwnEvents, StepKinds
  PROVE  HandlersOwnEvents'
<1>1. ASSUME NEW t \in Thread, NEW e \in Event,
          NEW pos \in {"tail", "head", "mark"}, Queueing(t, e, pos)
      PROVE  HandlersOwnEvents'
  <2>1. QueueEvent(t, e, pos) /\ UNCHANGED <<stack, inService>> /\ LifeStays
    BY <1>1 DEF Queueing
  <2>2. \A u \in Thread : u # t => queue'[u] = queue[u]
    BY <2>1, QueueEventTypes DEF OthersStay
  <2>3. e \notin inService
    BY <2>1, QueueEventTypes DEF TypeOK
  <2>4. Live(t)' => Own(t)'
    <3>1. ASSUME Live(t) PROVE Own(t)'
      <4>1. Queued(t)' = Queued(t) \cup {e} /\ Own(t)
        BY <2>1, <3>1, QueuedLinking, OwnIsHandlers DEF AllOwn
      <4>2. BusyEvents(t)' = BusyEvents(t) /\ Distinct(t)'
        BY <2>1, <4>1 DEF BusyEvents, Distinct, Own
      <4> QED
        BY <2>1, <2>3, <4>1, <4>2 DEF Own
    <3> QED
      BY <2>1, <3>1 DEF LifeStays
  <2> QED
    BY <2>1, <2>2, <2>4, OwnKept DEF LifeStays
<1>2. ASSUME NEW t \in Thread, NEW i \in DOMAIN queue[t], Deleting(t, i)
      PROVE  HandlersOwnEvents'
  <2>1. Live(t) /\ LifeStays /\ Own(t) /\ Unlink(t, i) /\ UNCHANGED <<stack, inService>>
        /\ queue[t][i] \notin inService
    BY <1>2, OwnIsHandlers DEF AllOwn, Deleting
  <2>2. \A u \in Thread : u # t => queue'[u] = queue[u]
    BY <2>1, UnlinkRemoves
  <2>3. Queued(t)' = Queued(t) \ {queue[t][i]}
    BY <2>1, QueuedUnlinking
  <2>4. BusyEvents(t)' = BusyEvents(t) /\ Distinct(t)'
    BY <2>1 DEF BusyEvents, Distinct, Own
  <2>5. Own(t)'
    BY <2>1, <2>3, <2>4 DEF Own
  <2> QED
    BY <2>1, <2>2, <2>5, OwnKept DEF LifeStays
<1>3. ASSUME NEW t \in Thread, NEW i \in DOMAIN queue[t], NEW f \in Frame,
          Dispatching(t, i, f)
      PROVE  HandlersOwnEvents'
  <2>1. Live(t) /\ LifeStays /\ Own(t) /\ stack[t] # <<>> /\ Moved(t, f)
    BY <1>3, OwnIsHandlers DEF AllOwn, Dispatching
  <2>2. UNCHANGED queue /\ \A u \in Thread : u # t => stack'[u] = stack[u]
    BY <1>3 DEF Dispatching, QueuesStay, Moved
  <2>3. /\ Top(t).ev = None /\ f.ev = queue[t][i] /\ queue[t][i] \notin inService
        /\ inService' = inService \cup {queue[t][i]}
    <3>1. Top(t) \in Frame /\ queue[t][i] \in Event /\ eventCount[t] \in Int
      BY <2>1, TopIsFrame, QueueType
    <3>2. f = WithEvent(Top(t), queue[t][i], eventCount[t])
      BY <1>3 DEF Dispatching
    <3> QED
      BY <1>3, <3>1, <3>2, WithEventIsFrame DEF Dispatching
  <2>4. /\ f.ev \notin BusyEvents(t) /\ queue[t][i] \in Queued(t) /\ f.ev # None
        /\ Top(t).ev \notin BusyEvents(t)
    BY <2>1, <2>3, QueueType, NotifyConstants DEF Own, Queued, BusyEvents
  <2>5. Distinct(t)' /\ BusyEvents(t)' = (BusyEvents(t) \ {Top(t).ev}) \cup ({f.ev} \ {None})
    BY <2>1, <2>4, BusyMoved DEF Own
  <2>6. Own(t)' /\ Queued(t)' = Queued(t)
    BY <2>1, <2>2, <2>3, <2>4, <2>5 DEF Own, Queued
  <2>7. \A u \in Thread : u # t /\ Live(u) => inService' \cap Queued(u) = inService \cap Queued(u)
    BY <2>1, <2>3, <2>4 DEF QueuesApart
  <2> QED
    BY <2>1, <2>2, <2>6, <2>7, OwnKept DEF LifeStays
<1>4. ASSUME NEW t \in Thread, NEW i \in DOMAIN queue[t], NEW f \in Frame,
          Handled(t, i, f)
      PROVE  HandlersOwnEvents'
  <2>1. /\ Live(t) /\ LifeStays /\ Own(t) /\ stack[t] # <<>> /\ Unlink(t, i)
        /\ queue[t][i] = Top(t).ev /\ inService' = inService \ {Top(t).ev}
    BY <1>4, OwnIsHandlers DEF AllOwn, Handled
  <2>2. \A u \in Thread : u # t => UNCHANGED <<stack[u], queue[u]>>
    BY <1>4, <2>1, UnlinkRemoves DEF Handled, Moved, Exited
  <2>3. Queued(t)' = Queued(t) \ {Top(t).ev}
    BY <2>1, QueuedUnlinking
  <2>4. Distinct(t)' /\ BusyEvents(t)' = BusyEvents(t) \ {Top(t).ev}
    <3>1. CASE Top(t).at = "all"
      <4>1. f.ev = None /\ Moved(t, f)
        <5>1. Top(t) \in Frame
          BY <2>1, TopIsFrame
        <5>2. WithEvent(Top(t), None, 0).ev = None
          BY <5>1, WithEventIsFrame
        <5> QED
          BY <1>4, <3>1, <5>2 DEF Handled
      <4> QED
        BY <2>1, <4>1, BusyMoved DEF Own
    <3>2. CASE Top(t).at # "all"
      BY <1>4, <2>1, <3>2, BusyExited DEF Handled, Own
    <3> QED
      BY <3>1, <3>2
  <2>5. Own(t)'
    BY <2>1, <2>3, <2>4 DEF Own
  <2>6. \A u \in Thread : u # t /\ Live(u) => inService' \cap Queued(u) = inService \cap Queued(u)
    <3>1. Top(t).ev \in Queued(t)
      BY <2>1 DEF Queued
    <3> QED
      BY <2>1, <3>1 DEF QueuesApart
  <2> QED
    BY <2>1, <2>2, <2>5, <2>6, OwnKept DEF LifeStays
<1>5. ASSUME NEW t \in Thread, NEW i \in DOMAIN queue[t], NEW f \in Frame,
          Deferred(t, i, f)
      PROVE  HandlersOwnEvents'
  <2>1. Live(t) /\ LifeStays /\ Own(t) /\ stack[t] # <<>> /\ Moved(t, f)
    BY <1>5, OwnIsHandlers DEF AllOwn, Deferred
  <2>2. UNCHANGED queue /\ \A u \in Thread : u # t => stack'[u] = stack[u]
    BY <1>5 DEF Deferred, QueuesStay, Moved
  <2>3. /\ Top(t).ev # None /\ f.ev = queue[t][i] /\ queue[t][i] \notin inService
        /\ inService' = (inService \ {Top(t).ev}) \cup {queue[t][i]}
    <3>1. Top(t) \in Frame /\ queue[t][i] \in Event /\ eventCount[t] + Top(t).saved \in Int
      BY <2>1, TopIsFrame, QueueType, TopMode
    <3>2. f = WithEvent(Top(t), queue[t][i], eventCount[t] + Top(t).saved)
      BY <1>5 DEF Deferred
    <3> QED
      BY <1>5, <3>1, <3>2, WithEventIsFrame DEF Deferred
  <2>4. /\ f.ev \notin BusyEvents(t) /\ queue[t][i] \in Queued(t) /\ f.ev # None
        /\ Top(t).ev \in Queued(t)
    BY <1>5, <2>1, <2>3, QueueType, NotifyConstants DEF Own, Queued, Deferred
  <2>5. Distinct(t)' /\ BusyEvents(t)' = (BusyEvents(t) \ {Top(t).ev}) \cup ({f.ev} \ {None})
    BY <2>1, <2>4, BusyMoved DEF Own
  <2>6. Own(t)' /\ Queued(t)' = Queued(t)
    BY <2>1, <2>2, <2>3, <2>4, <2>5 DEF Own, Queued
  <2>7. \A u \in Thread : u # t /\ Live(u) => inService' \cap Queued(u) = inService \cap Queued(u)
    BY <2>1, <2>3, <2>4 DEF QueuesApart
  <2> QED
    BY <2>1, <2>2, <2>6, <2>7, OwnKept DEF LifeStays
<1>6. ASSUME NEW t \in Thread, NEW f \in Frame, DeferredLast(t, f)
      PROVE  HandlersOwnEvents'
  <2>1. Live(t) /\ LifeStays /\ Own(t) /\ stack[t] # <<>> /\ Moved(t, f)
    BY <1>6, OwnIsHandlers DEF AllOwn, DeferredLast
  <2>2. UNCHANGED queue /\ \A u \in Thread : u # t => stack'[u] = stack[u]
    BY <1>6 DEF DeferredLast, QueuesStay, Moved
  <2>3. /\ Top(t).ev # None /\ f.ev = None /\ inService' = inService \ {Top(t).ev}
    <3>1. PICK g \in Frame : g = WithEvent(Top(t), None, 0) /\ g.ev = None
      <4>1. Top(t) \in Frame
        BY <2>1, TopIsFrame
      <4>2. WithEvent(Top(t), None, 0) \in Frame /\ WithEvent(Top(t), None, 0).ev = None
        BY <4>1, WithEventIsFrame
      <4> QED
        BY <4>2
    <3> QED
      BY <1>6, <3>1, AtIsFrame DEF DeferredLast
  <2>4. f.ev = None /\ Top(t).ev \in Queued(t)
    BY <1>6, <2>3 DEF DeferredLast
  <2>5. Distinct(t)' /\ BusyEvents(t)' = (BusyEvents(t) \ {Top(t).ev}) \cup ({f.ev} \ {None})
    BY <2>1, <2>4, BusyMoved DEF Own
  <2>6. Own(t)' /\ Queued(t)' = Queued(t)
    BY <2>1, <2>2, <2>3, <2>4, <2>5 DEF Own, Queued
  <2>7. \A u \in Thread : u # t /\ Live(u) => inService' \cap Queued(u) = inService \cap Queued(u)
    BY <2>1, <2>3, <2>4 DEF QueuesApart
  <2> QED
    BY <2>1, <2>2, <2>6, <2>7, OwnKept DEF LifeStays
<1>7. ASSUME NEW t \in Thread, NEW f \in Frame, Calling(t, f)
      PROVE  HandlersOwnEvents'
  <2>1. Live(t) /\ LifeStays /\ Own(t)
    BY <1>7, OwnIsHandlers DEF AllOwn, Calling
  <2>2. UNCHANGED <<queue, inService>> /\ \A u \in Thread : u # t => stack'[u] = stack[u]
    BY <1>7 DEF Calling, Resting, QueuesStay, Moved, Entered, Exited
  <2>3. Distinct(t)' /\ BusyEvents(t)' = BusyEvents(t)
    BY <1>7, <2>1, BusyEntered DEF Calling, Own
  <2>4. Own(t)' /\ Queued(t)' = Queued(t)
    BY <2>1, <2>2, <2>3 DEF Own, Queued
  <2> QED
    BY <2>1, <2>2, <2>4, OwnKept DEF LifeStays
<1>8. ASSUME NEW t \in Thread, NEW f \in Frame, Moving(t, f)
      PROVE  HandlersOwnEvents'
  <2>1. Live(t) /\ LifeStays /\ Own(t)
    BY <1>8, OwnIsHandlers DEF AllOwn, Moving
  <2>2. UNCHANGED <<queue, inService>> /\ \A u \in Thread : u # t => stack'[u] = stack[u]
    BY <1>8 DEF Moving, Resting, QueuesStay, Moved, Entered, Exited
  <2>3. Distinct(t)' /\ BusyEvents(t)' = BusyEvents(t)
    <3>1. f.ev = None
      BY <1>8, MovingFrame
    <3>2. Distinct(t)' /\ BusyEvents(t)' = (BusyEvents(t) \ {None}) \cup ({None} \ {None})
      BY <1>8, <2>1, <3>1, BusyMoved DEF Moving, Own
    <3> QED
      BY <3>2 DEF BusyEvents
  <2>4. Own(t)' /\ Queued(t)' = Queued(t)
    BY <2>1, <2>2, <2>3 DEF Own, Queued
  <2> QED
    BY <2>1, <2>2, <2>4, OwnKept DEF LifeStays
<1>9. ASSUME NEW t \in Thread, Returning(t)
      PROVE  HandlersOwnEvents'
  <2>1. Live(t) /\ LifeStays /\ Own(t)
    BY <1>9, OwnIsHandlers DEF AllOwn, Returning
  <2>2. UNCHANGED <<queue, inService>> /\ \A u \in Thread : u # t => stack'[u] = stack[u]
    BY <1>9 DEF Returning, Resting, QueuesStay, Moved, Entered, Exited
  <2>3. Distinct(t)' /\ BusyEvents(t)' = BusyEvents(t)
    <3>1. Distinct(t)' /\ BusyEvents(t)' = BusyEvents(t) \ {None}
      BY <1>9, <2>1, BusyExited DEF Returning, Own
    <3> QED
      BY <3>1 DEF BusyEvents
  <2>4. Own(t)' /\ Queued(t)' = Queued(t)
    BY <2>1, <2>2, <2>3 DEF Own, Queued
  <2> QED
    BY <2>1, <2>2, <2>4, OwnKept DEF LifeStays
<1>10. ASSUME NEW t \in Thread, FinalizeQueue(t)
      PROVE  HandlersOwnEvents'
  <2>1. /\ inService' = inService \ Queued(t) /\ Live(t) /\ ~Live(t)' /\ Fading
        /\ \A u \in Thread : u # t => UNCHANGED <<stack[u], queue[u]>>
    BY <1>10 DEF FinalizeQueue, TypeOK, AtCode, Live, Fading, Queued, ToSet
  <2>2. \A u \in Thread : u # t /\ Live(u) => inService' \cap Queued(u) = inService \cap Queued(u)
    BY <2>1 DEF QueuesApart
  <2> QED
    BY <2>1, <2>2, OwnKept
<1>11. CASE Standing
  <2>1. UNCHANGED <<stack, queue, inService>> /\ LifeStays
    BY <1>11 DEF Standing, Resting, QueuesStay
  <2>2. ASSUME NEW u \in Thread, Live(u)'
        PROVE  Own(u)'
    <3>1. Own(u) /\ UNCHANGED <<stack[u], Queued(u), BusyEvents(u), inService>>
      BY <2>1, <2>2, OwnIsHandlers DEF AllOwn, LifeStays, Queued, BusyEvents
    <3> QED
      BY <3>1 DEF Own, Distinct
  <2>3. AllOwn'
    BY <2>2 DEF AllOwn
  <2> QED
    BY <2>3, OwnIsHandlersNext
<1> QED
  BY <1>1, <1>2, <1>3, <1>4, <1>5, <1>6, <1>7, <1>8, <1>9, <1>10, <1>11
     DEF StepKinds


(* A handler is never executed again while it runs: the events without a   *)
(* proc in the queue are one to one with the running handlers.             *)
LEMMA NotReentered ==
  ASSUME TypeOK, HandlersOwnEvents
  PROVE  HandlersNotReentered
<1> SUFFICES ASSUME NEW t \in Thread, Live(t)
             PROVE  LET busy == {i \in DOMAIN stack[t] : stack[t][i].ev # None} IN
                    /\ \A i, j \in busy : stack[t][i].ev = stack[t][j].ev => i = j
                    /\ {stack[t][i].ev : i \in busy} = inService \cap ToSet(queue[t])
                    /\ Cardinality(busy) = Cardinality(inService \cap ToSet(queue[t]))
  BY DEF HandlersNotReentered, Live
<1> DEFINE busy == {i \in DOMAIN stack[t] : stack[t][i].ev # None}
           evs == inService \cap ToSet(queue[t])
           own == [i \in busy |-> stack[t][i].ev]
<1>1. \A i, j \in busy : stack[t][i].ev = stack[t][j].ev => i = j
  BY DEF HandlersOwnEvents
<1>2. {stack[t][i].ev : i \in busy} = BusyEvents(t)
  BY DEF BusyEvents
<1>3. BusyEvents(t) = evs
  BY DEF HandlersOwnEvents, Queued, ToSet
<1>4. IsFiniteSet(busy)
  <2>1. DOMAIN stack[t] = 1..Len(stack[t]) /\ Len(stack[t]) \in Nat
    BY StackType
  <2>2. IsFiniteSet(DOMAIN stack[t])
    BY <2>1, FS_Interval
  <2> QED
    BY <2>2, FS_Subset
<1>5. own \in Surjection(busy, evs) /\ own \in Injection(busy, evs)
  <2> HIDE DEF busy, evs
  <2>1. evs = {stack[t][i].ev : i \in busy}
    BY <1>2, <1>3
  <2> QED
    BY <1>1, <2>1 DEF Surjection, Injection, IsInjective
<1>6. Cardinality(busy) = Cardinality(evs)
  <2> HIDE DEF busy, evs, own
  <2> QED
    BY <1>4, <1>5, FS_Surjection
<1> QED
  BY <1>1, <1>2, <1>3, <1>6

------------------------------------------------------------------------------
(* The service mode.                                                       *)

(* ModesNest, for one frame.                                               *)
ModeNests(t, d) ==
    /\ stack[t][d].oldMode = IF d = 1 THEN "all" ELSE "none"
    /\ stack[t][d].at \in {"allcheck", "all", "allidle"} => d = 1

(* The modes stay nested when they are in the thread that steps.           *)
LEMMA ModesKept ==
  ASSUME ModesNest, LifeStays, NEW t \in Thread,
         \A u \in Thread : u # t => UNCHANGED <<stack[u], serviceMode[u]>>,
         Live(t) => (serviceMode'[t] = "none" <=> stack'[t] # <<>>),
         \A d \in DOMAIN stack'[t] : ModeNests(t, d)'
  PROVE  ModesNest'
<1>1. ASSUME NEW u \in Thread
      PROVE  /\ Live(u)' => (serviceMode'[u] = "none" <=> stack'[u] # <<>>)
             /\ \A d \in DOMAIN stack'[u] : ModeNests(u, d)'
  <2>1. CASE u = t
    BY <2>1 DEF LifeStays
  <2>2. CASE u # t
    BY <2>2 DEF LifeStays, ModesNest, ModeNests
  <2> QED
    BY <2>1, <2>2
<1> QED
  BY <1>1 DEF ModesNest, ModeNests

(* They do when the innermost call goes on ...                             *)
LEMMA ModesMoved ==
  ASSUME TypeOK, ModesNest, LifeStays, NEW t \in Thread, Live(t), stack[t] # <<>>,
         NEW f, Moved(t, f), UNCHANGED serviceMode, f.oldMode = Top(t).oldMode,
         f.at \in {"allcheck", "all", "allidle"} => Top(t).at \in {"allcheck", "all", "allidle"}
  PROVE  ModesNest'
<1>1. /\ DOMAIN stack[t] = 1..Len(stack[t]) /\ Len(stack[t]) \in Nat \ {0}
      /\ Top(t) = stack[t][Len(stack[t])]
  BY TopIsFrame
<1>2. ASSUME NEW d \in DOMAIN stack'[t] PROVE ModeNests(t, d)'
  <2>1. d \in DOMAIN stack[t] /\ ModeNests(t, d)
    BY <1>1, <1>2 DEF Moved, ModesNest, ModeNests
  <2>2. stack'[t][d] = IF d = Len(stack[t]) THEN f ELSE stack[t][d]
    BY <1>1, <2>1 DEF Moved
  <2> QED
    BY <1>1, <2>1, <2>2 DEF ModeNests
<1>3. /\ \A u \in Thread : u # t => UNCHANGED <<stack[u], serviceMode[u]>>
      /\ serviceMode'[t] = "none" /\ stack'[t] # <<>>
  BY DEF Moved, ModesNest
<1> QED
  BY <1>2, <1>3, ModesKept

(* ... and when it returns, whatever way it does: the mode it found is     *)
(* restored.                                                               *)
LEMMA ModesExited ==
  ASSUME TypeOK, ModesNest, LifeStays, NEW t \in Thread, Live(t), stack[t] # <<>>, Exited(t),
         \/ ModeBecomes(t, Top(t).oldMode)
         \/ ModeBecomes(t, IF Top(t).at = "allidle" THEN "all" ELSE Top(t).oldMode)
  PROVE  ModesNest'
<1> DEFINE m == Len(stack[t])
<1>1. DOMAIN stack[t] = 1..m /\ m \in Nat \ {0} /\ Top(t) = stack[t][m]
  BY TopIsFrame
<1>2. m \in DOMAIN stack[t]
  BY <1>1
<1>3. serviceMode'[t] = IF m = 1 THEN "all" ELSE "none"
  <2>1. ModeNests(t, m)
    BY <1>2 DEF ModesNest, ModeNests
  <2>2. serviceMode \in [Thread -> {"all", "none"}]
    BY DEF TypeOK
  <2> QED
    BY <1>1, <2>1, <2>2 DEF ModeNests, ModeBecomes
<1>4. stack'[t] \in Seq(Frame) /\ Len(stack'[t]) = m - 1 /\ DOMAIN stack'[t] = 1..(m - 1)
  BY DEF Exited
<1>5. stack'[t] # <<>> <=> m # 1
  <2>1. PICK s \in Seq(Frame) : s = stack'[t]
    BY <1>4
  <2> HIDE DEF Frame
  <2>2. s # <<>> <=> Len(s) # 0
    OBVIOUS
  <2>3. Len(s) = m - 1
    BY <1>4, <2>1
  <2> HIDE DEF m
  <2>4. Len(s) # 0 <=> m # 1
    BY <1>1, <2>3
  <2> QED
    BY <2>1, <2>2, <2>4
<1>6. ASSUME NEW d \in DOMAIN stack'[t] PROVE ModeNests(t, d)'
  <2>1. d \in DOMAIN stack[t] /\ stack'[t][d] = stack[t][d]
    BY <1>1, <1>4, <1>6 DEF Exited
  <2> QED
    BY <2>1 DEF ModesNest, ModeNests
<1>7. \A u \in Thread : u # t => UNCHANGED <<stack[u], serviceMode[u]>>
  BY DEF Exited, ModeBecomes, TypeOK
<1> QED
  BY <1>3, <1>5, <1>6, <1>7, ModesKept

(* Every step keeps the modes nested, if application code does not set     *)
(* them itself.                                                            *)
LEMMA ModesStep ==
  ASSUME TypeOK, QueueShape, FramesNest, ModesNest, Modes = {}, StepKinds
  PROVE  ModesNest'
<1>1. ASSUME NEW t \in Thread, NEW e \in Event,
          NEW pos \in {"tail", "head", "mark"}, Queueing(t, e, pos)
      PROVE  ModesNest'
  <2>1. UNCHANGED <<stack, serviceMode>> /\ LifeStays
    BY <1>1 DEF Queueing, ModeBecomes
  <2> QED
    BY <2>1 DEF ModesNest, LifeStays
<1>2. ASSUME NEW t \in Thread, NEW i \in DOMAIN queue[t], Deleting(t, i)
      PROVE  ModesNest'
  <2>1. UNCHANGED <<stack, serviceMode>> /\ LifeStays
    BY <1>2 DEF Deleting, ModeBecomes
  <2> QED
    BY <2>1 DEF ModesNest, LifeStays
<1>3. ASSUME NEW t \in Thread, NEW i \in DOMAIN queue[t], NEW f \in Frame,
          Dispatching(t, i, f)
      PROVE  ModesNest'
  <2>1. /\ Live(t) /\ LifeStays /\ stack[t] # <<>> /\ Moved(t, f)
        /\ UNCHANGED serviceMode
    BY <1>3 DEF Dispatching
  <2>2. /\ f.oldMode = Top(t).oldMode
        /\ f.at \in {"allcheck", "all", "allidle"} => Top(t).at \in {"allcheck", "all", "allidle"}
    <3>1. Top(t) \in Frame /\ queue[t][i] \in Event \cup {None} /\ eventCount[t] \in Int
      BY <2>1, TopIsFrame, QueueType
    <3>2. f = WithEvent(Top(t), queue[t][i], eventCount[t])
      BY <1>3 DEF Dispatching
    <3> QED
      BY <3>1, <3>2, WithEventIsFrame
  <2> QED
    BY <2>1, <2>2, ModesMoved
<1>4. ASSUME NEW t \in Thread, NEW i \in DOMAIN queue[t], NEW f \in Frame,
          Handled(t, i, f)
      PROVE  ModesNest'
  <2>1. Live(t) /\ LifeStays /\ stack[t] # <<>> /\ Top(t) \in Frame
    BY <1>4, TopIsFrame DEF Handled
  <2>2. CASE Top(t).at = "all"
    <3>1. Moved(t, f) /\ UNCHANGED serviceMode /\ f = WithEvent(Top(t), None, 0)
      BY <1>4, <2>2 DEF Handled
    <3>2. f.oldMode = Top(t).oldMode /\ f.at = Top(t).at
      BY <2>1, <3>1, ClearedFrame
    <3> QED
      BY <2>1, <3>1, <3>2, ModesMoved
  <2>3. CASE Top(t).at # "all"
    BY <1>4, <2>1, <2>3, ModesExited DEF Handled
  <2> QED
    BY <2>2, <2>3
<1>5. ASSUME NEW t \in Thread, NEW i \in DOMAIN queue[t], NEW f \in Frame,
          Deferred(t, i, f)
      PROVE  ModesNest'
  <2>1. /\ Live(t) /\ LifeStays /\ stack[t] # <<>> /\ Moved(t, f)
        /\ UNCHANGED serviceMode
    BY <1>5 DEF Deferred
  <2>2. /\ f.oldMode = Top(t).oldMode
        /\ f.at \in {"allcheck", "all", "allidle"} => Top(t).at \in {"allcheck", "all", "allidle"}
    <3>1. Top(t) \in Frame /\ queue[t][i] \in Event \cup {None} /\ eventCount[t] + Top(t).saved \in Int
      BY <2>1, TopIsFrame, QueueType, TopMode
    <3>2. f = WithEvent(Top(t), queue[t][i], eventCount[t] + Top(t).saved)
      BY <1>5 DEF Deferred
    <3> QED
      BY <3>1, <3>2, WithEventIsFrame
  <2> QED
    BY <2>1, <2>2, ModesMoved
<1>6. ASSUME NEW t \in Thread, NEW f \in Frame, DeferredLast(t, f)
      PROVE  ModesNest'
  <2>1. /\ Live(t) /\ LifeStays /\ stack[t] # <<>> /\ Moved(t, f)
        /\ UNCHANGED serviceMode
    BY <1>6 DEF DeferredLast
  <2>2. /\ f.oldMode = Top(t).oldMode
        /\ f.at \in {"allcheck", "all", "allidle"} => Top(t).at \in {"allcheck", "all", "allidle"}
    <3>1. PICK g \in Frame : g = WithEvent(Top(t), None, 0) /\ g.oldMode = Top(t).oldMode
      <4>1. Top(t) \in Frame
        BY <2>1, TopIsFrame
      <4>2. /\ WithEvent(Top(t), None, 0) \in Frame
            /\ WithEvent(Top(t), None, 0).oldMode = Top(t).oldMode
        BY <4>1, WithEventIsFrame
      <4> QED
        BY <4>2
    <3>2. f.oldMode = g.oldMode
      BY <1>6, <3>1, AtIsFrame DEF DeferredLast
    <3>3. Top(t).at \in {"svc1", "svc2", "all"}
      BY <1>6, <2>1, TopIsFrame DEF DeferredLast, FramesNest
    <3> QED
      BY <1>6, <3>1, <3>2, <3>3 DEF DeferredLast
  <2> QED
    BY <2>1, <2>2, ModesMoved
<1>7. ASSUME NEW t \in Thread, NEW f \in Frame, Calling(t, f)
      PROVE  ModesNest'
  <2>1. Live(t) /\ LifeStays /\ Entered(t, f) /\ ModeBecomes(t, "none")
    BY <1>7 DEF Calling
  <2>2. f.oldMode = serviceMode[t] /\ serviceMode[t] \in {"all", "none"}
    BY <1>7 DEF Calling, Frame, TypeOK
  <2>3. f.at \in {"allcheck", "all", "allidle"} => serviceMode[t] # "none"
    BY <1>7 DEF Calling
  <2>4. DOMAIN stack[t] = 1..Len(stack[t]) /\ Len(stack[t]) \in Nat /\ (stack[t] = <<>> <=> Len(stack[t]) = 0)
    BY StackType
  <2>5. serviceMode[t] = "none" <=> Len(stack[t]) # 0
    BY <2>1, <2>4 DEF ModesNest
  <2>6. ASSUME NEW d \in DOMAIN stack'[t] PROVE ModeNests(t, d)'
    <3>1. CASE d = Len(stack[t]) + 1
      BY <2>1, <2>2, <2>3, <2>4, <2>5, <3>1 DEF Entered, ModeNests
    <3>2. CASE d # Len(stack[t]) + 1
      <4>1. d \in DOMAIN stack[t] /\ stack'[t][d] = stack[t][d]
        BY <2>1, <2>4, <2>6, <3>2 DEF Entered
      <4> QED
        BY <4>1 DEF ModeNests, ModesNest
    <3> QED
      BY <3>1, <3>2
  <2>7. /\ \A u \in Thread : u # t => UNCHANGED <<stack[u], serviceMode[u]>>
        /\ serviceMode'[t] = "none" /\ stack'[t] # <<>>
    BY <2>1 DEF Entered, ModeBecomes, TypeOK
  <2> QED
    BY <2>1, <2>6, <2>7, ModesKept
<1>8. ASSUME NEW t \in Thread, NEW f \in Frame, Moving(t, f)
      PROVE  ModesNest'
  <2>1. /\ Live(t) /\ LifeStays /\ stack[t] # <<>> /\ Moved(t, f)
        /\ UNCHANGED serviceMode
    BY <1>8 DEF Moving
  <2>2. /\ f.oldMode = Top(t).oldMode
        /\ f.at \in {"allcheck", "all", "allidle"} => Top(t).at \in {"allcheck", "all", "allidle"}
    BY <1>8, MovingFrame
  <2> QED
    BY <2>1, <2>2, ModesMoved
<1>9. ASSUME NEW t \in Thread, Returning(t)
      PROVE  ModesNest'
  BY <1>9, ModesExited DEF Returning
<1>10. ASSUME NEW t \in Thread, FinalizeQueue(t)
      PROVE  ModesNest'
  <2>1. /\ Live(t) /\ ~Live(t)' /\ stack'[t] = <<>> /\ UNCHANGED serviceMode
        /\ \A u \in Thread : u # t => stack'[u] = stack[u] /\ (Live(u)' <=> Live(u))
    BY <1>10 DEF FinalizeQueue, TypeOK, AtCode, Live
  <2> QED
    BY <2>1 DEF ModesNest
<1>11. CASE Standing
  <2>1. UNCHANGED <<stack, serviceMode>> /\ LifeStays
    BY <1>11 DEF Standing
  <2> QED
    BY <2>1 DEF ModesNest, LifeStays
<1> QED
  BY <1>1, <1>2, <1>3, <1>4, <1>5, <1>6, <1>7, <1>8, <1>9, <1>10, <1>11
     DEF StepKinds


(* No event loop is active and no handler runs initially.                  *)
LEMMA NestInit ==
  ASSUME Init
  PROVE  HandlersOwnEvents /\ ModesNest
<1>1. DOMAIN <<>> = {}
  OBVIOUS
<1>2. \A t \in Thread : /\ stack[t] = <<>> /\ DOMAIN stack[t] = {}
                        /\ inService = {} /\ serviceMode[t] = "all"
  BY <1>1 DEF Init
<1>3. \A t \in Thread : Own(t)
  BY <1>2 DEF Own, Distinct, BusyEvents
<1> QED
  BY <1>2, <1>3, OwnIsHandlers DEF AllOwn, ModesNest

(* Each running handler has an event of its own in the queue, and those    *)
(* are the events without a proc, however event loops are nested in event  *)
(* handlers and whatever is queued and deleted meanwhile.                  *)
THEOREM HandlersNest == Spec => [](HandlersOwnEvents /\ HandlersNotReentered)
<1>1. Init => HandlersOwnEvents
  BY NestInit
<1>2. QueueInv /\ HandlersOwnEvents /\ [Next]_vars => HandlersOwnEvents'
  BY QueueStep, HandlersStep DEF QueueInv
<1>3. QueueInv /\ HandlersOwnEvents => HandlersNotReentered
  BY NotReentered DEF QueueInv
<1> QED
  BY <1>1, <1>2, <1>3, QueueInvariant, PTL DEF Spec

(* As long as application code leaves the service mode alone, it is        *)
(* TCL_SERVICE_NONE exactly while an event loop is active, whatever way    *)
(* the loops return.                                                       *)
THEOREM LoopsRestoreMode ==
  ASSUME Modes = {}
  PROVE  Spec => []LoopsNest
<1>1. Init => ModesNest
  BY NestInit
<1>2. QueueInv /\ ModesNest /\ [Next]_vars => ModesNest'
  BY QueueStep, ModesStep DEF QueueInv
<1>3. ModesNest /\ HandlersNotReentered => LoopsNest
  BY DEF ModesNest, LoopsNest, ServiceModeFollowsLoops, Live
<1> QED
  BY <1>1, <1>2, <1>3, QueueInvariant, HandlersNest, PTL DEF Spec

------------------------------------------------------------------------------
(* The counts set aside.                                                   *)

(* g adds up the counts of the first n frames of s.                        *)
Adds(s, n, g) ==
    /\ g \in [0..n -> Int] /\ g[0] = 0
    /\ \A d \in 1..n : g[d] = g[d - 1] + s[d].saved

(* There are such sums: a shortest part of the stack without one would be  *)
(* one frame longer than a part with one.                                  *)
LEMMA SumsExist ==
  ASSUME NEW s \in Seq(Frame)
  PROVE  \E g : Adds(s, Len(s), g)
<1> DEFINE S == {m \in 0..Len(s) : ~\E g : Adds(s, m, g)}
<1>1. Len(s) \in Nat /\ \A d \in 1..Len(s) : s[d] \in Frame
  OBVIOUS
<1>2. \A d \in 1..Len(s) : s[d].saved \in Int
  BY <1>1 DEF Frame
<1> HIDE DEF Frame
<1>3. SUFFICES ASSUME S # {} PROVE FALSE
  BY <1>1
<1>4. S \in SUBSET Nat
  BY <1>1
<1>5. PICK m \in S : \A k \in S : m <= k
  BY ONLY <1>3, <1>4, LeastElement, Zenon
<1>6. m \in 0..Len(s) /\ ~\E g : Adds(s, m, g)
  OBVIOUS
<1>7. m # 0
  <2>1. Adds(s, 0, [d \in 0..0 |-> 0])
    BY DEF Adds
  <2> QED
    BY <1>6, <2>1
<1>8. m - 1 \in 0..Len(s) /\ m - 1 \notin S
  BY <1>1, <1>5, <1>6, <1>7
<1>9. PICK g : Adds(s, m - 1, g)
  BY <1>8
<1> DEFINE h == [d \in 0..m |-> IF d = m THEN g[m - 1] + s[m].saved ELSE g[d]]
<1>10. Adds(s, m, h)
  <2>1. m - 1 \in 0..(m - 1) /\ m \in 1..Len(s) /\ g \in [0..(m - 1) -> Int]
    BY <1>1, <1>6, <1>7, <1>9 DEF Adds
  <2>2. g[m - 1] + s[m].saved \in Int
    BY <1>2, <2>1
  <2>3. h \in [0..m -> Int]
    BY <1>6, <2>1, <2>2
  <2>4. h[0] = 0
    BY <1>6, <1>7, <1>9 DEF Adds
  <2>5. ASSUME NEW d \in 1..m PROVE h[d] = h[d - 1] + s[d].saved
    <3>1. d \in 0..m /\ d - 1 \in 0..m /\ d - 1 # m
      BY <1>6
    <3>2. CASE d = m
      BY <3>1, <3>2
    <3>3. CASE d # m
      <4>1. d \in 1..(m - 1)
        BY <1>6, <3>3
      <4>2. g[d] = g[d - 1] + s[d].saved
        BY <1>9, <4>1 DEF Adds
      <4> QED
        BY <3>1, <3>3, <4>2
    <3> QED
      BY <3>2, <3>3
  <2> HIDE DEF h
  <2> QED
    BY <2>3, <2>4, <2>5 DEF Adds
<1> QED
  BY <1>6, <1>10

(* They are what SetAside computes.                                        *)
LEMMA SetAsideAdds ==
  ASSUME NEW s \in Seq(Frame), NEW g, Adds(s, Len(s), g)
  PROVE  SetAside(s) = g[Len(s)]
<1> DEFINE n == Len(s)
           Sum(h) == h = [d \in 0..n |-> IF d = 0 THEN 0 ELSE h[d - 1] + s[d].saved]
           c == CHOOSE h : Sum(h)
<1>1. n \in Nat
  OBVIOUS
<1> HIDE DEF Frame
<1>2. Sum(g)
  <2>1. g = [d \in 0..n |-> g[d]]
    BY DEF Adds
  <2>2. ASSUME NEW d \in 0..n PROVE g[d] = IF d = 0 THEN 0 ELSE g[d - 1] + s[d].saved
    BY <1>1 DEF Adds
  <2> QED
    BY <2>1, <2>2
<1>3. Sum(c)
  <2> HIDE DEF Sum
  <2> QED
    BY <1>2
<1>4. c[0] = 0 /\ \A d \in 1..n : c[d] = c[d - 1] + s[d].saved
  <2> HIDE DEF c
  <2>1. \A d \in 0..n : c[d] = IF d = 0 THEN 0 ELSE c[d - 1] + s[d].saved
    BY <1>3
  <2> QED
    BY <1>1, <2>1
<1> DEFINE S == {m \in 0..n : c[m] # g[m]}
<1>5. S = {}
  <2> HIDE DEF c
  <2>1. SUFFICES ASSUME S # {} PROVE FALSE
    OBVIOUS
  <2>2. S \in SUBSET Nat
    BY <1>1
  <2>3. PICK m \in S : \A k \in S : m <= k
    BY ONLY <2>1, <2>2, LeastElement, Zenon
  <2>4. m \in 0..n /\ c[m] # g[m]
    OBVIOUS
  <2>5. m # 0
    BY <1>4, <2>4 DEF Adds
  <2>6. m - 1 \in 0..n /\ m - 1 \notin S /\ m \in 1..n
    BY <1>1, <2>3, <2>4, <2>5
  <2>7. c[m - 1] = g[m - 1]
    BY <2>6
  <2> QED
    BY <1>4, <2>4, <2>6, <2>7 DEF Adds
<1>6. c[n] = g[n]
  <2> HIDE DEF c
  <2> QED
    BY <1>1, <1>5
<1>7. SetAside(s) = c[n]
  BY DEF SetAside
<1> QED
  BY <1>6, <1>7

(* A sum of counts is a count.                                             *)
LEMMA SumType ==
  ASSUME TypeOK, NEW t \in Thread
  PROVE  SetAside(stack[t]) \in Int
<1>1. stack[t] \in Seq(Frame)
  BY StackType
<1> HIDE DEF Frame
<1>2. PICK g : Adds(stack[t], Len(stack[t]), g)
  BY <1>1, SumsExist
<1>3. SetAside(stack[t]) = g[Len(stack[t])]
  BY <1>1, <1>2, SetAsideAdds
<1>4. Len(stack[t]) \in 0..Len(stack[t])
  BY <1>1
<1> QED
  BY <1>2, <1>3, <1>4 DEF Adds

(* What is set aside when the innermost call goes on ...                   *)
LEMMA MovedSum ==
  ASSUME TypeOK, NEW t \in Thread, stack[t] # <<>>, NEW f \in Frame, Moved(t, f)
  PROVE  /\ SetAside(stack'[t]) = (SetAside(stack[t]) - Top(t).saved) + f.saved
         /\ SetAside(stack[t]) \in Int
<1> DEFINE n == Len(stack[t])
<1>1. stack[t] \in Seq(Frame) /\ stack'[t] \in Seq(Frame) /\ Len(stack'[t]) = n
  BY StackType DEF Moved
<1>2. /\ DOMAIN stack[t] = 1..n /\ n \in Nat \ {0} /\ Top(t) = stack[t][n]
      /\ \A d \in 1..n : stack'[t][d] = IF d = n THEN f ELSE stack[t][d]
  BY TopIsFrame DEF Moved
<1>3. Top(t).saved \in Int /\ f.saved \in Int
  BY TopMode DEF Frame
<1> HIDE DEF Frame
<1>4. PICK g : Adds(stack[t], n, g)
  BY <1>1, SumsExist
<1> DEFINE h == [d \in 0..n |-> IF d = n THEN (g[n] - Top(t).saved) + f.saved ELSE g[d]]
<1>5. n \in 0..n /\ g \in [0..n -> Int] /\ g[n] \in Int
  BY <1>2, <1>4 DEF Adds
<1>6. h \in [0..n -> Int] /\ h[0] = 0 /\ h[n] = (g[n] - Top(t).saved) + f.saved
  BY <1>2, <1>3, <1>4, <1>5 DEF Adds
<1>7. ASSUME NEW d \in 1..n PROVE h[d] = h[d - 1] + stack'[t][d].saved
  <2>1. d \in 0..n /\ d - 1 \in 0..n /\ d - 1 # n /\ g[d - 1] \in Int
    BY <1>2, <1>5
  <2>2. g[d] = g[d - 1] + stack[t][d].saved
    BY <1>4 DEF Adds
  <2>3. CASE d = n
    <3>1. /\ h[d] = (g[d] - Top(t).saved) + f.saved /\ h[d - 1] = g[d - 1]
          /\ stack'[t][d] = f /\ stack[t][d] = Top(t) /\ g[d] \in Int
      BY <1>2, <1>5, <2>1, <2>3
    <3> HIDE DEF h
    <3> QED
      BY <1>3, <2>1, <2>2, <3>1
  <2>4. CASE d # n
    BY <1>2, <2>1, <2>2, <2>4
  <2> QED
    BY <2>3, <2>4
<1>8. Adds(stack'[t], n, h)
  <2> HIDE DEF h
  <2> QED
    BY <1>6, <1>7 DEF Adds
<1> HIDE DEF h
<1>9. SetAside(stack[t]) = g[n] /\ SetAside(stack'[t]) = h[n]
  BY <1>1, <1>4, <1>8, SetAsideAdds
<1> QED
  BY <1>5, <1>6, <1>9

(* ... when it returns ...                                                 *)
LEMMA ExitedSum ==
  ASSUME TypeOK, NEW t \in Thread, stack[t] # <<>>, Exited(t)
  PROVE  /\ SetAside(stack'[t]) = SetAside(stack[t]) - Top(t).saved
         /\ SetAside(stack[t]) \in Int
<1> DEFINE n == Len(stack[t])
<1>1. stack[t] \in Seq(Frame) /\ stack'[t] \in Seq(Frame) /\ Len(stack'[t]) = n - 1
  BY StackType DEF Exited
<1>2. /\ DOMAIN stack[t] = 1..n /\ n \in Nat \ {0} /\ Top(t) = stack[t][n]
      /\ \A d \in 1..(n - 1) : stack'[t][d] = stack[t][d]
  BY TopIsFrame DEF Exited
<1>3. Top(t).saved \in Int
  BY TopMode
<1> HIDE DEF Frame
<1>4. PICK g : Adds(stack[t], n, g)
  BY <1>1, SumsExist
<1>5. g \in [0..n -> Int] /\ g[0] = 0 /\ \A d \in 1..n : g[d] = g[d - 1] + stack[t][d].saved
  BY <1>4 DEF Adds
<1>6. n \in 1..n /\ n - 1 \in 0..n /\ n \in 0..n /\ 0 \in 0..(n - 1) /\ n - 1 \in 0..(n - 1)
  BY <1>2
<1> DEFINE h == [d \in 0..(n - 1) |-> g[d]]
<1>7. Adds(stack'[t], n - 1, h) /\ h[n - 1] = g[n - 1]
  <2>1. h \in [0..(n - 1) -> Int] /\ h[0] = 0 /\ h[n - 1] = g[n - 1]
    BY <1>2, <1>5, <1>6
  <2>2. ASSUME NEW d \in 1..(n - 1) PROVE h[d] = h[d - 1] + stack'[t][d].saved
    <3>1. d \in 0..(n - 1) /\ d - 1 \in 0..(n - 1) /\ d \in 1..n
      BY <1>2
    <3> QED
      BY <1>2, <1>5, <3>1
  <2> HIDE DEF h
  <2> QED
    BY <2>1, <2>2 DEF Adds
<1> HIDE DEF h
<1>8. SetAside(stack[t]) = g[n] /\ SetAside(stack'[t]) = g[n - 1]
  BY <1>1, <1>4, <1>7, SetAsideAdds
<1>9. g[n] = g[n - 1] + Top(t).saved /\ g[n] \in Int /\ g[n - 1] \in Int
  BY <1>2, <1>5, <1>6
<1> QED
  BY <1>3, <1>8, <1>9

(* ... and when one starts.                                                *)
LEMMA EnteredSum ==
  ASSUME TypeOK, NEW t \in Thread, NEW f \in Frame, Entered(t, f)
  PROVE  /\ SetAside(stack'[t]) = SetAside(stack[t]) + f.saved
         /\ SetAside(stack[t]) \in Int
<1> DEFINE n == Len(stack[t])
<1>1. stack[t] \in Seq(Frame) /\ stack'[t] \in Seq(Frame) /\ Len(stack'[t]) = n + 1
  BY StackType DEF Entered
<1>2. /\ n \in Nat /\ stack'[t][n + 1] = f
      /\ \A d \in 1..n : stack'[t][d] = stack[t][d]
  BY StackType DEF Entered
<1>3. f.saved \in Int
  BY DEF Frame
<1> HIDE DEF Frame
<1>4. PICK g : Adds(stack[t], n, g)
  BY <1>1, SumsExist
<1>5. g \in [0..n -> Int] /\ g[0] = 0 /\ g[n] \in Int
  BY <1>2, <1>4 DEF Adds
<1> DEFINE h == [d \in 0..(n + 1) |-> IF d = n + 1 THEN g[n] + f.saved ELSE g[d]]
<1>6. h \in [0..(n + 1) -> Int] /\ h[0] = 0 /\ h[n + 1] = g[n] + f.saved
  BY <1>2, <1>3, <1>5
<1>7. ASSUME NEW d \in 1..(n + 1) PROVE h[d] = h[d - 1] + stack'[t][d].saved
  <2>1. d \in 0..(n + 1) /\ d - 1 \in 0..(n + 1) /\ d - 1 # n + 1
    BY <1>2
  <2>2. CASE d = n + 1
    BY <1>2, <2>1, <2>2
  <2>3. CASE d # n + 1
    <3>1. d \in 1..n
      BY <1>2, <2>3
    <3>2. g[d] = g[d - 1] + stack[t][d].saved
      BY <1>4, <3>1 DEF Adds
    <3> QED
      BY <1>2, <2>1, <2>3, <3>1, <3>2
  <2> QED
    BY <2>2, <2>3
<1>8. Adds(stack'[t], n + 1, h)
  <2> HIDE DEF h
  <2> QED
    BY <1>6, <1>7 DEF Adds
<1> HIDE DEF h
<1>9. SetAside(stack[t]) = g[n] /\ SetAside(stack'[t]) = h[n + 1]
  BY <1>1, <1>4, <1>8, SetAsideAdds
<1> QED
  BY <1>5, <1>6, <1>9

(* The counts stay balanced when they are in the thread that steps.        *)
LEMMA CountKept ==
  ASSUME CountBalanced, LifeStays, NEW t \in Thread,
         \A u \in Thread : u # t => UNCHANGED <<queue[u], eventCount[u], stack[u]>>,
         Live(t) => Len(queue'[t]) = eventCount'[t] + SetAside(stack'[t])
  PROVE  CountBalanced'
<1>1. ASSUME NEW u \in Thread, Live(u)'
      PROVE  Len(queue'[u]) = eventCount'[u] + SetAside(stack'[u])
  <2>1. CASE u = t
    BY <1>1, <2>1 DEF LifeStays
  <2>2. CASE u # t
    BY <1>1, <2>2 DEF LifeStays, CountBalanced, Live
  <2> QED
    BY <2>1, <2>2
<1> QED
  BY <1>1 DEF CountBalanced, Live

(* Every step keeps the counts balanced.                                   *)
LEMMA CountStep ==
  ASSUME TypeOK, QueueShape, FramesNest, CountBalanced, StepKinds
  PROVE  CountBalanced'
<1>1. ASSUME NEW t \in Thread, NEW e \in Event,
          NEW pos \in {"tail", "head", "mark"}, Queueing(t, e, pos)
      PROVE  CountBalanced'
  <2>1. QueueEvent(t, e, pos) /\ UNCHANGED stack /\ LifeStays
    BY <1>1 DEF Queueing
  <2>2. /\ eventCount'[t] = eventCount[t] + 1
        /\ \A u \in Thread : u # t => UNCHANGED <<queue[u], eventCount[u]>>
    BY <2>1, QueueEventTypes DEF OthersStay
  <2>3. SetAside(stack[t]) \in Int /\ eventCount[t] \in Int /\ Len(queue[t]) \in Nat
    BY SumType, QueueType DEF TypeOK
  <2>4. Live(t) => Len(queue'[t]) = eventCount'[t] + SetAside(stack'[t])
    <3>1. ASSUME Live(t) PROVE Len(queue'[t]) = eventCount'[t] + SetAside(stack'[t])
      <4>1. Len(queue'[t]) = Len(queue[t]) + 1
        BY <2>1, <3>1, QueuedLinking
      <4>2. Len(queue[t]) = eventCount[t] + SetAside(stack[t])
        BY <3>1 DEF CountBalanced, Live
      <4> QED
        BY <2>1, <2>2, <2>3, <4>1, <4>2
    <3> QED
      BY <3>1
  <2> QED
    BY <2>1, <2>2, <2>4, CountKept
<1>2. ASSUME NEW t \in Thread, NEW i \in DOMAIN queue[t], Deleting(t, i)
      PROVE  CountBalanced'
  <2>1. Live(t) /\ LifeStays /\ Unlink(t, i) /\ UNCHANGED stack
    BY <1>2 DEF Deleting
  <2>2. /\ eventCount'[t] = eventCount[t] - 1
        /\ \A u \in Thread : u # t => UNCHANGED <<queue[u], eventCount[u]>>
    BY <1>2, <2>1, UnlinkRemoves DEF Deleting, TypeOK
  <2>3. SetAside(stack[t]) \in Int /\ eventCount[t] \in Int /\ Len(queue[t]) \in Nat
    BY SumType, QueueType DEF TypeOK
  <2>4. Len(queue'[t]) = Len(queue[t]) - 1
    BY <2>1, QueuedUnlinking
  <2>5. Len(queue[t]) = eventCount[t] + SetAside(stack[t])
    BY <2>1 DEF CountBalanced, Live
  <2>6. Len(queue'[t]) = eventCount'[t] + SetAside(stack'[t])
    BY <2>1, <2>2, <2>3, <2>4, <2>5
  <2> QED
    BY <2>1, <2>2, <2>6, CountKept
<1>3. ASSUME NEW t \in Thread, NEW i \in DOMAIN queue[t], NEW f \in Frame,
          Dispatching(t, i, f)
      PROVE  CountBalanced'
  <2>1. Live(t) /\ LifeStays /\ stack[t] # <<>> /\ Moved(t, f) /\ UNCHANGED queue
    BY <1>3 DEF Dispatching, QueuesStay
  <2>2. f.saved = eventCount[t] /\ Top(t).saved \in Int /\ eventCount[t] \in Int
    <3>1. Top(t) \in Frame /\ queue[t][i] \in Event \cup {None} /\ eventCount[t] \in Int
      BY <2>1, TopIsFrame, QueueType
    <3>2. f = WithEvent(Top(t), queue[t][i], eventCount[t])
      BY <1>3 DEF Dispatching
    <3> QED
      BY <2>1, <3>1, <3>2, WithEventIsFrame, TopMode, QueueType
  <2>3. eventCount'[t] = 0 /\ \A u \in Thread : u # t => eventCount'[u] = eventCount[u]
    BY <1>3 DEF Dispatching, TypeOK
  <2>4. SetAside(stack'[t]) = (SetAside(stack[t]) - Top(t).saved) + f.saved /\ SetAside(stack[t]) \in Int
    BY <2>1, MovedSum
  <2>5. Len(queue[t]) = eventCount[t] + SetAside(stack[t]) /\ Len(queue[t]) \in Nat
    BY <2>1, QueueType DEF CountBalanced, Live
  <2>6. Len(queue'[t]) = eventCount'[t] + SetAside(stack'[t])
    <3>1. Top(t) = stack[t][Len(stack[t])] /\ Len(stack[t]) \in DOMAIN stack[t]
      BY <2>1, TopIsFrame
    <3>2. Top(t).ev = None
      BY <1>3 DEF Dispatching
    <3>3. Top(t).saved = 0
      BY <3>1, <3>2 DEF FramesNest
    <3> QED
      BY <2>1, <2>2, <2>3, <2>4, <2>5, <3>3
  <2>7. \A u \in Thread : u # t => UNCHANGED <<queue[u], eventCount[u], stack[u]>>
    BY <2>1, <2>3 DEF Moved
  <2> QED
    BY <2>1, <2>6, <2>7, CountKept
<1>4. ASSUME NEW t \in Thread, NEW i \in DOMAIN queue[t], NEW f \in Frame,
          Handled(t, i, f)
      PROVE  CountBalanced'
  <2>1. Live(t) /\ LifeStays /\ stack[t] # <<>> /\ Unlink(t, i)
    BY <1>4 DEF Handled
  <2>2. /\ eventCount'[t] = (eventCount[t] + Top(t).saved) - 1 /\ eventCount[t] \in Int
        /\ Top(t).saved \in Int /\ \A u \in Thread : u # t => UNCHANGED <<queue[u], eventCount[u]>>
    BY <1>4, <2>1, TopMode, UnlinkRemoves DEF Handled, TypeOK
  <2>3. /\ SetAside(stack'[t]) = SetAside(stack[t]) - Top(t).saved /\ SetAside(stack[t]) \in Int
        /\ \A u \in Thread : u # t => stack'[u] = stack[u]
    <3>1. CASE Top(t).at = "all"
      <4>1. f.saved = 0 /\ Moved(t, f)
        <5>1. Top(t) \in Frame
          BY <2>1, TopIsFrame
        <5>2. WithEvent(Top(t), None, 0).saved = 0
          BY <5>1, WithEventIsFrame
        <5> QED
          BY <1>4, <3>1, <5>2 DEF Handled
      <4> QED
        <5>1. /\ SetAside(stack'[t]) = (SetAside(stack[t]) - Top(t).saved) + f.saved
              /\ SetAside(stack[t]) \in Int
          BY <2>1, <4>1, MovedSum
        <5>2. (SetAside(stack[t]) - Top(t).saved) + 0 = SetAside(stack[t]) - Top(t).saved
          BY <2>2, <5>1
        <5> QED
          BY <4>1, <5>1, <5>2 DEF Moved
    <3>2. CASE Top(t).at # "all"
      BY <1>4, <2>1, <3>2, ExitedSum DEF Handled, Exited
    <3> QED
      BY <3>1, <3>2
  <2>4. Len(queue'[t]) = Len(queue[t]) - 1
    BY <2>1, QueuedUnlinking
  <2>5. Len(queue[t]) = eventCount[t] + SetAside(stack[t]) /\ Len(queue[t]) \in Nat
    BY <2>1, QueueType DEF CountBalanced, Live
  <2>6. Len(queue'[t]) = eventCount'[t] + SetAside(stack'[t])
    BY <2>2, <2>3, <2>4, <2>5
  <2> QED
    BY <2>1, <2>2, <2>3, <2>6, CountKept
<1>5. ASSUME NEW t \in Thread, NEW i \in DOMAIN queue[t], NEW f \in Frame,
          Deferred(t, i, f)
      PROVE  CountBalanced'
  <2>1. Live(t) /\ LifeStays /\ stack[t] # <<>> /\ Moved(t, f) /\ UNCHANGED queue
    BY <1>5 DEF Deferred, QueuesStay
  <2>2. f.saved = eventCount[t] + Top(t).saved /\ Top(t).saved \in Int /\ eventCount[t] \in Int
    <3>1. Top(t) \in Frame /\ queue[t][i] \in Event \cup {None} /\ eventCount[t] + Top(t).saved \in Int
      BY <2>1, TopIsFrame, QueueType, TopMode
    <3>2. f = WithEvent(Top(t), queue[t][i], eventCount[t] + Top(t).saved)
      BY <1>5 DEF Deferred
    <3> QED
      <4>1. WithEvent(Top(t), queue[t][i], eventCount[t] + Top(t).saved).saved
               = eventCount[t] + Top(t).saved
        BY <3>1, WithEventIsFrame, Zenon
      <4>2. Top(t).saved \in Int /\ eventCount[t] \in Int
        BY <2>1, TopMode, QueueType
      <4> QED
        BY <3>2, <4>1, <4>2
  <2>3. eventCount'[t] = 0 /\ \A u \in Thread : u # t => eventCount'[u] = eventCount[u]
    BY <1>5 DEF Deferred, TypeOK
  <2>4. SetAside(stack'[t]) = (SetAside(stack[t]) - Top(t).saved) + f.saved /\ SetAside(stack[t]) \in Int
    BY <2>1, MovedSum
  <2>5. Len(queue[t]) = eventCount[t] + SetAside(stack[t]) /\ Len(queue[t]) \in Nat
    BY <2>1, QueueType DEF CountBalanced, Live
  <2>6. Len(queue'[t]) = eventCount'[t] + SetAside(stack'[t])
    BY <2>1, <2>2, <2>3, <2>4, <2>5
  <2>7. \A u \in Thread : u # t => UNCHANGED <<queue[u], eventCount[u], stack[u]>>
    BY <2>1, <2>3 DEF Moved
  <2> QED
    BY <2>1, <2>6, <2>7, CountKept
<1>6. ASSUME NEW t \in Thread, NEW f \in Frame, DeferredLast(t, f)
      PROVE  CountBalanced'
  <2>1. Live(t) /\ LifeStays /\ stack[t] # <<>> /\ Moved(t, f) /\ UNCHANGED queue
    BY <1>6 DEF DeferredLast, QueuesStay
  <2>2. f.saved = 0
    <3>1. PICK g \in Frame : g = WithEvent(Top(t), None, 0) /\ g.saved = 0
      <4>1. Top(t) \in Frame
        BY <2>1, TopIsFrame
      <4>2. WithEvent(Top(t), None, 0) \in Frame /\ WithEvent(Top(t), None, 0).saved = 0
        BY <4>1, WithEventIsFrame
      <4> QED
        BY <4>2
    <3> QED
      BY <1>6, <3>1, AtIsFrame DEF DeferredLast
  <2>3. /\ eventCount'[t] = eventCount[t] + Top(t).saved /\ eventCount[t] \in Int
        /\ Top(t).saved \in Int /\ \A u \in Thread : u # t => eventCount'[u] = eventCount[u]
    BY <1>6, <2>1, TopMode DEF DeferredLast, TypeOK
  <2>4. SetAside(stack'[t]) = (SetAside(stack[t]) - Top(t).saved) + f.saved /\ SetAside(stack[t]) \in Int
    BY <2>1, MovedSum
  <2>5. Len(queue[t]) = eventCount[t] + SetAside(stack[t]) /\ Len(queue[t]) \in Nat
    BY <2>1, QueueType DEF CountBalanced, Live
  <2>6. Len(queue'[t]) = eventCount'[t] + SetAside(stack'[t])
    BY <2>1, <2>2, <2>3, <2>4, <2>5
  <2>7. \A u \in Thread : u # t => UNCHANGED <<queue[u], eventCount[u], stack[u]>>
    BY <2>1, <2>3 DEF Moved
  <2> QED
    BY <2>1, <2>6, <2>7, CountKept
<1>7. ASSUME NEW t \in Thread, NEW f \in Frame, Calling(t, f)
      PROVE  CountBalanced'
  <2>1. /\ Live(t) /\ LifeStays /\ Entered(t, f) /\ f.saved = 0
        /\ UNCHANGED <<queue, eventCount>>
    BY <1>7 DEF Calling, Resting, QueuesStay
  <2>2. SetAside(stack'[t]) = SetAside(stack[t]) + f.saved /\ SetAside(stack[t]) \in Int
    BY <2>1, EnteredSum
  <2>3. Len(queue'[t]) = eventCount'[t] + SetAside(stack'[t])
    BY <2>1, <2>2 DEF CountBalanced, Live
  <2> QED
    BY <2>1, <2>3, CountKept DEF Entered
<1>8. ASSUME NEW t \in Thread, NEW f \in Frame, Moving(t, f)
      PROVE  CountBalanced'
  <2>1. /\ Live(t) /\ LifeStays /\ stack[t] # <<>> /\ Moved(t, f) /\ f = At(Top(t), f.at)
        /\ UNCHANGED <<queue, eventCount>>
    BY <1>8 DEF Moving, Resting, QueuesStay
  <2>2. f.saved = Top(t).saved /\ Top(t).saved \in Int
    BY <1>8, <2>1, MovingFrame, TopMode
  <2>3. SetAside(stack'[t]) = (SetAside(stack[t]) - Top(t).saved) + f.saved /\ SetAside(stack[t]) \in Int
    BY <2>1, MovedSum
  <2>4. Len(queue'[t]) = eventCount'[t] + SetAside(stack'[t])
    BY <2>1, <2>2, <2>3 DEF CountBalanced, Live
  <2> QED
    BY <2>1, <2>4, CountKept DEF Moved
<1>9. ASSUME NEW t \in Thread, Returning(t)
      PROVE  CountBalanced'
  <2>1. /\ Live(t) /\ LifeStays /\ stack[t] # <<>> /\ Exited(t) /\ Top(t).ev = None
        /\ UNCHANGED <<queue, eventCount>>
    BY <1>9 DEF Returning, Resting, QueuesStay
  <2>2. SetAside(stack'[t]) = SetAside(stack[t]) - Top(t).saved /\ SetAside(stack[t]) \in Int
    BY <2>1, ExitedSum
  <2>3. Top(t).saved = 0
    BY <2>1, TopIsFrame DEF FramesNest
  <2>4. Len(queue'[t]) = eventCount'[t] + SetAside(stack'[t])
    BY <2>1, <2>2, <2>3 DEF CountBalanced, Live
  <2> QED
    BY <2>1, <2>4, CountKept DEF Exited
<1>10. ASSUME NEW t \in Thread, FinalizeQueue(t)
      PROVE  CountBalanced'
  <2>1. /\ ~Live(t)'
        /\ \A u \in Thread : u # t =>
              UNCHANGED <<queue[u], eventCount[u], stack[u]>> /\ (Live(u)' <=> Live(u))
    BY <1>10 DEF FinalizeQueue, TypeOK, Live
  <2> QED
    BY <2>1 DEF CountBalanced, Live
<1>11. CASE Standing
  <2>1. UNCHANGED <<queue, eventCount, stack>> /\ LifeStays
    BY <1>11 DEF Standing, Resting, QueuesStay
  <2> QED
    BY <2>1 DEF CountBalanced, LifeStays, Live
<1> QED
  BY <1>1, <1>2, <1>3, <1>4, <1>5, <1>6, <1>7, <1>8, <1>9, <1>10, <1>11
     DEF StepKinds


(* eventCount and the counts that the loops around running handlers have   *)
(* set aside add up to the length of the queue at every nesting of event   *)
(* loops, so the empty test of TCL_QUEUE_ALERT_IF_EMPTY is about the       *)
(* events queued since the innermost handler was entered.                  *)
THEOREM CountsAddUp == Spec => []CountBalanced
<1>1. Init => CountBalanced
  <2> SUFFICES ASSUME Init, NEW t \in Thread
               PROVE  Len(queue[t]) = eventCount[t] + SetAside(stack[t])
    BY DEF CountBalanced
  <2>1. queue[t] = <<>> /\ stack[t] = <<>> /\ eventCount[t] = 0
    BY DEF Init
  <2>2. /\ <<>> \in Seq(Frame) /\ Len(<<>>) = 0
        /\ Adds(<<>>, 0, [d \in 0..0 |-> 0])
    BY DEF Adds
  <2> HIDE DEF Frame
  <2>3. SetAside(<<>>) = [d \in 0..0 |-> 0][0]
    BY <2>2, SetAsideAdds
  <2> QED
    BY <2>1, <2>2, <2>3
<1>2. QueueInv /\ CountBalanced /\ [Next]_vars => CountBalanced'
  BY QueueStep, CountStep DEF QueueInv
<1> QED
  BY <1>1, <1>2, QueueInvariant, PTL DEF Spec

------------------------------------------------------------------------------
(* What a waiting thread goes by.                                          *)

(* LeftIsCounted, for one thread.                                          *)
LeftCounted(t) == \E v \in [0..Len(stack[t]) -> Nat] : LeftOver(t, v)

(* There are as many events left to service as a natural number says.      *)
LEMMA LeftType ==
  ASSUME TypeOK, NEW t \in Thread
  PROVE  /\ IsFiniteSet(Queued(t) \ inService) /\ Left(t) \in Nat
         /\ Left(t) = 0 <=> Queued(t) \subseteq inService
<1>1. queue[t] \in Seq(Event)
  BY DEF TypeOK
<1>2. DOMAIN queue[t] = 1..Len(queue[t]) /\ Len(queue[t]) \in Nat
  BY <1>1
<1>3. IsFiniteSet(DOMAIN queue[t])
  BY <1>2, FS_Interval
<1> DEFINE f == [i \in DOMAIN queue[t] |-> queue[t][i]]
<1>4. f \in Surjection(DOMAIN queue[t], Queued(t))
  BY DEF Queued, Surjection
<1>5. IsFiniteSet(Queued(t))
  <2> HIDE DEF f
  <2> QED
    BY <1>3, <1>4, FS_Surjection
<1>6. IsFiniteSet(Queued(t) \ inService)
  BY <1>5, FS_Subset
<1>7. Left(t) \in Nat /\ (Left(t) = 0 <=> Queued(t) \ inService = {})
  BY <1>6, FS_CardinalityType, FS_EmptySet DEF Left
<1> QED
  BY <1>6, <1>7

(* One event more is left, ...                                             *)
LEMMA LeftMore ==
  ASSUME TypeOK, NEW t \in Thread, NEW e, e \notin Queued(t) \ inService,
         (Queued(t) \ inService)' = (Queued(t) \ inService) \cup {e}
  PROVE  Left(t)' = Left(t) + 1
  BY LeftType, FS_AddElement DEF Left

(* ... or one less.                                                        *)
LEMMA LeftLess ==
  ASSUME TypeOK, NEW t \in Thread, NEW e \in Queued(t) \ inService,
         (Queued(t) \ inService)' = (Queued(t) \ inService) \ {e}
  PROVE  Left(t)' = Left(t) - 1
  BY LeftType, FS_RemoveElement DEF Left

(* What there is to show of the counts after a step.                       *)
LEMMA LeftWitnessed ==
  ASSUME NEW t \in Thread, NEW x \in [0..Len(stack'[t]) -> Nat], x[0] = 0,
         \A d \in DOMAIN stack'[t] :
            x[d] = x[d - 1] + (stack'[t][d].saved - Busy(stack'[t][d])),
         Left(t)' = eventCount'[t] + x[Len(stack'[t])]
  PROVE  LeftCounted(t)'
<1>1. LeftOver(t, x)'
  BY DEF LeftOver, Busy
<1> QED
  BY <1>1 DEF LeftCounted

(* The counts follow when the innermost call goes on ...                   *)
LEMMA LeftMoved ==
  ASSUME TypeOK, NEW t \in Thread, stack[t] # <<>>, NEW f \in Frame, Moved(t, f),
         NEW v \in [0..Len(stack[t]) -> Nat], LeftOver(t, v),
         NEW w \in Nat, w = v[Len(stack[t]) - 1] + (f.saved - Busy(f)),
         Left(t)' = eventCount'[t] + w
  PROVE  LeftCounted(t)'
<1> DEFINE n == Len(stack[t])
<1>1. /\ DOMAIN stack[t] = 1..n /\ n \in Nat \ {0} /\ Len(stack'[t]) = n
      /\ DOMAIN stack'[t] = 1..n
      /\ \A d \in 1..n : stack'[t][d] = IF d = n THEN f ELSE stack[t][d]
  BY TopIsFrame DEF Moved
<1>2. v[0] = 0 /\ \A d \in 1..n : v[d] = v[d - 1] + (stack[t][d].saved - Busy(stack[t][d]))
  BY <1>1 DEF LeftOver
<1> HIDE DEF Frame
<1> DEFINE x == [d \in 0..n |-> IF d = n THEN w ELSE v[d]]
<1>3. x \in [0..n -> Nat] /\ x[0] = 0 /\ x[n] = w
  BY <1>1, <1>2
<1>4. ASSUME NEW d \in 1..n
      PROVE  x[d] = x[d - 1] + (stack'[t][d].saved - Busy(stack'[t][d]))
  <2>1. d \in 0..n /\ d - 1 \in 0..n /\ d - 1 # n
    BY <1>1
  <2>2. CASE d = n
    <3>1. x[d] = w /\ x[d - 1] = v[n - 1] /\ stack'[t][d] = f
      BY <1>1, <2>1, <2>2
    <3> HIDE DEF x
    <3> QED
      BY <3>1
  <2>3. CASE d # n
    <3>1. x[d] = v[d] /\ x[d - 1] = v[d - 1] /\ stack'[t][d] = stack[t][d]
      BY <1>1, <2>1, <2>3
    <3> HIDE DEF x
    <3> QED
      BY <1>2, <3>1
  <2> QED
    BY <2>2, <2>3
<1> HIDE DEF x
<1> QED
  BY <1>1, <1>3, <1>4, LeftWitnessed

(* ... when it returns ...                                                 *)
LEMMA LeftExited ==
  ASSUME TypeOK, NEW t \in Thread, stack[t] # <<>>, Exited(t),
         NEW v \in [0..Len(stack[t]) -> Nat], LeftOver(t, v),
         Left(t)' = eventCount'[t] + v[Len(stack[t]) - 1]
  PROVE  LeftCounted(t)'
<1> DEFINE n == Len(stack[t])
<1>1. /\ DOMAIN stack[t] = 1..n /\ n \in Nat \ {0} /\ Len(stack'[t]) = n - 1
      /\ DOMAIN stack'[t] = 1..(n - 1)
      /\ \A d \in 1..(n - 1) : stack'[t][d] = stack[t][d]
  BY TopIsFrame DEF Exited
<1>2. v[0] = 0 /\ \A d \in 1..n : v[d] = v[d - 1] + (stack[t][d].saved - Busy(stack[t][d]))
  BY <1>1 DEF LeftOver
<1> DEFINE x == [d \in 0..(n - 1) |-> v[d]]
<1>3. x \in [0..(n - 1) -> Nat] /\ x[0] = 0 /\ x[n - 1] = v[n - 1]
  BY <1>1, <1>2
<1>4. ASSUME NEW d \in 1..(n - 1)
      PROVE  x[d] = x[d - 1] + (stack'[t][d].saved - Busy(stack'[t][d]))
  <2>1. d \in 0..(n - 1) /\ d - 1 \in 0..(n - 1) /\ d \in 1..n
    BY <1>1
  <2>2. x[d] = v[d] /\ x[d - 1] = v[d - 1] /\ stack'[t][d] = stack[t][d]
    BY <1>1, <2>1
  <2> HIDE DEF x
  <2> QED
    BY <1>2, <2>1, <2>2
<1> HIDE DEF x
<1> QED
  BY <1>1, <1>3, <1>4, LeftWitnessed

(* ... and when one starts.                                                *)
LEMMA LeftEntered ==
  ASSUME TypeOK, NEW t \in Thread, NEW f, Entered(t, f), f.ev = None, f.saved = 0,
         NEW v \in [0..Len(stack[t]) -> Nat], LeftOver(t, v),
         Left(t)' = Left(t), eventCount'[t] = eventCount[t]
  PROVE  LeftCounted(t)'
<1> DEFINE n == Len(stack[t])
<1>1. /\ DOMAIN stack[t] = 1..n /\ n \in Nat /\ Len(stack'[t]) = n + 1
      /\ DOMAIN stack'[t] = 1..(n + 1) /\ stack'[t][n + 1] = f
      /\ \A d \in 1..n : stack'[t][d] = stack[t][d]
  BY StackType DEF Entered
<1>2. /\ v[0] = 0 /\ \A d \in 1..n : v[d] = v[d - 1] + (stack[t][d].saved - Busy(stack[t][d]))
      /\ Left(t) = eventCount[t] + v[n]
  BY <1>1 DEF LeftOver
<1> DEFINE x == [d \in 0..(n + 1) |-> IF d = n + 1 THEN v[n] ELSE v[d]]
<1>3. x \in [0..(n + 1) -> Nat] /\ x[0] = 0 /\ x[n + 1] = v[n]
  BY <1>1, <1>2
<1>4. ASSUME NEW d \in 1..(n + 1)
      PROVE  x[d] = x[d - 1] + (stack'[t][d].saved - Busy(stack'[t][d]))
  <2>1. d \in 0..(n + 1) /\ d - 1 \in 0..(n + 1) /\ d - 1 # n + 1
    BY <1>1
  <2>2. CASE d = n + 1
    <3>1. x[d] = v[n] /\ x[d - 1] = v[n] /\ stack'[t][d] = f /\ v[n] \in Nat
      BY <1>1, <2>1, <2>2
    <3> HIDE DEF x
    <3> QED
      BY <3>1 DEF Busy
  <2>3. CASE d # n + 1
    <3>1. x[d] = v[d] /\ x[d - 1] = v[d - 1] /\ stack'[t][d] = stack[t][d] /\ d \in 1..n
      BY <1>1, <2>1, <2>3
    <3> HIDE DEF x
    <3> QED
      BY <1>2, <3>1
  <2> QED
    BY <2>2, <2>3
<1> HIDE DEF x
<1>5. Left(t)' = eventCount'[t] + x[n + 1]
  BY <1>2, <1>3
<1> QED
  BY <1>1, <1>3, <1>4, <1>5, LeftWitnessed

(* They stay for the other threads.                                        *)
LEMMA LeftKept ==
  ASSUME LeftIsCounted, Fading \/ LifeStays, NEW t \in Thread,
         \A u \in Thread : u # t => UNCHANGED <<queue[u], eventCount[u], stack[u]>>,
         \A u \in Thread : u # t /\ Live(u) =>
            Queued(u) \ inService' = Queued(u) \ inService,
         Live(t)' => LeftCounted(t)'
  PROVE  LeftIsCounted'
<1>1. ASSUME NEW u \in Thread, Live(u)' PROVE LeftCounted(u)'
  <2>1. CASE u = t
    BY <1>1, <2>1
  <2>2. CASE u # t
    <3>1. Live(u) /\ UNCHANGED <<queue[u], eventCount[u], stack[u]>>
      BY <1>1, <2>2 DEF LifeStays, Fading
    <3>2. Left(u)' = Left(u)
      BY <2>2, <3>1 DEF Left, Queued
    <3>3. PICK v \in [0..Len(stack[u]) -> Nat] : LeftOver(u, v)
      BY <3>1 DEF LeftIsCounted
    <3>4. LeftOver(u, v)'
      BY <3>1, <3>2, <3>3 DEF LeftOver
    <3> QED
      BY <3>1, <3>3, <3>4 DEF LeftCounted
  <2> QED
    BY <2>1, <2>2
<1> QED
  BY <1>1 DEF LeftIsCounted, LeftCounted

(* What the counts say about the innermost call.                           *)
LEMMA LeftTop ==
  ASSUME TypeOK, LeftIsCounted, NEW t \in Thread, Live(t), stack[t] # <<>>
  PROVE  \E v \in [0..Len(stack[t]) -> Nat] :
           /\ LeftOver(t, v) /\ Left(t) = eventCount[t] + v[Len(stack[t])]
           /\ v[Len(stack[t])] = v[Len(stack[t]) - 1] + (Top(t).saved - Busy(Top(t)))
           /\ v[Len(stack[t])] \in Nat /\ v[Len(stack[t]) - 1] \in Nat
<1>1. PICK v \in [0..Len(stack[t]) -> Nat] : LeftOver(t, v)
  BY DEF LeftIsCounted
<1>2. /\ DOMAIN stack[t] = 1..Len(stack[t]) /\ Len(stack[t]) \in Nat \ {0}
      /\ Top(t) = stack[t][Len(stack[t])]
  BY TopIsFrame
<1>3. /\ Len(stack[t]) \in DOMAIN stack[t] /\ Len(stack[t]) \in 0..Len(stack[t])
      /\ Len(stack[t]) - 1 \in 0..Len(stack[t])
  BY <1>2
<1>4. v[Len(stack[t])] \in Nat /\ v[Len(stack[t]) - 1] \in Nat
  BY <1>3
<1>5. /\ Left(t) = eventCount[t] + v[Len(stack[t])]
      /\ v[Len(stack[t])] = v[Len(stack[t]) - 1] + (Top(t).saved - Busy(Top(t)))
  BY <1>1, <1>2, <1>3 DEF LeftOver
<1> QED
  BY <1>1, <1>4, <1>5

(* The handler of the innermost call runs for an event of the queue.       *)
LEMMA TopBusy ==
  ASSUME TypeOK, HandlersOwnEvents, NEW t \in Thread, Live(t), stack[t] # <<>>, Top(t).ev # None
  PROVE  Top(t).ev \in inService /\ Top(t).ev \in Queued(t)
<1>1. Len(stack[t]) \in DOMAIN stack[t] /\ Top(t) = stack[t][Len(stack[t])]
  BY TopIsFrame
<1>2. Top(t).ev \in BusyEvents(t)
  BY <1>1 DEF BusyEvents
<1> QED
  BY <1>2 DEF HandlersOwnEvents

(* Every step keeps the events left to service counted.                    *)
LEMMA LeftStep ==
  ASSUME TypeOK, QueueShape, QueuesApart, FramesNest, HandlersOwnEvents,
         LeftIsCounted, StepKinds
  PROVE  LeftIsCounted'
<1>1. ASSUME NEW t \in Thread, NEW e \in Event,
          NEW pos \in {"tail", "head", "mark"}, Queueing(t, e, pos)
      PROVE  LeftIsCounted'
  <2>1. QueueEvent(t, e, pos) /\ UNCHANGED <<stack, inService>> /\ LifeStays
    BY <1>1 DEF Queueing
  <2>2. /\ eventCount'[t] = eventCount[t] + 1 /\ e \notin alloc
        /\ \A u \in Thread : u # t => UNCHANGED <<queue[u], eventCount[u]>>
    BY <2>1, QueueEventTypes DEF OthersStay
  <2>3. ASSUME Live(t) PROVE LeftCounted(t)'
    <3>1. PICK v \in [0..Len(stack[t]) -> Nat] : LeftOver(t, v)
      BY <2>3 DEF LeftIsCounted
    <3>2. Queued(t)' = Queued(t) \cup {e} /\ e \notin Queued(t) /\ e \notin inService
      <4>1. Queued(t)' = Queued(t) \cup {e}
        BY <2>1, <2>3, QueuedLinking
      <4>2. e \notin Queued(t)
        BY <2>2, <2>3, QueuedAllocated DEF Queued
      <4>3. inService \subseteq alloc
        BY DEF TypeOK
      <4> QED
        BY <2>2, <4>1, <4>2, <4>3
    <3>3. Left(t)' = Left(t) + 1
      BY <2>1, <3>2, LeftMore
    <3>4. Left(t) = eventCount[t] + v[Len(stack[t])]
      BY <3>1 DEF LeftOver
    <3>5. eventCount[t] \in Int /\ v[Len(stack[t])] \in Nat
      BY StackType, QueueType
    <3>6. LeftOver(t, v)'
      BY <2>1, <2>2, <3>1, <3>3, <3>4, <3>5 DEF LeftOver
    <3> QED
      BY <2>1, <3>1, <3>6 DEF LeftCounted
  <2> QED
    BY <2>1, <2>2, <2>3, LeftKept DEF LifeStays
<1>2. ASSUME NEW t \in Thread, NEW i \in DOMAIN queue[t], Deleting(t, i)
      PROVE  LeftIsCounted'
  <2>1. /\ Live(t) /\ LifeStays /\ Unlink(t, i) /\ UNCHANGED <<stack, inService>>
        /\ queue[t][i] \notin inService
    BY <1>2 DEF Deleting
  <2>2. /\ eventCount'[t] = eventCount[t] - 1
        /\ \A u \in Thread : u # t => UNCHANGED <<queue[u], eventCount[u]>>
    BY <1>2, <2>1, UnlinkRemoves DEF Deleting, TypeOK
  <2>3. LeftCounted(t)'
    <3>1. PICK v \in [0..Len(stack[t]) -> Nat] : LeftOver(t, v)
      BY <2>1 DEF LeftIsCounted
    <3>2. Queued(t)' = Queued(t) \ {queue[t][i]} /\ queue[t][i] \in Queued(t)
      BY <2>1, QueuedUnlinking DEF Queued
    <3>3. Left(t)' = Left(t) - 1
      BY <2>1, <3>2, LeftLess
    <3>4. Left(t) = eventCount[t] + v[Len(stack[t])]
      BY <3>1 DEF LeftOver
    <3>5. eventCount[t] \in Int /\ v[Len(stack[t])] \in Nat
      BY StackType, QueueType
    <3>6. LeftOver(t, v)'
      BY <2>1, <2>2, <3>1, <3>3, <3>4, <3>5 DEF LeftOver
    <3> QED
      BY <2>1, <3>1, <3>6 DEF LeftCounted
  <2> QED
    BY <2>1, <2>2, <2>3, LeftKept
<1>3. ASSUME NEW t \in Thread, NEW i \in DOMAIN queue[t], NEW f \in Frame,
          Dispatching(t, i, f)
      PROVE  LeftIsCounted'
  <2>1. /\ Live(t) /\ LifeStays /\ stack[t] # <<>> /\ Moved(t, f) /\ UNCHANGED queue
        /\ queue[t][i] \notin inService /\ Top(t).ev = None
    BY <1>3 DEF Dispatching, QueuesStay
  <2>2. inService' = inService \cup {queue[t][i]} /\ queue[t][i] \in Queued(t)
    BY <1>3 DEF Dispatching, Queued
  <2>3. eventCount'[t] = 0 /\ \A u \in Thread : u # t => eventCount'[u] = eventCount[u]
    BY <1>3 DEF Dispatching, TypeOK
  <2>4. f.saved = eventCount[t] /\ f.ev # None /\ Top(t).saved = 0 /\ eventCount[t] \in Int
    <3>1. Top(t) \in Frame /\ queue[t][i] \in Event /\ eventCount[t] \in Int
      BY <2>1, TopIsFrame, QueueType
    <3>2. f = WithEvent(Top(t), queue[t][i], eventCount[t])
      BY <1>3 DEF Dispatching
    <3>3. Top(t).saved = 0
      BY <2>1, TopIsFrame DEF FramesNest
    <3> QED
      <4>1. /\ WithEvent(Top(t), queue[t][i], eventCount[t]).saved = eventCount[t]
            /\ WithEvent(Top(t), queue[t][i], eventCount[t]).ev = queue[t][i]
        BY <3>1, WithEventIsFrame
      <4> QED
        BY <3>1, <3>2, <3>3, <4>1, NotifyConstants
  <2>5. Left(t)' = Left(t) - 1 /\ Left(t) \in Nat /\ Left(t) # 0
    <3>1. (Queued(t) \ inService)' = (Queued(t) \ inService) \ {queue[t][i]}
      BY <2>1, <2>2 DEF Queued
    <3> QED
      BY <2>1, <2>2, <3>1, LeftLess, LeftType
  <2>8. PICK v \in [0..Len(stack[t]) -> Nat] :
          /\ LeftOver(t, v) /\ Left(t) = eventCount[t] + v[Len(stack[t])]
          /\ v[Len(stack[t])] = v[Len(stack[t]) - 1] + (Top(t).saved - Busy(Top(t)))
          /\ v[Len(stack[t])] \in Nat /\ v[Len(stack[t]) - 1] \in Nat
    BY <2>1, LeftTop
  <2>7. \A u \in Thread : u # t /\ Live(u) => Queued(u) \ inService' = Queued(u) \ inService
    BY <2>1, <2>2 DEF QueuesApart
  <2>9. LeftCounted(t)'
    <3>1. PICK w \in Nat : w = Left(t) - 1
      BY <2>5
    <3>2. w = v[Len(stack[t]) - 1] + (f.saved - Busy(f)) /\ Left(t)' = eventCount'[t] + w
      BY <2>1, <2>3, <2>4, <2>5, <2>8, <3>1 DEF Busy
    <3> QED
      BY <2>1, <2>8, <3>2, LeftMoved
  <2>10. \A u \in Thread : u # t => UNCHANGED <<queue[u], eventCount[u], stack[u]>>
    BY <2>1, <2>3 DEF Moved
  <2> QED
    BY <2>1, <2>7, <2>9, <2>10, LeftKept
<1>4. ASSUME NEW t \in Thread, NEW i \in DOMAIN queue[t], NEW f \in Frame,
          Handled(t, i, f)
      PROVE  LeftIsCounted'
  <2>1. /\ Live(t) /\ LifeStays /\ stack[t] # <<>> /\ Unlink(t, i)
        /\ Top(t).ev # None
    BY <1>4 DEF Handled
  <2>2. inService' = inService \ {Top(t).ev} /\ Top(t).ev \in Queued(t) /\ queue[t][i] = Top(t).ev
    BY <1>4 DEF Handled, Queued
  <2>3. /\ eventCount'[t] = (eventCount[t] + Top(t).saved) - 1 /\ eventCount[t] \in Int
        /\ Top(t).saved \in Int /\ \A u \in Thread : u # t => UNCHANGED <<queue[u], eventCount[u]>>
    BY <1>4, <2>1, TopMode, UnlinkRemoves DEF Handled, TypeOK
  <2>5. Left(t)' = Left(t) /\ Left(t) \in Nat
    <3>1. Top(t).ev \in inService /\ Queued(t)' = Queued(t) \ {Top(t).ev}
      BY <2>1, <2>2, TopBusy, QueuedUnlinking
    <3>2. (Queued(t) \ inService)' = Queued(t) \ inService
      BY <2>2, <3>1
    <3> QED
      BY <3>2, LeftType DEF Left
  <2>8. PICK v \in [0..Len(stack[t]) -> Nat] :
          /\ LeftOver(t, v) /\ Left(t) = eventCount[t] + v[Len(stack[t])]
          /\ v[Len(stack[t])] = v[Len(stack[t]) - 1] + (Top(t).saved - Busy(Top(t)))
          /\ v[Len(stack[t])] \in Nat /\ v[Len(stack[t]) - 1] \in Nat
    BY <2>1, LeftTop
  <2>7. \A u \in Thread : u # t /\ Live(u) => Queued(u) \ inService' = Queued(u) \ inService
    BY <2>1, <2>2 DEF QueuesApart
  <2>9. LeftCounted(t)' /\ \A u \in Thread : u # t => stack'[u] = stack[u]
    <3>1. Left(t)' = eventCount'[t] + v[Len(stack[t]) - 1]
      <4>1. Busy(Top(t)) = 1
        BY <2>1 DEF Busy
      <4>2. PICK a \in Nat : a = v[Len(stack[t])]
        BY <2>8
      <4>3. PICK b \in Nat : b = v[Len(stack[t]) - 1]
        BY <2>8
      <4>4. a = b + (Top(t).saved - 1) /\ Left(t) = eventCount[t] + a
        BY <2>8, <4>1, <4>2, <4>3
      <4>5. Left(t)' = eventCount'[t] + b
        BY <2>3, <2>5, <4>4
      <4> QED
        BY <4>3, <4>5
    <3>2. CASE Top(t).at = "all"
      <4>1. f.saved = 0 /\ f.ev = None /\ Moved(t, f)
        <5>1. Top(t) \in Frame
          BY <2>1, TopIsFrame
        <5>2. WithEvent(Top(t), None, 0).saved = 0 /\ WithEvent(Top(t), None, 0).ev = None
          BY <5>1, WithEventIsFrame
        <5> QED
          BY <1>4, <3>2, <5>2 DEF Handled
      <4>2. v[Len(stack[t]) - 1] = v[Len(stack[t]) - 1] + (f.saved - Busy(f))
        BY <2>8, <4>1 DEF Busy
      <4> QED
        BY <2>1, <2>8, <3>1, <4>1, <4>2, LeftMoved DEF Moved
    <3>3. CASE Top(t).at # "all"
      BY <1>4, <2>1, <2>8, <3>1, <3>3, LeftExited DEF Handled, Exited
    <3> QED
      BY <3>2, <3>3
  <2> QED
    BY <2>1, <2>3, <2>7, <2>9, LeftKept
<1>5. ASSUME NEW t \in Thread, NEW i \in DOMAIN queue[t], NEW f \in Frame,
          Deferred(t, i, f)
      PROVE  LeftIsCounted'
  <2>1. /\ Live(t) /\ LifeStays /\ stack[t] # <<>> /\ Moved(t, f) /\ UNCHANGED queue
        /\ queue[t][i] \notin inService /\ Top(t).ev # None /\ Top(t).ev \in Queued(t)
    BY <1>5 DEF Deferred, QueuesStay
  <2>2. /\ inService' = (inService \ {Top(t).ev}) \cup {queue[t][i]} /\ queue[t][i] \in Queued(t)
        /\ Top(t).ev \in Queued(t)
    BY <1>5 DEF Deferred, Queued
  <2>3. eventCount'[t] = 0 /\ \A u \in Thread : u # t => eventCount'[u] = eventCount[u]
    BY <1>5 DEF Deferred, TypeOK
  <2>4. /\ f.saved = eventCount[t] + Top(t).saved /\ f.ev # None
        /\ Top(t).saved \in Int /\ eventCount[t] \in Int
    <3>1. /\ Top(t) \in Frame /\ queue[t][i] \in Event /\ eventCount[t] + Top(t).saved \in Int
          /\ Top(t).saved \in Int /\ eventCount[t] \in Int
      BY <2>1, TopIsFrame, TopMode, QueueType
    <3>2. f = WithEvent(Top(t), queue[t][i], eventCount[t] + Top(t).saved)
      BY <1>5 DEF Deferred
    <3> QED
      <4>1. /\ WithEvent(Top(t), queue[t][i], eventCount[t] + Top(t).saved).saved
                  = eventCount[t] + Top(t).saved
            /\ WithEvent(Top(t), queue[t][i], eventCount[t] + Top(t).saved).ev = queue[t][i]
        BY <3>1, WithEventIsFrame
      <4> QED
        BY <3>1, <3>2, <4>1, NotifyConstants
  <2>5. Left(t)' = Left(t) /\ Left(t) \in Nat /\ Left(t) # 0
    <3>1. Top(t).ev \in inService
      BY <2>1, TopBusy
    <3>2. /\ (Queued(t) \ inService)' = ((Queued(t) \ inService) \ {queue[t][i]}) \cup {Top(t).ev}
          /\ Top(t).ev \notin (Queued(t) \ inService) \ {queue[t][i]}
          /\ queue[t][i] \in Queued(t) \ inService
      BY <2>1, <2>2, <3>1 DEF Queued
    <3>3. /\ IsFiniteSet(Queued(t) \ inService) /\ Left(t) \in Nat /\ Left(t) # 0
      BY <3>2, LeftType
    <3>4. /\ IsFiniteSet((Queued(t) \ inService) \ {queue[t][i]})
          /\ Cardinality((Queued(t) \ inService) \ {queue[t][i]}) = Left(t) - 1
      BY <3>2, <3>3, FS_RemoveElement DEF Left
    <3>5. Cardinality(((Queued(t) \ inService) \ {queue[t][i]}) \cup {Top(t).ev}) = (Left(t) - 1) + 1
      BY <3>2, <3>4, FS_AddElement
    <3>6. Left(t)' = (Left(t) - 1) + 1
      BY <3>2, <3>5 DEF Left
    <3> QED
      BY <3>3, <3>6
  <2>8. PICK v \in [0..Len(stack[t]) -> Nat] :
          /\ LeftOver(t, v) /\ Left(t) = eventCount[t] + v[Len(stack[t])]
          /\ v[Len(stack[t])] = v[Len(stack[t]) - 1] + (Top(t).saved - Busy(Top(t)))
          /\ v[Len(stack[t])] \in Nat /\ v[Len(stack[t]) - 1] \in Nat
    BY <2>1, LeftTop
  <2>7. \A u \in Thread : u # t /\ Live(u) => Queued(u) \ inService' = Queued(u) \ inService
    BY <2>1, <2>2 DEF QueuesApart
  <2>9. LeftCounted(t)'
    <3>1. PICK w \in Nat : w = Left(t)
      BY <2>5
    <3>2. w = v[Len(stack[t]) - 1] + (f.saved - Busy(f)) /\ Left(t)' = eventCount'[t] + w
      <4>1. Busy(f) = 1 /\ Busy(Top(t)) = 1
        BY <2>1, <2>4 DEF Busy
      <4> QED
        <5>1. PICK a \in Nat : a = v[Len(stack[t])]
          BY <2>8
        <5>2. PICK b \in Nat : b = v[Len(stack[t]) - 1]
          BY <2>8
        <5>3. a = b + (Top(t).saved - 1) /\ Left(t) = eventCount[t] + a
          BY <2>8, <4>1, <5>1, <5>2
        <5>4. w = b + (f.saved - Busy(f)) /\ Left(t)' = eventCount'[t] + w
          BY <2>3, <2>4, <2>5, <3>1, <4>1, <5>3
        <5> QED
          BY <5>2, <5>4
    <3> QED
      BY <2>1, <2>8, <3>2, LeftMoved
  <2>10. \A u \in Thread : u # t => UNCHANGED <<queue[u], eventCount[u], stack[u]>>
    BY <2>1, <2>3 DEF Moved
  <2> QED
    BY <2>1, <2>7, <2>9, <2>10, LeftKept
<1>6. ASSUME NEW t \in Thread, NEW f \in Frame, DeferredLast(t, f)
      PROVE  LeftIsCounted'
  <2>1. /\ Live(t) /\ LifeStays /\ stack[t] # <<>> /\ Moved(t, f) /\ UNCHANGED queue
        /\ Top(t).ev # None
    BY <1>6 DEF DeferredLast, QueuesStay
  <2>2. inService' = inService \ {Top(t).ev} /\ Top(t).ev \in Queued(t)
    BY <1>6 DEF DeferredLast
  <2>3. /\ eventCount'[t] = eventCount[t] + Top(t).saved
        /\ \A u \in Thread : u # t => eventCount'[u] = eventCount[u]
    BY <1>6 DEF DeferredLast, TypeOK
  <2>4. /\ f.saved = 0 /\ f.ev = None
        /\ Top(t).saved \in Int /\ eventCount[t] \in Int
    <3>1. PICK g \in Frame : g = WithEvent(Top(t), None, 0) /\ g.saved = 0 /\ g.ev = None
      <4>1. Top(t) \in Frame
        BY <2>1, TopIsFrame
      <4>2. /\ WithEvent(Top(t), None, 0) \in Frame /\ WithEvent(Top(t), None, 0).saved = 0
            /\ WithEvent(Top(t), None, 0).ev = None
        BY <4>1, WithEventIsFrame
      <4> QED
        BY <4>2
    <3>2. f.saved = 0 /\ f.ev = None
      BY <1>6, <3>1, AtIsFrame DEF DeferredLast
    <3> QED
      BY <2>1, <3>2, TopMode, QueueType
  <2>5. Left(t)' = Left(t) + 1 /\ Left(t) \in Nat
    <3>1. Top(t).ev \in inService
      BY <2>1, TopBusy
    <3>2. /\ (Queued(t) \ inService)' = (Queued(t) \ inService) \cup {Top(t).ev}
          /\ Top(t).ev \notin Queued(t) \ inService
      BY <2>1, <2>2, <3>1 DEF Queued
    <3> QED
      BY <3>2, LeftMore, LeftType
  <2>8. PICK v \in [0..Len(stack[t]) -> Nat] :
          /\ LeftOver(t, v) /\ Left(t) = eventCount[t] + v[Len(stack[t])]
          /\ v[Len(stack[t])] = v[Len(stack[t]) - 1] + (Top(t).saved - Busy(Top(t)))
          /\ v[Len(stack[t])] \in Nat /\ v[Len(stack[t]) - 1] \in Nat
    BY <2>1, LeftTop
  <2>7. \A u \in Thread : u # t /\ Live(u) => Queued(u) \ inService' = Queued(u) \ inService
    BY <2>1, <2>2 DEF QueuesApart
  <2>9. LeftCounted(t)'
    <3>2. /\ v[Len(stack[t]) - 1] = v[Len(stack[t]) - 1] + (f.saved - Busy(f))
          /\ Left(t)' = eventCount'[t] + v[Len(stack[t]) - 1]
      <4>1. Busy(f) = 0 /\ Busy(Top(t)) = 1
        BY <2>1, <2>4 DEF Busy
      <4> QED
        <5>1. PICK a \in Nat : a = v[Len(stack[t])]
          BY <2>8
        <5>2. PICK b \in Nat : b = v[Len(stack[t]) - 1]
          BY <2>8
        <5>3. a = b + (Top(t).saved - 1) /\ Left(t) = eventCount[t] + a
          BY <2>8, <4>1, <5>1, <5>2
        <5>4. b = b + (f.saved - Busy(f)) /\ Left(t)' = eventCount'[t] + b
          BY <2>3, <2>4, <2>5, <4>1, <5>3
        <5> QED
          BY <5>2, <5>4
    <3> QED
      BY <2>1, <2>8, <3>2, LeftMoved
  <2>10. \A u \in Thread : u # t => UNCHANGED <<queue[u], eventCount[u], stack[u]>>
    BY <2>1, <2>3 DEF Moved
  <2> QED
    BY <2>1, <2>7, <2>9, <2>10, LeftKept
<1>7. ASSUME NEW t \in Thread, NEW f \in Frame, Calling(t, f)
      PROVE  LeftIsCounted'
  <2>1. /\ Live(t) /\ LifeStays /\ UNCHANGED <<queue, eventCount, inService>>
        /\ \A u \in Thread : u # t => stack'[u] = stack[u]
    BY <1>7 DEF Calling, Resting, QueuesStay, Entered, Moved, Exited
  <2>2. Left(t)' = Left(t) /\ eventCount'[t] = eventCount[t] /\ eventCount[t] \in Int /\ Left(t) \in Nat
    BY <2>1, LeftType, QueueType DEF Left, Queued
  <2>3. LeftCounted(t)'
    <3>1. Entered(t, f) /\ f.ev = None /\ f.saved = 0
      BY <1>7 DEF Calling
    <3>2. PICK v \in [0..Len(stack[t]) -> Nat] : LeftOver(t, v)
      BY <2>1 DEF LeftIsCounted
    <3> QED
      BY <2>2, <3>1, <3>2, LeftEntered
  <2> QED
    BY <2>1, <2>3, LeftKept
<1>8. ASSUME NEW t \in Thread, NEW f \in Frame, Moving(t, f)
      PROVE  LeftIsCounted'
  <2>1. /\ Live(t) /\ LifeStays /\ UNCHANGED <<queue, eventCount, inService>>
        /\ \A u \in Thread : u # t => stack'[u] = stack[u]
    BY <1>8 DEF Moving, Resting, QueuesStay, Entered, Moved, Exited
  <2>2. Left(t)' = Left(t) /\ eventCount'[t] = eventCount[t] /\ eventCount[t] \in Int /\ Left(t) \in Nat
    BY <2>1, LeftType, QueueType DEF Left, Queued
  <2>3. LeftCounted(t)'
    <3>1. /\ stack[t] # <<>> /\ Moved(t, f) /\ f = At(Top(t), f.at) /\ f \in Frame
          /\ Top(t).ev = None
      BY <1>8 DEF Moving
    <3>2. f.saved = 0 /\ f.ev = None /\ Top(t).saved = 0
      <4>1. Top(t).saved = 0
        BY <3>1, TopIsFrame DEF FramesNest
      <4> QED
        BY <1>8, <4>1, MovingFrame
    <3>8. PICK v \in [0..Len(stack[t]) -> Nat] :
            /\ LeftOver(t, v) /\ Left(t) = eventCount[t] + v[Len(stack[t])]
            /\ v[Len(stack[t])] = v[Len(stack[t]) - 1] + (Top(t).saved - Busy(Top(t)))
            /\ v[Len(stack[t])] \in Nat /\ v[Len(stack[t]) - 1] \in Nat
      BY <2>1, <3>1, LeftTop
    <3>9. /\ Left(t)' = eventCount'[t] + v[Len(stack[t])]
          /\ v[Len(stack[t])] = v[Len(stack[t]) - 1] + (f.saved - Busy(f))
      BY <2>2, <3>1, <3>2, <3>8 DEF Busy
    <3> QED
      BY <3>1, <3>8, <3>9, LeftMoved
  <2> QED
    BY <2>1, <2>3, LeftKept
<1>9. ASSUME NEW t \in Thread, Returning(t)
      PROVE  LeftIsCounted'
  <2>1. /\ Live(t) /\ LifeStays /\ UNCHANGED <<queue, eventCount, inService>>
        /\ \A u \in Thread : u # t => stack'[u] = stack[u]
    BY <1>9 DEF Returning, Resting, QueuesStay, Entered, Moved, Exited
  <2>2. Left(t)' = Left(t) /\ eventCount'[t] = eventCount[t] /\ eventCount[t] \in Int /\ Left(t) \in Nat
    BY <2>1, LeftType, QueueType DEF Left, Queued
  <2>3. LeftCounted(t)'
    <3>1. stack[t] # <<>> /\ Exited(t) /\ Top(t).ev = None
      BY <1>9 DEF Returning
    <3>2. Top(t).saved = 0
      BY <3>1, TopIsFrame DEF FramesNest
    <3>8. PICK v \in [0..Len(stack[t]) -> Nat] :
            /\ LeftOver(t, v) /\ Left(t) = eventCount[t] + v[Len(stack[t])]
            /\ v[Len(stack[t])] = v[Len(stack[t]) - 1] + (Top(t).saved - Busy(Top(t)))
            /\ v[Len(stack[t])] \in Nat /\ v[Len(stack[t]) - 1] \in Nat
      BY <2>1, <3>1, LeftTop
    <3>9. Left(t)' = eventCount'[t] + v[Len(stack[t]) - 1]
      BY <2>2, <3>1, <3>2, <3>8 DEF Busy
    <3> QED
      BY <3>1, <3>8, <3>9, LeftExited
  <2> QED
    BY <2>1, <2>3, LeftKept
<1>10. ASSUME NEW t \in Thread, FinalizeQueue(t)
      PROVE  LeftIsCounted'
  <2>1. /\ inService' = inService \ Queued(t) /\ Live(t) /\ ~Live(t)' /\ Fading
        /\ \A u \in Thread : u # t => UNCHANGED <<stack[u], queue[u], eventCount[u]>>
    BY <1>10 DEF FinalizeQueue, TypeOK, AtCode, Live, Fading, Queued, ToSet
  <2>2. \A u \in Thread : u # t /\ Live(u) => Queued(u) \ inService' = Queued(u) \ inService
    BY <2>1 DEF QueuesApart
  <2> QED
    BY <2>1, <2>2, LeftKept
<1>11. CASE Standing
  <2>1. UNCHANGED <<queue, eventCount, stack, inService>> /\ LifeStays
    BY <1>11 DEF Standing, Resting, QueuesStay
  <2> QED
    <3> SUFFICES ASSUME NEW t \in Thread, Live(t)'
                 PROVE  LeftCounted(t)'
      BY DEF LeftIsCounted, LeftCounted
    <3>1. PICK v \in [0..Len(stack[t]) -> Nat] : LeftOver(t, v)
      BY <2>1 DEF LeftIsCounted, LifeStays
    <3>2. Left(t)' = Left(t)
      BY <2>1 DEF Left, Queued
    <3>3. LeftOver(t, v)'
      BY <2>1, <3>1, <3>2 DEF LeftOver
    <3> QED
      BY <2>1, <3>1, <3>3 DEF LeftCounted
<1> QED
  BY <1>1, <1>2, <1>3, <1>4, <1>5, <1>6, <1>7, <1>8, <1>9, <1>10, <1>11
     DEF StepKinds


(* LoopsTakeAll, for one frame.                                            *)
TakesAll(f) == f.at # "idle" \/ f.ev # None \/ ~f.dontWait => f.flags = Type

(* The loops of the other threads take what they took.                     *)
LEMMA TakesKept ==
  ASSUME LoopsTakeAll, NEW t \in Thread,
         \A u \in Thread : u # t => stack'[u] = stack[u],
         \A d \in DOMAIN stack'[t] : TakesAll(stack'[t][d])
  PROVE  LoopsTakeAll'
<1>1. ASSUME NEW u \in Thread, NEW d \in DOMAIN stack'[u] PROVE TakesAll(stack'[u][d])
  <2>1. CASE u = t
    BY <2>1
  <2>2. CASE u # t
    <3>1. d \in DOMAIN stack[u] /\ stack'[u][d] = stack[u][d]
      BY <2>2
    <3> QED
      BY <3>1 DEF LoopsTakeAll, TakesAll
  <2> QED
    BY <2>1, <2>2
<1> QED
  BY <1>1 DEF LoopsTakeAll, TakesAll

(* A loop that services events or may wait accepts every type.             *)
LEMMA TopTakesAll ==
  ASSUME TypeOK, LoopsTakeAll, NEW t \in Thread, stack[t] # <<>>,
         Top(t).at # "idle" \/ Top(t).ev # None \/ ~Top(t).dontWait
  PROVE  Top(t).flags = Type
<1>1. Len(stack[t]) \in DOMAIN stack[t] /\ Top(t) = stack[t][Len(stack[t])]
  BY TopIsFrame
<1> QED
  BY <1>1 DEF LoopsTakeAll

(* So it is when the innermost call goes on ...                            *)
LEMMA TakesMoved ==
  ASSUME TypeOK, LoopsTakeAll, NEW t \in Thread, stack[t] # <<>>,
         NEW f, Moved(t, f), TakesAll(f)
  PROVE  LoopsTakeAll'
<1>1. DOMAIN stack[t] = 1..Len(stack[t]) /\ DOMAIN stack'[t] = 1..Len(stack[t])
  BY TopIsFrame DEF Moved
<1>2. ASSUME NEW d \in DOMAIN stack'[t] PROVE TakesAll(stack'[t][d])
  <2>1. d \in DOMAIN stack[t] /\ stack'[t][d] = IF d = Len(stack[t]) THEN f ELSE stack[t][d]
    BY <1>1, <1>2 DEF Moved
  <2>2. TakesAll(stack[t][d])
    BY <2>1 DEF LoopsTakeAll, TakesAll
  <2> QED
    BY <2>1, <2>2
<1> QED
  BY <1>2, TakesKept DEF Moved

(* ... and when it returns.                                                *)
LEMMA TakesExited ==
  ASSUME TypeOK, LoopsTakeAll, NEW t \in Thread, stack[t] # <<>>, Exited(t)
  PROVE  LoopsTakeAll'
<1>1. /\ DOMAIN stack[t] = 1..Len(stack[t]) /\ Len(stack[t]) \in Nat \ {0}
      /\ DOMAIN stack'[t] = 1..(Len(stack[t]) - 1)
  BY TopIsFrame DEF Exited
<1>2. ASSUME NEW d \in DOMAIN stack'[t] PROVE TakesAll(stack'[t][d])
  <2>1. d \in DOMAIN stack[t] /\ stack'[t][d] = stack[t][d]
    BY <1>1, <1>2 DEF Exited
  <2> QED
    BY <2>1 DEF LoopsTakeAll, TakesAll
<1> QED
  BY <1>2, TakesKept DEF Exited

(* Every step keeps the loops accepting every type, if Tcl_DoOneEvent is   *)
(* called so.                                                              *)
LEMMA TakesStep ==
  ASSUME TypeOK, QueueShape, LoopsTakeAll,
         \A flags \in Flags : flags = {} \/ flags = Type, StepKinds
  PROVE  LoopsTakeAll'
<1>1. ASSUME NEW t \in Thread, NEW e \in Event,
          NEW pos \in {"tail", "head", "mark"}, Queueing(t, e, pos)
      PROVE  LoopsTakeAll'
  <2>1. UNCHANGED stack
    BY <1>1 DEF Queueing
  <2> QED
    BY <2>1 DEF LoopsTakeAll
<1>2. ASSUME NEW t \in Thread, NEW i \in DOMAIN queue[t], Deleting(t, i)
      PROVE  LoopsTakeAll'
  <2>1. UNCHANGED stack
    BY <1>2 DEF Deleting
  <2> QED
    BY <2>1 DEF LoopsTakeAll
<1>3. ASSUME NEW t \in Thread, NEW i \in DOMAIN queue[t], NEW f \in Frame,
          Dispatching(t, i, f)
      PROVE  LoopsTakeAll'
  <2>1. stack[t] # <<>> /\ Moved(t, f)
    BY <1>3 DEF Dispatching
  <2>2. TakesAll(f)
    <3>1. Top(t) \in Frame /\ queue[t][i] \in Event \cup {None} /\ eventCount[t] \in Int
      BY <2>1, TopIsFrame, QueueType
    <3>2. f = WithEvent(Top(t), queue[t][i], eventCount[t])
      BY <1>3 DEF Dispatching
    <3>3. Top(t).flags = Type
      BY <1>3, <2>1, TopTakesAll DEF Dispatching
    <3>4. f.flags = Top(t).flags
      BY <3>1, <3>2, WithEventIsFrame
    <3> QED
      BY <3>3, <3>4 DEF TakesAll
  <2> QED
    BY <2>1, <2>2, TakesMoved
<1>4. ASSUME NEW t \in Thread, NEW i \in DOMAIN queue[t], NEW f \in Frame,
          Handled(t, i, f)
      PROVE  LoopsTakeAll'
  <2>1. stack[t] # <<>> /\ Top(t).ev # None
    BY <1>4 DEF Handled
  <2>2. CASE Top(t).at = "all"
    <3>1. Moved(t, f) /\ f = WithEvent(Top(t), None, 0)
      BY <1>4, <2>2 DEF Handled
    <3>2. Top(t) \in Frame /\ Top(t).flags = Type
      BY <2>1, TopTakesAll, TopIsFrame
    <3>3. f.flags = Top(t).flags
      BY <3>1, <3>2, WithEventIsFrame
    <3> QED
      BY <2>1, <3>1, <3>2, <3>3, TakesMoved DEF TakesAll
  <2>3. CASE Top(t).at # "all"
    BY <1>4, <2>1, <2>3, TakesExited DEF Handled
  <2> QED
    BY <2>2, <2>3
<1>5. ASSUME NEW t \in Thread, NEW i \in DOMAIN queue[t], NEW f \in Frame,
          Deferred(t, i, f)
      PROVE  LoopsTakeAll'
  <2>1. stack[t] # <<>> /\ Moved(t, f)
    BY <1>5 DEF Deferred
  <2>2. TakesAll(f)
    <3>1. Top(t) \in Frame /\ queue[t][i] \in Event \cup {None} /\ eventCount[t] + Top(t).saved \in Int
      BY <2>1, TopIsFrame, QueueType, TopMode
    <3>2. f = WithEvent(Top(t), queue[t][i], eventCount[t] + Top(t).saved)
      BY <1>5 DEF Deferred
    <3>3. Top(t).flags = Type
      BY <1>5, <2>1, TopTakesAll DEF Deferred
    <3>4. f.flags = Top(t).flags
      BY <3>1, <3>2, WithEventIsFrame
    <3> QED
      BY <3>3, <3>4 DEF TakesAll
  <2> QED
    BY <2>1, <2>2, TakesMoved
<1>6. ASSUME NEW t \in Thread, NEW f \in Frame, DeferredLast(t, f)
      PROVE  LoopsTakeAll'
  <2>1. stack[t] # <<>> /\ Moved(t, f)
    BY <1>6 DEF DeferredLast
  <2>2. TakesAll(f)
    <3>1. PICK g \in Frame : g = WithEvent(Top(t), None, 0) /\ g.flags = Top(t).flags
      <4>1. Top(t) \in Frame
        BY <2>1, TopIsFrame
      <4>2. /\ WithEvent(Top(t), None, 0) \in Frame
            /\ WithEvent(Top(t), None, 0).flags = Top(t).flags
        BY <4>1, WithEventIsFrame
      <4> QED
        BY <4>2
    <3>2. f.flags = g.flags
      BY <1>6, <3>1, AtIsFrame DEF DeferredLast
    <3>3. Top(t).flags = Type
      BY <1>6, <2>1, TopTakesAll DEF DeferredLast
    <3> QED
      BY <3>1, <3>2, <3>3 DEF TakesAll
  <2> QED
    BY <2>1, <2>2, TakesMoved
<1>7. ASSUME NEW t \in Thread, NEW f \in Frame, Calling(t, f)
      PROVE  LoopsTakeAll'
  <2>1. Entered(t, f) /\ DOMAIN stack[t] = 1..Len(stack[t]) /\ Len(stack[t]) \in Nat
    BY <1>7, StackType DEF Calling
  <2>2. TakesAll(f)
    <3>1. f.at \in {"svc1", "idle", "allcheck"} /\ f.ev = None
      BY <1>7 DEF Calling
    <3>2. f.at = "allcheck" => f.flags = Type
      BY <1>7 DEF Calling
    <3>3. f.at = "idle" => f.dontWait
      BY <1>7 DEF Calling
    <3>4. f.at = "svc1" => f.flags = Type
      BY <1>7 DEF Calling
    <3> QED
      BY <3>1, <3>2, <3>3, <3>4 DEF TakesAll
  <2>3. ASSUME NEW d \in DOMAIN stack'[t] PROVE TakesAll(stack'[t][d])
    <3>1. CASE d = Len(stack[t]) + 1
      BY <2>1, <2>2, <3>1 DEF Entered
    <3>2. CASE d # Len(stack[t]) + 1
      <4>1. d \in DOMAIN stack[t] /\ stack'[t][d] = stack[t][d]
        BY <2>1, <2>3, <3>2 DEF Entered
      <4> QED
        BY <4>1 DEF LoopsTakeAll, TakesAll
    <3> QED
      BY <3>1, <3>2
  <2> QED
    BY <2>1, <2>3, TakesKept DEF Entered
<1>8. ASSUME NEW t \in Thread, NEW f \in Frame, Moving(t, f)
      PROVE  LoopsTakeAll'
  <2>1. stack[t] # <<>> /\ Moved(t, f)
    BY <1>8 DEF Moving
  <2>2. TakesAll(f)
    <3>1. f = At(Top(t), f.at) /\ f.ev = Top(t).ev /\ f.flags = Top(t).flags
          /\ f.dontWait = Top(t).dontWait /\ (Top(t).at = "idle" => ~Top(t).dontWait)
      BY <1>8, MovingFrame DEF Moving
    <3>2. Top(t).flags = Type
      BY <1>8, <2>1, <3>1, TopTakesAll DEF Moving
    <3> QED
      BY <3>1, <3>2 DEF TakesAll
  <2> QED
    BY <2>1, <2>2, TakesMoved
<1>9. ASSUME NEW t \in Thread, Returning(t)
      PROVE  LoopsTakeAll'
  BY <1>9, TakesExited DEF Returning
<1>10. ASSUME NEW t \in Thread, FinalizeQueue(t)
      PROVE  LoopsTakeAll'
  <2>1. stack'[t] = <<>> /\ \A u \in Thread : u # t => stack'[u] = stack[u]
    BY <1>10 DEF FinalizeQueue, TypeOK
  <2>2. DOMAIN stack'[t] = {}
    BY <2>1
  <2> QED
    BY <2>1, <2>2, TakesKept
<1>11. CASE Standing
  <2>1. UNCHANGED stack
    BY <1>11 DEF Standing
  <2> QED
    BY <2>1 DEF LoopsTakeAll
<1> QED
  BY <1>1, <1>2, <1>3, <1>4, <1>5, <1>6, <1>7, <1>8, <1>9, <1>10, <1>11
     DEF StepKinds


(* WaitsForAlert, for one thread.                                          *)
Alerted(t) ==
    eventReady[t] \/ (\E p \in Poster : owes[p] = t) \/ Queued(t) \subseteq inService

(* The innermost frame after a step.                                       *)
LEMMA TopMoved ==
  ASSUME TypeOK, NEW t \in Thread, stack[t] # <<>>, NEW f, Moved(t, f)
  PROVE  Top(t)' = f
  BY TopIsFrame DEF Moved, Top, Last

(* A call that returns leaves none or one that is suspended, which does    *)
(* not wait.                                                               *)
LEMMA NoWaitExited ==
  ASSUME TypeOK, FramesNest, NEW t \in Thread, stack[t] # <<>>, Exited(t)
  PROVE  ~Waiting(t)'
<1> SUFFICES ASSUME Waiting(t)' PROVE FALSE
  OBVIOUS
<1> DEFINE n == Len(stack[t])
<1>1. DOMAIN stack[t] = 1..n /\ n \in Nat \ {0} /\ stack'[t] \in Seq(Frame)
  BY TopIsFrame DEF Exited
<1>2. /\ Len(stack'[t]) = n - 1 /\ stack'[t] # <<>>
      /\ \A d \in 1..(n - 1) : stack'[t][d] = stack[t][d]
  BY DEF Exited, Waiting
<1>3. n - 1 \in 1..(n - 1)
  <2> HIDE DEF Frame
  <2> QED
    BY <1>1, <1>2
<1>4. Top(t)' = stack[t][n - 1]
  BY <1>2, <1>3 DEF Top, Last
<1>5. Suspended(stack[t][n - 1])
  BY <1>1, <1>3 DEF FramesNest
<1> QED
  BY <1>4, <1>5 DEF Suspended, Waiting

(* The other threads wait as they did.                                     *)
LEMMA WaitsKept ==
  ASSUME WaitsForAlert, Fading \/ LifeStays, NEW t \in Thread, UNCHANGED owes,
         \A u \in Thread : u # t => UNCHANGED <<stack[u], queue[u], eventReady[u]>>,
         inService \subseteq inService'
         \/ \A u \in Thread : u # t /\ Live(u) =>
               (Queued(u) \subseteq inService => Queued(u) \subseteq inService'),
         ~Waiting(t)' \/ ~Live(t)' \/ Alerted(t)'
  PROVE  WaitsForAlert'
<1>1. ASSUME NEW u \in Thread, Live(u)', Waiting(u)' PROVE Alerted(u)'
  <2>1. CASE u = t
    BY <1>1, <2>1
  <2>2. CASE u # t
    <3>1. Live(u) /\ Waiting(u) /\ Queued(u)' = Queued(u)
      BY <1>1, <2>2 DEF LifeStays, Fading, Waiting, Top, Queued
    <3>2. Alerted(u)
      BY <3>1 DEF WaitsForAlert, Alerted
    <3> QED
      BY <2>2, <3>1, <3>2 DEF Alerted
  <2> QED
    BY <2>1, <2>2
<1> QED
  BY <1>1 DEF WaitsForAlert, Alerted

(* Every step keeps a waiting thread without events, or an alert on its    *)
(* way.                                                                    *)
LEMMA WaitsStep ==
  ASSUME TypeOK, LifeCycle, FramesNest, QueueShape, QueuesApart, LeftIsCounted,
         LoopsTakeAll, WaitsForAlert, StepKinds
  PROVE  WaitsForAlert'
<1>1. ASSUME NEW t \in Thread, NEW e \in Event,
          NEW pos \in {"tail", "head", "mark"}, Queueing(t, e, pos)
      PROVE  WaitsForAlert'
  <2>1. /\ QueueEvent(t, e, pos) /\ UNCHANGED <<stack, inService, eventReady>> /\ LifeStays
        /\ \/ ~Waiting(t) /\ UNCHANGED owes
           \/ \E p \in Poster : owes[p] = None /\ owes' = [owes EXCEPT ![p] = t]
           \/ eventCount[t] > 0 /\ UNCHANGED owes
    BY <1>1 DEF Queueing
  <2>2. \A u \in Thread : u # t => queue'[u] = queue[u]
    BY <2>1, QueueEventTypes DEF OthersStay
  <2>3. \A u \in Thread : (\E p \in Poster : owes[p] = u) => \E p \in Poster : owes'[p] = u
    <3>1. owes \in [Poster -> Thread \cup {None}] /\ None \notin Thread
      BY NotifyConstants DEF TypeOK
    <3> QED
      BY <2>1, <3>1
  <2>4. ASSUME Live(t), Waiting(t)
        PROVE  eventReady[t] \/ \E p \in Poster : owes'[p] = t
    <3>1. CASE \E p \in Poster : owes[p] = None /\ owes' = [owes EXCEPT ![p] = t]
      <4>1. owes \in [Poster -> Thread \cup {None}]
        BY DEF TypeOK
      <4> QED
        BY <3>1, <4>1
    <3>2. CASE eventCount[t] > 0
      <4>1. stack[t] # <<>>
        BY <2>4 DEF Waiting
      <4>2. PICK v \in [0..Len(stack[t]) -> Nat] :
              /\ Left(t) = eventCount[t] + v[Len(stack[t])]
              /\ v[Len(stack[t])] \in Nat
        BY <2>4, <4>1, LeftTop
      <4>3. eventCount[t] \in Int
        BY QueueType
      <4>4. Left(t) # 0
        BY <3>2, <4>2, <4>3
      <4>5. ~(Queued(t) \subseteq inService)
        BY <4>4, LeftType
      <4> QED
        BY <2>3, <2>4, <4>5 DEF WaitsForAlert
    <3> QED
      BY <2>1, <2>4, <3>1, <3>2
  <2>5. ASSUME NEW u \in Thread, Live(u)', Waiting(u)'
        PROVE  Alerted(u)'
    <3>1. Live(u) /\ Waiting(u)
      BY <2>1, <2>5 DEF LifeStays, Waiting, Top
    <3>2. CASE u = t
      BY <2>1, <2>4, <3>1, <3>2 DEF Alerted
    <3>3. CASE u # t
      <4>1. Queued(u)' = Queued(u)
        BY <2>2, <3>3 DEF Queued
      <4> QED
        BY <2>1, <2>3, <3>1, <4>1 DEF WaitsForAlert, Alerted
    <3> QED
      BY <3>2, <3>3
  <2> QED
    BY <2>5 DEF WaitsForAlert, Alerted
<1>2. ASSUME NEW t \in Thread, NEW i \in DOMAIN queue[t], Deleting(t, i)
      PROVE  WaitsForAlert'
  <2>1. /\ Live(t) /\ LifeStays /\ Unlink(t, i) /\ UNCHANGED <<stack, inService, eventReady, owes>>
    BY <1>2 DEF Deleting, AlertsStay
  <2>2. \A u \in Thread : u # t => queue'[u] = queue[u]
    BY <2>1, UnlinkRemoves
  <2>3. Queued(t)' \subseteq Queued(t)
    BY <2>1, QueuedUnlinking
  <2>4. Waiting(t)' => Waiting(t)
    BY <2>1 DEF Waiting, Top
  <2>5. Live(t)' /\ Waiting(t)' => Alerted(t)'
    BY <2>1, <2>3, <2>4 DEF WaitsForAlert, Alerted
  <2> QED
    BY <2>1, <2>2, <2>5, WaitsKept
<1>3. ASSUME NEW t \in Thread, NEW i \in DOMAIN queue[t], NEW f \in Frame,
          Dispatching(t, i, f)
      PROVE  WaitsForAlert'
  <2>1. /\ Live(t) /\ LifeStays /\ stack[t] # <<>> /\ Moved(t, f)
        /\ UNCHANGED <<queue, eventReady, owes>>
        /\ inService' = inService \cup {queue[t][i]}
    BY <1>3 DEF Dispatching, QueuesStay, AlertsStay
  <2>2. f.ev # None
    <3>1. Top(t) \in Frame /\ queue[t][i] \in Event /\ eventCount[t] \in Int
      BY <2>1, TopIsFrame, QueueType
    <3>2. f = WithEvent(Top(t), queue[t][i], eventCount[t])
      BY <1>3 DEF Dispatching
    <3> QED
      BY <3>1, <3>2, WithEventIsFrame, NotifyConstants
  <2>3. ~Waiting(t)'
    BY <2>1, <2>2, TopMoved DEF Waiting
  <2>4. \A u \in Thread : u # t => stack'[u] = stack[u]
    BY <2>1 DEF Moved
  <2> QED
    BY <2>1, <2>3, <2>4, WaitsKept
<1>4. ASSUME NEW t \in Thread, NEW i \in DOMAIN queue[t], NEW f \in Frame,
          Handled(t, i, f)
      PROVE  WaitsForAlert'
  <2>1. /\ Live(t) /\ LifeStays /\ stack[t] # <<>> /\ Unlink(t, i)
        /\ UNCHANGED <<eventReady, owes>> /\ inService' = inService \ {Top(t).ev}
    BY <1>4 DEF Handled, AlertsStay
  <2>2. Top(t).ev \in Queued(t)
    BY <1>4 DEF Handled, Queued
  <2>7. \A u \in Thread : u # t /\ Live(u) => (Queued(u) \subseteq inService => Queued(u) \subseteq inService')
    BY <2>1, <2>2 DEF QueuesApart
  <2>3. \A u \in Thread : u # t => queue'[u] = queue[u]
    BY <2>1, UnlinkRemoves
  <2>4. ~Waiting(t)' /\ \A u \in Thread : u # t => stack'[u] = stack[u]
    <3>1. CASE Top(t).at = "all"
      <4>1. f.at = "all" /\ Moved(t, f)
        BY <1>4, <2>1, <3>1, ClearedFrame DEF Handled
      <4> QED
        BY <2>1, <4>1, TopMoved DEF Waiting, Moved
    <3>2. CASE Top(t).at # "all"
      BY <1>4, <2>1, <3>2, NoWaitExited DEF Handled, Exited
    <3> QED
      BY <3>1, <3>2
  <2> QED
    BY <2>1, <2>3, <2>4, <2>7, WaitsKept
<1>5. ASSUME NEW t \in Thread, NEW i \in DOMAIN queue[t], NEW f \in Frame,
          Deferred(t, i, f)
      PROVE  WaitsForAlert'
  <2>1. stack[t] # <<>> /\ Top(t).ev # None /\ ~Handles(t) /\ Live(t)
    BY <1>5 DEF Deferred
  <2>2. Top(t).ev \in Event /\ Top(t).flags = Type
    BY <2>1, TopTakesAll, TopIsFrame DEF Frame
  <2> QED
    BY <2>1, <2>2, NotifyConstants DEF Handles
<1>6. ASSUME NEW t \in Thread, NEW f \in Frame, DeferredLast(t, f)
      PROVE  WaitsForAlert'
  <2>1. stack[t] # <<>> /\ Top(t).ev # None /\ ~Handles(t) /\ Live(t)
    BY <1>6 DEF DeferredLast
  <2>2. Top(t).ev \in Event /\ Top(t).flags = Type
    BY <2>1, TopTakesAll, TopIsFrame DEF Frame
  <2> QED
    BY <2>1, <2>2, NotifyConstants DEF Handles
<1>7. ASSUME NEW t \in Thread, NEW f \in Frame, Calling(t, f)
      PROVE  WaitsForAlert'
  <2>1. /\ Live(t) /\ LifeStays /\ UNCHANGED <<queue, inService, eventReady, owes>>
        /\ \A u \in Thread : u # t => stack'[u] = stack[u]
    BY <1>7 DEF Calling, Resting, QueuesStay, AlertsStay, Entered, Exited
  <2>2. ~Waiting(t)'
    <3>1. Entered(t, f) /\ f.at \in {"svc1", "idle", "allcheck"}
      BY <1>7 DEF Calling
    <3>2. Top(t)' = f
      BY <3>1, StackType DEF Entered, Top, Last
    <3> QED
      BY <3>1, <3>2 DEF Waiting
  <2> QED
    BY <2>1, <2>2, WaitsKept
<1>8. ASSUME NEW t \in Thread, NEW f \in Frame, Moving(t, f)
      PROVE  WaitsForAlert'
  <2>1. /\ Live(t) /\ LifeStays /\ stack[t] # <<>> /\ Moved(t, f)
        /\ UNCHANGED <<queue, inService, owes>>
        /\ \A u \in Thread : u # t => stack'[u] = stack[u] /\ eventReady'[u] = eventReady[u]
    BY <1>8 DEF Moving, Resting, QueuesStay, Moved
  <2>2. Top(t)' = f
    BY <2>1, TopMoved
  <2>3. Live(t)' /\ Waiting(t)' => Alerted(t)'
    <3>1. CASE f.at = "setup" /\ Queued(t) \subseteq inService
      BY <2>1, <3>1 DEF Alerted, Queued
    <3>2. CASE f.at = "blocked" /\ Top(t).at = "setup" /\ UNCHANGED eventReady
      <4>1. Waiting(t)
        BY <1>8, <2>1, <3>2 DEF Waiting, Moving
      <4> QED
        BY <2>1, <3>2, <4>1 DEF WaitsForAlert, Alerted, Queued
    <3>3. CASE f.at \notin {"setup", "blocked"}
      BY <2>2, <3>3 DEF Waiting
    <3> QED
      BY <1>8, <3>1, <3>2, <3>3 DEF Moving
  <2> QED
    BY <2>1, <2>3, WaitsKept
<1>9. ASSUME NEW t \in Thread, Returning(t)
      PROVE  WaitsForAlert'
  <2>1. /\ Live(t) /\ LifeStays /\ UNCHANGED <<queue, inService, eventReady, owes>>
        /\ \A u \in Thread : u # t => stack'[u] = stack[u]
    BY <1>9 DEF Returning, Resting, QueuesStay, AlertsStay, Entered, Exited
  <2>2. ~Waiting(t)'
    BY <1>9, NoWaitExited DEF Returning
  <2> QED
    BY <2>1, <2>2, WaitsKept
<1>10. ASSUME NEW t \in Thread, FinalizeQueue(t)
      PROVE  WaitsForAlert'
  <2>1. /\ inService' = inService \ Queued(t) /\ Live(t) /\ ~Live(t)' /\ Fading
        /\ UNCHANGED <<eventReady, owes>>
        /\ \A u \in Thread : u # t => UNCHANGED <<stack[u], queue[u]>>
    BY <1>10 DEF FinalizeQueue, TypeOK, AtCode, Live, Fading, Queued, ToSet
  <2>2. \A u \in Thread : u # t /\ Live(u) => (Queued(u) \subseteq inService => Queued(u) \subseteq inService')
    BY <2>1 DEF QueuesApart
  <2> QED
    BY <2>1, <2>2, WaitsKept
<1>11. CASE Standing
  <2>1. UNCHANGED <<queue, stack, inService>> /\ LifeStays
    BY <1>11 DEF Standing, Resting, QueuesStay
  <2>2. ASSUME NEW u \in Thread, Live(u)', Waiting(u)'
        PROVE  Alerted(u)'
    <3>1. Live(u) /\ Alerted(u) /\ Queued(u)' = Queued(u)
      BY <2>1, <2>2 DEF LifeStays, Waiting, Top, WaitsForAlert, Alerted, Queued
    <3>2. CASE AlertsStay
      BY <2>1, <3>1, <3>2 DEF AlertsStay, Alerted
    <3>3. CASE ~AlertsStay
      <4>1. PICK p \in Poster :
              /\ owes[p] # None /\ owes' = [owes EXCEPT ![p] = None]
              /\ eventReady' = IF owes[p] \in registered
                               THEN [eventReady EXCEPT ![owes[p]] = TRUE]
                               ELSE eventReady
        BY <1>11, <3>3 DEF Standing
      <4>2. /\ owes \in [Poster -> Thread \cup {None}]
            /\ eventReady \in [Thread -> BOOLEAN] /\ owes[p] \in Thread
        BY <4>1 DEF TypeOK
      <4>3. u \in registered
        BY <3>1 DEF LifeCycle, Live
      <4>4. CASE owes[p] = u
        <5>1. eventReady'[u] = TRUE
          BY <4>1, <4>2, <4>3, <4>4
        <5> QED
          BY <5>1 DEF Alerted
      <4>5. CASE owes[p] # u
        <5>1. eventReady[u] => eventReady'[u]
          BY <4>1, <4>2
        <5>2. \A s \in Poster : owes[s] = u => owes'[s] = u
          BY <4>1, <4>2, <4>5
        <5> QED
          BY <2>1, <3>1, <5>1, <5>2 DEF Alerted
      <4> QED
        BY <4>4, <4>5
    <3> QED
      BY <3>2, <3>3
  <2> QED
    BY <2>2 DEF WaitsForAlert, Alerted
<1> QED
  BY <1>1, <1>2, <1>3, <1>4, <1>5, <1>6, <1>7, <1>8, <1>9, <1>10, <1>11
     DEF StepKinds


(* The counts, the loops and the alerts before anything happened.          *)
LEMMA WakeInit ==
  ASSUME Init
  PROVE  LeftIsCounted /\ LoopsTakeAll /\ WaitsForAlert
<1>1. DOMAIN <<>> = {} /\ Len(<<>>) = 0
  OBVIOUS
<1>2. \A t \in Thread : /\ queue[t] = <<>> /\ stack[t] = <<>> /\ eventCount[t] = 0
                        /\ DOMAIN stack[t] = {} /\ Queued(t) = {} /\ Len(stack[t]) = 0
  BY <1>1 DEF Init, Queued
<1>3. ASSUME NEW t \in Thread PROVE LeftCounted(t)
  <2>1. Left(t) = 0
    <3>1. Queued(t) \ inService = {}
      BY <1>2
    <3> QED
      BY <3>1, FS_EmptySet DEF Left
  <2> DEFINE v == [d \in 0..0 |-> 0]
  <2>2. v \in [0..0 -> Nat] /\ v[0] = 0
    OBVIOUS
  <2>3. LeftOver(t, v)
    BY <1>2, <2>1, <2>2 DEF LeftOver
  <2> HIDE DEF v
  <2> QED
    BY <1>2, <2>2, <2>3 DEF LeftCounted
<1> QED
  BY <1>2, <1>3 DEF LeftIsCounted, LeftCounted, LoopsTakeAll, WaitsForAlert, Waiting

(* What a thread has left to service is what was counted since the         *)
(* innermost handler was entered and what outer loops left behind.         *)
THEOREM EventsLeftAreCounted == Spec => []LeftIsCounted
<1>1. Init => LeftIsCounted
  BY WakeInit
<1>2. QueueInv /\ HandlersOwnEvents /\ LeftIsCounted /\ [Next]_vars => LeftIsCounted'
  BY QueueStep, LeftStep DEF QueueInv
<1> QED
  BY <1>1, <1>2, QueueInvariant, HandlersNest, PTL DEF Spec

(* No wake-up is lost when the loops accept every type: a thread that      *)
(* waits, with no alert raised or owed by a poster, has no event left to   *)
(* service.  A poster that finds the queue not empty may leave out the     *)
(* alert because what is counted is what the waiting loop has not seen.    *)
THEOREM NoLostWakeUp ==
  ASSUME \A flags \in Flags : flags = {} \/ flags = Type
  PROVE  Spec => []PostedEventWakes
<1>1. Init => LoopsTakeAll /\ WaitsForAlert
  BY WakeInit
<1>2. QueueInv /\ LoopsTakeAll /\ [Next]_vars => LoopsTakeAll'
  BY QueueStep, TakesStep DEF QueueInv
<1>3. QueueInv /\ LeftIsCounted /\ LoopsTakeAll /\ WaitsForAlert /\ [Next]_vars => WaitsForAlert'
  BY QueueStep, WaitsStep DEF QueueInv
<1>4. QueueInv /\ WaitsForAlert => PostedEventWakes
  <2> SUFFICES ASSUME QueueInv, WaitsForAlert, NEW t \in Thread,
                      stack[t] # <<>>, Top(t).at = "blocked", ~eventReady[t],
                      \A p \in Poster : owes[p] # t, NEW i \in DOMAIN queue[t], Serviceable(t, i)
               PROVE  FALSE
    BY DEF PostedEventWakes
  <2>1. TypeOK /\ FramesNest
    BY DEF QueueInv
  <2>2. Live(t) /\ Top(t).ev = None
    <3>1. Len(stack[t]) \in DOMAIN stack[t] /\ Top(t) = stack[t][Len(stack[t])]
      BY <2>1, TopIsFrame
    <3> QED
      BY <2>1, <3>1 DEF FramesNest
  <2>3. Queued(t) \subseteq inService
    BY <2>2 DEF WaitsForAlert, Waiting
  <2> QED
    BY <2>3 DEF Serviceable, Queued
<1> QED
  BY <1>1, <1>2, <1>3, <1>4, QueueInvariant, EventsLeftAreCounted, PTL DEF Spec
==============================================================================
