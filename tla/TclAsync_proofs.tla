--------------------------- MODULE TclAsync_proofs ---------------------------
(***************************************************************************)
(* Proofs about TclAsync, for every set of threads and handlers.           *)
(***************************************************************************)
EXTENDS TclAsync, TLAPS

(* Unlinking the i-th element of a list leaves the others, in their order: *)
(* what Tcl_AsyncDelete does to the handler list.                          *)
LEMMA RemoveAtElements ==
    ASSUME NEW S, NEW s \in Seq(S), NEW i \in DOMAIN s
    PROVE  /\ RemoveAt(s, i) \in Seq(S)
           /\ DOMAIN RemoveAt(s, i) = 1..(Len(s) - 1)
           /\ \A j \in 1..(Len(s) - 1) :
                 RemoveAt(s, i)[j] = IF j < i THEN s[j] ELSE s[j + 1]
<1> DEFINE a == SubSeq(s, 1, i - 1)
           b == SubSeq(s, i + 1, Len(s))
<1>1. i \in 1..Len(s) /\ Len(s) \in Nat
  OBVIOUS
<1>2. /\ a \in Seq(S) /\ Len(a) = i - 1
      /\ \A j \in 1..(i - 1) : a[j] = s[j]
  BY <1>1
<1>3. /\ b \in Seq(S) /\ Len(b) = Len(s) - i
      /\ \A j \in 1..(Len(s) - i) : b[j] = s[i + j]
  BY <1>1
<1>4. RemoveAt(s, i) = a \o b
  BY DEF RemoveAt
<1> HIDE DEF a, b
<1>5. /\ a \o b \in Seq(S) /\ Len(a \o b) = Len(s) - 1
  BY <1>1, <1>2, <1>3
<1>6. \A j \in 1..(Len(s) - 1) :
         (a \o b)[j] = IF j < i THEN s[j] ELSE s[j + 1]
  <2> TAKE j \in 1..(Len(s) - 1)
  <2>1. CASE j < i
    BY <1>1, <1>2, <1>3, <2>1
  <2>2. CASE j >= i
    <3>1. (a \o b)[j] = b[j - (i - 1)]
      BY <1>1, <1>2, <1>3, <2>2
    <3>2. b[j - (i - 1)] = s[i + (j - (i - 1))]
      BY <1>1, <1>3, <2>2
    <3> QED BY <3>1, <3>2, <2>2, <1>1
  <2>3. j < i \/ j >= i
    BY <1>1
  <2> QED BY <2>1, <2>2, <2>3
<1> QED BY <1>1, <1>4, <1>5, <1>6

(* The members of a list after one is unlinked.                            *)
LEMMA RemoveAtMembers ==
    ASSUME NEW S, NEW s \in Seq(S), NEW i \in DOMAIN s,
           NEW r, r = RemoveAt(s, i)
    PROVE  /\ r \in Seq(S)
           /\ \A j \in DOMAIN r : \E k \in DOMAIN s : k # i /\ r[j] = s[k]
           /\ \A k \in DOMAIN s : k # i => \E j \in DOMAIN r : r[j] = s[k]
<1>1. /\ r \in Seq(S) /\ DOMAIN r = 1..(Len(s) - 1)
      /\ \A j \in 1..(Len(s) - 1) : r[j] = IF j < i THEN s[j] ELSE s[j + 1]
  BY RemoveAtElements
<1>2. i \in 1..Len(s) /\ DOMAIN s = 1..Len(s) /\ Len(s) \in Nat
  OBVIOUS
<1>3. \A j \in DOMAIN r : \E k \in DOMAIN s : k # i /\ r[j] = s[k]
  <2> TAKE j \in DOMAIN r
  <2>1. CASE j < i
    BY <1>1, <1>2, <2>1
  <2>2. CASE ~(j < i)
    <3>1. j + 1 \in DOMAIN s /\ j + 1 # i /\ r[j] = s[j + 1]
      BY <1>1, <1>2, <2>2
    <3> QED BY <3>1
  <2> QED BY <2>1, <2>2
<1>4. \A k \in DOMAIN s : k # i => \E j \in DOMAIN r : r[j] = s[k]
  <2> SUFFICES ASSUME NEW k \in DOMAIN s, k # i
               PROVE  \E j \in DOMAIN r : r[j] = s[k]
    OBVIOUS
  <2>1. CASE k < i
    BY <1>1, <1>2, <2>1
  <2>2. CASE ~(k < i)
    <3>1. k - 1 \in DOMAIN r /\ r[k - 1] = s[k]
      BY <1>1, <1>2, <2>2
    <3> QED BY <3>1
  <2> QED BY <2>1, <2>2
<1> QED BY <1>1, <1>3, <1>4

(* A list without duplicates stays so when one element is unlinked.        *)
LEMMA RemoveAtInjective ==
    ASSUME NEW S, NEW s \in Seq(S), NEW i \in DOMAIN s, IsInjective(s)
    PROVE  IsInjective(RemoveAt(s, i))
<1> DEFINE r == RemoveAt(s, i)
           up(n) == IF n < i THEN n ELSE n + 1
<1>1. /\ DOMAIN r = 1..(Len(s) - 1)
      /\ \A j \in 1..(Len(s) - 1) : r[j] = IF j < i THEN s[j] ELSE s[j + 1]
  BY RemoveAtElements
<1>2. i \in 1..Len(s) /\ DOMAIN s = 1..Len(s) /\ Len(s) \in Nat
  OBVIOUS
<1> HIDE DEF r
<1>3. \A n \in DOMAIN r : up(n) \in DOMAIN s /\ r[n] = s[up(n)]
  BY <1>1, <1>2
<1>4. ASSUME NEW j \in DOMAIN r, NEW k \in DOMAIN r, r[j] = r[k]
      PROVE  j = k
  <2>1. up(j) = up(k)
    BY <1>3, <1>4 DEF IsInjective
  <2> QED BY <2>1, <1>1, <1>2
<1>5. IsInjective(r)
  BY <1>4 DEF IsInjective
<1> QED BY <1>5 DEF r

(* A handler on the list has an owner.                                     *)
Owned == \A i \in DOMAIN handlers : origin[handlers[i]] \in Thread

(* Who holds asyncMutex, and that an alert in progress belongs to it.      *)
Locks ==
    /\ \A t \in Thread : pc[t] = "alert" => asyncMutex = t /\ alertee \in Thread
    /\ npc \in {"scan", "alert"} => asyncMutex = Notifier
    /\ npc = "alert" => alertee \in Thread
    /\ alertee # None => npc = "alert" \/ \E t \in Thread : pc[t] = "alert"

(* NoNestedInvoke, with the fact that makes it inductive: asyncActive is   *)
(* set exactly while the proc of a handler is on the stack.                *)
Active ==
    \A t \in Thread :
       /\ asyncActive[t] = (running[t] # None)
       /\ asyncActive[t] => ~asyncReady[t]
       /\ pc[t] = "proc" => running[t] # None

(* NoLostWakeup, extended to the thread that is about to wait.             *)
Wakeup ==
    \A t \in Thread : pc[t] \in {"towait", "blocked"} =>
       /\ t \in registered
       /\ asyncReady[t] => eventReady[t] \/ alertee = t

(* A pass of the notifier thread starts at the head of the list, and a     *)
(* handler that it is past is marked again only with asyncPending set, for *)
(* the next pass.                                                          *)
Passed ==
    /\ npc \notin {"scan", "alert"} => token = 1
    /\ npc \in {"scan", "alert"} =>
          \A i \in DOMAIN handlers :
             i < token /\ handlers[i] \in accepted /\ ready[handlers[i]] = -1 =>
                \/ asyncReady[origin[handlers[i]]]
                \/ asyncActive[origin[handlers[i]]]
                \/ asyncPending

Core == TypeOK /\ Owned /\ ListedOwnersAlive /\ Locks /\ NoLostMark /\ Active /\ Wakeup

(* The inductive invariant.                                                *)
IInv == Core /\ Passed

THEOREM InitIInv == Init => IInv
<1> SUFFICES ASSUME Init PROVE IInv
  OBVIOUS
<1> USE AsyncConstants DEF Init
<1>1. HandlerTypes
  BY DEF HandlerTypes, IsInjective
<1>2. ThreadTypes /\ NotifierTypes
  <2>1. token \in Nat \ {0}
    OBVIOUS
  <2> QED BY <2>1 DEF ThreadTypes, NotifierTypes, Actor
<1>3. Owned /\ NoLostMark /\ ListedOwnersAlive
  BY DEF Owned, NoLostMark, ListedOwnersAlive
<1>4. Locks
  BY DEF Locks
<1>5. Active /\ Wakeup
  BY DEF Active, Wakeup
<1>6. Passed
  BY DEF Passed
<1> QED BY <1>1, <1>2, <1>3, <1>4, <1>5, <1>6 DEF IInv, Core, TypeOK

(* What a pass of Tcl_AsyncInvoke does to the running thread's state: it   *)
(* either starts a handler or ends the invocation.                         *)
LEMMA InvokePassThread ==
    ASSUME Core, NEW t \in Thread, InvokePass(t)
    PROVE  /\ running' \in [Thread -> Handler \cup {None}]
           /\ asyncActive' \in [Thread -> BOOLEAN]
           /\ pc' \in [Thread -> {"run", "alert", "proc", "towait", "blocked",
                                  "join", "finasync", "exited"}]
           /\ asyncActive'[t] = (running'[t] # None)
           /\ pc'[t] = "proc" => running'[t] # None
           /\ \A u \in Thread \ {t} : /\ running'[u] = running[u]
                                      /\ asyncActive'[u] = asyncActive[u]
                                      /\ pc'[u] = pc[u]
<1> USE AsyncConstants DEF Core, TypeOK, HandlerTypes, ThreadTypes
<1> DEFINE Effect ==
              /\ running' \in [Thread -> Handler \cup {None}]
              /\ asyncActive' \in [Thread -> BOOLEAN]
              /\ pc' \in [Thread -> {"run", "alert", "proc", "towait", "blocked",
                                     "join", "finasync", "exited"}]
              /\ asyncActive'[t] = (running'[t] # None)
              /\ pc'[t] = "proc" => running'[t] # None
              /\ \A u \in Thread \ {t} : /\ running'[u] = running[u]
                                         /\ asyncActive'[u] = asyncActive[u]
                                         /\ pc'[u] = pc[u]
<1>1. ASSUME NEW i \in DOMAIN handlers,
             running' = [running EXCEPT ![t] = handlers[i]],
             asyncActive' = [asyncActive EXCEPT ![t] = TRUE],
             pc' = [pc EXCEPT ![t] = "proc"]
      PROVE  Effect
  <2>1. handlers[i] \in Handler /\ handlers[i] # None
    OBVIOUS
  <2> QED BY <1>1, <2>1
<1>2. ASSUME running' = [running EXCEPT ![t] = None],
             asyncActive' = [asyncActive EXCEPT ![t] = FALSE],
             pc' = [pc EXCEPT ![t] = "run"]
      PROVE  Effect
  BY <1>2
<1> HIDE DEF Effect
<1>3. Effect
  BY <1>1, <1>2 DEF InvokePass
<1> QED BY <1>3 DEF Effect

(* Every step keeps the parts of the invariant that speak of the code's    *)
(* structures.                                                             *)
LEMMA NextCore ==
    ASSUME IInv, [Next]_vars PROVE Core'
<1> USE AsyncConstants DEF IInv, Core, TypeOK
<1>1. ASSUME NEW t \in Thread, NEW h \in Handler, Tcl_AsyncCreate(t, h) PROVE
   Core'
  <2>1. HandlerTypes'
    BY <1>1 DEF Tcl_AsyncCreate, AtCode, vars, handlerVars, flagVars,
       notifierVars, alertVars, HandlerTypes, IsInjective, ThreadTypes
  <2>2. ThreadTypes'
    BY <1>1 DEF Tcl_AsyncCreate, AtCode, vars, handlerVars, flagVars,
       notifierVars, alertVars, ThreadTypes, HandlerTypes
  <2>3. NotifierTypes'
    BY <1>1 DEF Tcl_AsyncCreate, AtCode, vars, handlerVars, flagVars,
       notifierVars, alertVars, NotifierTypes, Actor, HandlerTypes,
       ThreadTypes
  <2>4. Owned'
    BY <1>1 DEF Tcl_AsyncCreate, AtCode, vars, handlerVars, flagVars,
       notifierVars, alertVars, Owned, HandlerTypes, ThreadTypes
  <2>5. ListedOwnersAlive'
    BY <1>1 DEF Tcl_AsyncCreate, AtCode, vars, handlerVars, flagVars,
       notifierVars, alertVars, ListedOwnersAlive, HandlerTypes, ThreadTypes
  <2>6. Locks'
    BY <1>1 DEF Tcl_AsyncCreate, AtCode, vars, handlerVars, flagVars,
       notifierVars, alertVars, Locks, HandlerTypes, ThreadTypes
  <2>7. NoLostMark'
    BY <1>1 DEF Tcl_AsyncCreate, AtCode, vars, handlerVars, flagVars,
       notifierVars, alertVars, NoLostMark, Listed, PassDue, HandlerTypes,
       ThreadTypes
  <2>8. Active'
    BY <1>1 DEF Tcl_AsyncCreate, AtCode, vars, handlerVars, flagVars,
       notifierVars, alertVars, Active, HandlerTypes, ThreadTypes
  <2>9. Wakeup'
    BY <1>1 DEF Tcl_AsyncCreate, AtCode, vars, handlerVars, flagVars,
       notifierVars, alertVars, Wakeup, HandlerTypes, ThreadTypes
  <2> QED BY <2>1, <2>2, <2>3, <2>4, <2>5, <2>6, <2>7, <2>8, <2>9
<1>2. ASSUME NEW t \in Thread, NEW i \in DOMAIN handlers, Tcl_AsyncDelete(t,
   i) PROVE Core'
  <2>0. /\ handlers' \in Seq(Handler)
        /\ \A j \in DOMAIN handlers' :
              \E k \in DOMAIN handlers : k # i /\ handlers'[j] = handlers[k]
        /\ \A k \in DOMAIN handlers :
              k # i => \E j \in DOMAIN handlers' : handlers'[j] = handlers[k]
    <3>1. handlers \in Seq(Handler) /\ handlers' = RemoveAt(handlers, i)
      BY <1>2 DEF Tcl_AsyncDelete, AtCode, HandlerTypes
    <3> QED BY <3>1, RemoveAtMembers
  <2>1. (ThreadTypes /\ NotifierTypes /\ Locks /\ Active /\ Wakeup)'
    BY <1>2 DEF Tcl_AsyncDelete, AtCode, vars, handlerVars, flagVars,
       notifierVars, alertVars, ThreadTypes, NotifierTypes, Actor, Locks,
       Active, Wakeup
  <2>2. HandlerTypes'
    <3>1. handlers' \in Seq(Handler)
      BY <2>0
    <3>2. \A j \in DOMAIN handlers' : handlers'[j] \in alloc'
      BY <1>2, <2>0 DEF Tcl_AsyncDelete, AtCode, HandlerTypes, IsInjective
    <3>3. IsInjective(handlers')
      BY <1>2, RemoveAtInjective DEF Tcl_AsyncDelete, AtCode, HandlerTypes
    <3> QED BY <1>2, <3>1, <3>2, <3>3 DEF Tcl_AsyncDelete, AtCode, HandlerTypes, vars, handlerVars, flagVars, notifierVars, alertVars
  <2>3. Owned'
    BY <1>2, <2>0 DEF Tcl_AsyncDelete, AtCode, Owned
  <2>4. ListedOwnersAlive'
    BY <1>2, <2>0 DEF Tcl_AsyncDelete, AtCode, ListedOwnersAlive, vars, handlerVars, flagVars, notifierVars, alertVars
  <2>5. NoLostMark'
    <3>1. \A g \in Handler \ {handlers[i]} : Listed(g) => Listed(g)'
      BY <2>0 DEF Listed, HandlerTypes
    <3> QED BY <1>2, <3>1 DEF Tcl_AsyncDelete, AtCode, NoLostMark, PassDue, HandlerTypes, vars, handlerVars, flagVars, notifierVars, alertVars
  <2> QED BY <2>1, <2>2, <2>3, <2>4, <2>5
<1>3. ASSUME NEW t \in Thread, NEW h \in Handler, Tcl_AsyncMark(t, h) PROVE
   Core'
  <2>1. HandlerTypes'
    BY <1>3 DEF Tcl_AsyncMark, MarkReady, AtCode, vars, handlerVars, flagVars,
       notifierVars, alertVars, HandlerTypes, IsInjective, ThreadTypes
  <2>2. ThreadTypes'
    <3>1. CASE asyncActive[origin[h]]
      BY <1>3, <3>1 DEF Tcl_AsyncMark, MarkReady, AtCode, ThreadTypes, vars, handlerVars, flagVars, notifierVars, alertVars
    <3>2. CASE ~asyncActive[origin[h]]
      <4>1. asyncReady' \in [Thread -> BOOLEAN]
        BY <1>3, <3>2 DEF Tcl_AsyncMark, MarkReady, AtCode, ThreadTypes
      <4> QED BY <1>3, <3>2, <4>1 DEF Tcl_AsyncMark, MarkReady, AtCode, ThreadTypes, vars, handlerVars, flagVars, notifierVars, alertVars
    <3> QED BY <3>1, <3>2
  <2>3. NotifierTypes'
    BY <1>3 DEF Tcl_AsyncMark, MarkReady, AtCode, vars, handlerVars, flagVars,
       notifierVars, alertVars, NotifierTypes, Actor, HandlerTypes,
       ThreadTypes
  <2>4. Owned'
    BY <1>3 DEF Tcl_AsyncMark, MarkReady, AtCode, vars, handlerVars, flagVars,
       notifierVars, alertVars, Owned, HandlerTypes, ThreadTypes
  <2>5. ListedOwnersAlive'
    BY <1>3 DEF Tcl_AsyncMark, MarkReady, AtCode, vars, handlerVars, flagVars,
       notifierVars, alertVars, ListedOwnersAlive, HandlerTypes, ThreadTypes,
       NotifierTypes, Owned, Locks, Active
  <2>6. Locks'
    BY <1>3 DEF Tcl_AsyncMark, MarkReady, AtCode, vars, handlerVars, flagVars,
       notifierVars, alertVars, HandlerTypes, ThreadTypes, NotifierTypes,
       Owned, Locks, NoLostMark, Active, Wakeup, Listed, PassDue, Actor,
       IsInjective, ListedOwnersAlive
  <2>7. NoLostMark'
    BY <1>3 DEF Tcl_AsyncMark, MarkReady, AtCode, vars, handlerVars, flagVars,
       notifierVars, alertVars, NoLostMark, Listed, PassDue, HandlerTypes,
       ThreadTypes, NotifierTypes, Owned, Locks, Active
  <2>8. Active'
    BY <1>3 DEF Tcl_AsyncMark, MarkReady, AtCode, vars, handlerVars, flagVars,
       notifierVars, alertVars, Active, HandlerTypes, ThreadTypes
  <2>9. Wakeup'
    BY <1>3 DEF Tcl_AsyncMark, MarkReady, AtCode, vars, handlerVars, flagVars,
       notifierVars, alertVars, Wakeup, HandlerTypes, ThreadTypes,
       NotifierTypes, Owned, Locks, Active
  <2> QED BY <2>1, <2>2, <2>3, <2>4, <2>5, <2>6, <2>7, <2>8, <2>9
<1>4. ASSUME NEW t \in Thread, AlertFromMark(t) PROVE Core'
  <2>1. (HandlerTypes /\ ThreadTypes /\ NotifierTypes /\ Owned /\
     ListedOwnersAlive /\ Locks /\ NoLostMark /\ Active /\ Wakeup)'
    BY <1>4 DEF AlertFromMark, Tcl_ThreadAlert, Resume, vars, handlerVars,
       flagVars, notifierVars, alertVars, HandlerTypes, IsInjective,
       ThreadTypes, NotifierTypes, Actor, Owned, ListedOwnersAlive, Locks,
       NoLostMark, Listed, PassDue, Active, Wakeup
  <2> QED BY <2>1
<1>5. ASSUME NEW t \in Thread, Tcl_AsyncInvoke(t) PROVE Core'
  <2>1. HandlerTypes'
    BY <1>5 DEF Tcl_AsyncInvoke, InvokePass, FirstReady, OwnReady, vars,
       handlerVars, flagVars, notifierVars, alertVars, HandlerTypes,
       IsInjective, ThreadTypes
  <2>2. ThreadTypes'
    BY <1>5, InvokePassThread DEF Tcl_AsyncInvoke, ThreadTypes, vars, handlerVars, flagVars, notifierVars, alertVars
  <2>3. NotifierTypes'
    BY <1>5 DEF Tcl_AsyncInvoke, InvokePass, FirstReady, OwnReady, vars,
       handlerVars, flagVars, notifierVars, alertVars, NotifierTypes, Actor,
       HandlerTypes, ThreadTypes
  <2>4. Owned'
    BY <1>5 DEF Tcl_AsyncInvoke, InvokePass, FirstReady, OwnReady, vars,
       handlerVars, flagVars, notifierVars, alertVars, Owned, HandlerTypes,
       ThreadTypes
  <2>5. ListedOwnersAlive'
    BY <1>5 DEF Tcl_AsyncInvoke, InvokePass, FirstReady, OwnReady, vars,
       handlerVars, flagVars, notifierVars, alertVars, ListedOwnersAlive,
       HandlerTypes, ThreadTypes, NotifierTypes, Owned, Locks, Active
  <2>6. Locks'
    BY <1>5 DEF Tcl_AsyncInvoke, InvokePass, FirstReady, OwnReady, vars,
       handlerVars, flagVars, notifierVars, alertVars, Locks, HandlerTypes,
       ThreadTypes
  <2>7. NoLostMark'
    BY <1>5 DEF Tcl_AsyncInvoke, InvokePass, FirstReady, OwnReady, vars,
       handlerVars, flagVars, notifierVars, alertVars, NoLostMark, Listed,
       PassDue, HandlerTypes, ThreadTypes, NotifierTypes, Owned, Locks, Active
  <2>8. Active'
    <3>1. ~asyncReady'[t] /\ \A u \in Thread \ {t} : asyncReady'[u] = asyncReady[u]
      BY <1>5 DEF Tcl_AsyncInvoke, ThreadTypes, Active
    <3> QED BY <1>5, <3>1, InvokePassThread DEF Tcl_AsyncInvoke, Active
  <2>9. Wakeup'
    BY <1>5 DEF Tcl_AsyncInvoke, InvokePass, FirstReady, OwnReady, vars,
       handlerVars, flagVars, notifierVars, alertVars, Wakeup, HandlerTypes,
       ThreadTypes
  <2> QED BY <2>1, <2>2, <2>3, <2>4, <2>5, <2>6, <2>7, <2>8, <2>9
<1>6. ASSUME NEW t \in Thread, ProcReturns(t) PROVE Core'
  <2>1. HandlerTypes'
    BY <1>6 DEF ProcReturns, InvokePass, FirstReady, OwnReady, vars,
       handlerVars, flagVars, notifierVars, alertVars, HandlerTypes,
       IsInjective, ThreadTypes
  <2>2. ThreadTypes'
    BY <1>6, InvokePassThread DEF ProcReturns, ThreadTypes, vars, handlerVars, flagVars, notifierVars, alertVars
  <2>3. NotifierTypes'
    BY <1>6 DEF ProcReturns, InvokePass, FirstReady, OwnReady, vars,
       handlerVars, flagVars, notifierVars, alertVars, NotifierTypes, Actor,
       HandlerTypes, ThreadTypes
  <2>4. Owned'
    BY <1>6 DEF ProcReturns, InvokePass, FirstReady, OwnReady, vars,
       handlerVars, flagVars, notifierVars, alertVars, Owned, HandlerTypes,
       ThreadTypes
  <2>5. ListedOwnersAlive'
    BY <1>6 DEF ProcReturns, InvokePass, FirstReady, OwnReady, vars,
       handlerVars, flagVars, notifierVars, alertVars, ListedOwnersAlive,
       HandlerTypes, ThreadTypes, NotifierTypes, Owned, Locks, Active
  <2>6. Locks'
    BY <1>6 DEF ProcReturns, InvokePass, FirstReady, OwnReady, vars,
       handlerVars, flagVars, notifierVars, alertVars, Locks, HandlerTypes,
       ThreadTypes
  <2>7. NoLostMark'
    BY <1>6 DEF ProcReturns, InvokePass, FirstReady, OwnReady, vars,
       handlerVars, flagVars, notifierVars, alertVars, NoLostMark, Listed,
       PassDue, HandlerTypes, ThreadTypes, NotifierTypes, Owned, Locks, Active
  <2>8. Active'
    <3>1. ~asyncReady'[t] /\ \A u \in Thread \ {t} : asyncReady'[u] = asyncReady[u]
      BY <1>6 DEF ProcReturns, ThreadTypes, Active
    <3> QED BY <1>6, <3>1, InvokePassThread DEF ProcReturns, Active
  <2>9. Wakeup'
    BY <1>6 DEF ProcReturns, InvokePass, FirstReady, OwnReady, vars,
       handlerVars, flagVars, notifierVars, alertVars, Wakeup, HandlerTypes,
       ThreadTypes
  <2> QED BY <2>1, <2>2, <2>3, <2>4, <2>5, <2>6, <2>7, <2>8, <2>9
<1>7. ASSUME NEW t \in Thread, SeesNotReady(t) PROVE Core'
  <2>1. (HandlerTypes /\ ThreadTypes /\ NotifierTypes /\ Owned /\
     ListedOwnersAlive /\ Locks /\ NoLostMark /\ Active /\ Wakeup)'
    BY <1>7 DEF SeesNotReady, vars, handlerVars, flagVars, notifierVars,
       alertVars, HandlerTypes, IsInjective, ThreadTypes, NotifierTypes,
       Actor, Owned, ListedOwnersAlive, Locks, NoLostMark, Listed, PassDue,
       Active, Wakeup
  <2> QED BY <2>1
<1>8. ASSUME NEW t \in Thread, Tcl_WaitForEvent(t) PROVE Core'
  <2>1. (HandlerTypes /\ ThreadTypes /\ NotifierTypes /\ Owned /\
     ListedOwnersAlive /\ Locks /\ NoLostMark /\ Active /\ Wakeup)'
    BY <1>8 DEF Tcl_WaitForEvent, vars, handlerVars, flagVars, notifierVars,
       alertVars, HandlerTypes, IsInjective, ThreadTypes, NotifierTypes,
       Actor, Owned, ListedOwnersAlive, Locks, NoLostMark, Listed, PassDue,
       Active, Wakeup
  <2> QED BY <2>1
<1>9. ASSUME NEW t \in Thread, WaitEnds(t) PROVE Core'
  <2>1. (HandlerTypes /\ ThreadTypes /\ NotifierTypes /\ Owned /\
     ListedOwnersAlive /\ Locks /\ NoLostMark /\ Active /\ Wakeup)'
    BY <1>9 DEF WaitEnds, vars, handlerVars, flagVars, notifierVars,
       alertVars, HandlerTypes, IsInjective, ThreadTypes, NotifierTypes,
       Actor, Owned, ListedOwnersAlive, Locks, NoLostMark, Listed, PassDue,
       Active, Wakeup
  <2> QED BY <2>1
<1>10. ASSUME NEW t \in Thread, TclFinalizeNotifier(t) PROVE Core'
  <2>1. HandlerTypes'
    BY <1>10 DEF TclFinalizeNotifier, vars, handlerVars, flagVars,
       notifierVars, alertVars, HandlerTypes, IsInjective, ThreadTypes
  <2>2. ThreadTypes'
    BY <1>10 DEF TclFinalizeNotifier, vars, handlerVars, flagVars,
       notifierVars, alertVars, ThreadTypes, HandlerTypes
  <2>3. NotifierTypes'
    BY <1>10 DEF TclFinalizeNotifier, vars, handlerVars, flagVars,
       notifierVars, alertVars, NotifierTypes, Actor, HandlerTypes,
       ThreadTypes
  <2>4. Owned'
    BY <1>10 DEF TclFinalizeNotifier, vars, handlerVars, flagVars,
       notifierVars, alertVars, Owned, HandlerTypes, ThreadTypes
  <2>5. ListedOwnersAlive'
    BY <1>10 DEF TclFinalizeNotifier, vars, handlerVars, flagVars,
       notifierVars, alertVars, ListedOwnersAlive, HandlerTypes, ThreadTypes,
       NotifierTypes, Owned, Locks, Active
  <2>6. Locks'
    BY <1>10 DEF TclFinalizeNotifier, vars, handlerVars, flagVars,
       notifierVars, alertVars, Locks, HandlerTypes, ThreadTypes
  <2>7. NoLostMark'
    BY <1>10 DEF TclFinalizeNotifier, vars, handlerVars, flagVars,
       notifierVars, alertVars, NoLostMark, Listed, PassDue, HandlerTypes,
       ThreadTypes
  <2>8. Active'
    BY <1>10 DEF TclFinalizeNotifier, vars, handlerVars, flagVars,
       notifierVars, alertVars, Active, HandlerTypes, ThreadTypes
  <2>9. Wakeup'
    BY <1>10 DEF TclFinalizeNotifier, vars, handlerVars, flagVars,
       notifierVars, alertVars, Wakeup, HandlerTypes, ThreadTypes
  <2> QED BY <2>1, <2>2, <2>3, <2>4, <2>5, <2>6, <2>7, <2>8, <2>9
<1>11. ASSUME NEW t \in Thread, FinalizeJoin(t) PROVE Core'
  <2>1. CASE ~asyncPending
    <3>1. /\ pc[t] = "join" /\ npc = "exited" /\ asyncPending' = FALSE
          /\ registered' = registered \ {t} /\ listLock' = None
          /\ pc' = [pc EXCEPT ![t] = "finasync"]
          /\ UNCHANGED <<handlerVars, ready, asyncReady, eventReady, asyncActive,
                         running, asyncMutex, alertee, npc, token, quitSent,
                         quitRead, accepted, marks>>
      BY <1>11, <2>1 DEF FinalizeJoin
    <3>2. HandlerTypes' /\ ThreadTypes' /\ NotifierTypes'
      BY <3>1 DEF handlerVars, HandlerTypes, IsInjective, ThreadTypes,
         NotifierTypes, Actor
    <3>3. Owned' /\ ListedOwnersAlive' /\ Locks'
      BY <3>1 DEF handlerVars, Owned, ListedOwnersAlive, Locks, ThreadTypes
    <3>4. NoLostMark' /\ Active' /\ Wakeup'
      BY <2>1, <3>1 DEF handlerVars, NoLostMark, Listed, PassDue, Active, Wakeup,
         ThreadTypes
    <3> QED BY <3>2, <3>3, <3>4
  <2>2. CASE asyncPending
    <3>1. /\ pc[t] = "join" /\ npc = "exited"
          /\ asyncMutex = None /\ PerformOutstanding
          /\ asyncPending' = FALSE
          /\ registered' = registered \ {t} /\ listLock' = None
          /\ pc' = [pc EXCEPT ![t] = "finasync"]
          /\ UNCHANGED <<handlerVars, asyncActive, running, asyncMutex, alertee,
                         npc, token, quitSent, quitRead, accepted, marks>>
      BY <1>11, <2>2 DEF FinalizeJoin
    <3>2. /\ ready' \in [Handler -> {-1, 0, 1}]
          /\ \A h \in Handler :
                /\ Listed(h) => ready'[h] # -1
                /\ ready[h] # 0 => ready'[h] # 0
                /\ ready[h] # -1 => ready'[h] = ready[h]
          /\ asyncReady' \in [Thread -> BOOLEAN]
          /\ eventReady' \in [Thread -> BOOLEAN]
          /\ \A u \in Thread :
                /\ asyncReady[u] => asyncReady'[u]
                /\ asyncActive[u] => asyncReady'[u] = asyncReady[u]
                /\ eventReady[u] => eventReady'[u]
                /\ u \in registered /\ asyncReady'[u] /\ ~asyncReady[u] =>
                      eventReady'[u]
                /\ (\E h \in Handler : Listed(h) /\ ready[h] = -1 /\ origin[h] = u)
                      => asyncReady'[u] \/ asyncActive[u]
      <4> DEFINE due == {h \in Handler : Listed(h) /\ ready[h] = -1}
                 told == {o \in Thread : ~asyncActive[o]
                                          /\ \E h \in due : origin[h] = o}
      <4>1. /\ ready' = [h \in Handler |-> IF h \in due THEN 1 ELSE ready[h]]
            /\ asyncReady' = [o \in Thread |-> asyncReady[o] \/ o \in told]
            /\ eventReady' = [o \in Thread |->
                                 eventReady[o] \/ o \in told \cap registered]
        BY <3>1 DEF PerformOutstanding
      <4>2. /\ ready' \in [Handler -> {-1, 0, 1}]
            /\ \A h \in Handler :
                  /\ Listed(h) => ready'[h] # -1
                  /\ ready[h] # 0 => ready'[h] # 0
                  /\ ready[h] # -1 => ready'[h] = ready[h]
        BY <4>1 DEF HandlerTypes
      <4>3. \A u \in Thread :
               /\ asyncActive[u] => u \notin told
               /\ (\E h \in Handler : Listed(h) /\ ready[h] = -1 /\ origin[h] = u)
                     => u \in told \/ asyncActive[u]
        OBVIOUS
      <4> HIDE DEF due, told
      <4>4. /\ asyncReady \in [Thread -> BOOLEAN]
            /\ eventReady \in [Thread -> BOOLEAN]
        BY DEF ThreadTypes
      <4>5. asyncReady' \in [Thread -> BOOLEAN] /\ eventReady' \in [Thread -> BOOLEAN]
        BY ONLY <4>1, <4>4, Zenon
      <4>6. \A u \in Thread :
               /\ asyncReady'[u] = (asyncReady[u] \/ u \in told)
               /\ eventReady'[u] = (eventReady[u] \/ u \in told \cap registered)
        BY ONLY <4>1, Zenon
      <4>7. \A u \in Thread : asyncReady[u] \in BOOLEAN /\ eventReady[u] \in BOOLEAN
        BY <4>4
      <4> QED BY <4>2, <4>3, <4>5, <4>6, <4>7
    <3>3. HandlerTypes' /\ ThreadTypes' /\ NotifierTypes'
      BY <3>1, <3>2 DEF handlerVars, HandlerTypes, IsInjective, ThreadTypes,
         NotifierTypes, Actor
    <3>4. Owned' /\ ListedOwnersAlive' /\ Locks'
      BY <3>1 DEF handlerVars, Owned, ListedOwnersAlive, Locks, ThreadTypes
    <3>5. NoLostMark'
      <4> SUFFICES ASSUME NEW h \in accepted
                   PROVE  /\ Listed(h)' /\ ready'[h] # 0
                          /\ asyncReady'[origin[h]] \/ asyncActive[origin[h]]
        BY <3>1 DEF handlerVars, NoLostMark
      <4>1. /\ h \in Handler /\ Listed(h) /\ ready[h] # 0
            /\ \/ asyncReady[origin[h]] \/ asyncActive[origin[h]]
               \/ ready[h] = -1
        BY DEF NoLostMark, HandlerTypes
      <4>2. origin[h] \in Thread
        BY <4>1 DEF Listed, Owned
      <4>3. Listed(h)'
        BY <3>1, <4>1 DEF Listed, handlerVars
      <4>4. ready'[h] # 0
        BY <3>2, <4>1, Zenon
      <4>5. CASE ready[h] = -1
        BY <3>2, <4>1, <4>2, <4>3, <4>4, <4>5, Zenon
      <4>6. CASE asyncReady[origin[h]] \/ asyncActive[origin[h]]
        BY <3>2, <4>2, <4>3, <4>4, <4>6, Zenon
      <4> QED BY <4>1, <4>5, <4>6
    <3>6. Active' /\ Wakeup'
      BY <3>1, <3>2 DEF Active, Wakeup, ThreadTypes
    <3> QED BY <3>3, <3>4, <3>5, <3>6
  <2> QED BY <2>1, <2>2 DEF NotifierTypes
<1>12. ASSUME NEW t \in Thread, NEW i \in DOMAIN handlers, TclFinalizeAsync(t,
   i) PROVE Core'
  <2>0. /\ handlers' \in Seq(Handler)
        /\ \A j \in DOMAIN handlers' :
              \E k \in DOMAIN handlers : k # i /\ handlers'[j] = handlers[k]
        /\ \A k \in DOMAIN handlers :
              k # i => \E j \in DOMAIN handlers' : handlers'[j] = handlers[k]
    <3>1. handlers \in Seq(Handler) /\ handlers' = RemoveAt(handlers, i)
      BY <1>12 DEF TclFinalizeAsync, FirstOwn, HandlerTypes
    <3> QED BY <3>1, RemoveAtMembers
  <2>1. (ThreadTypes /\ NotifierTypes /\ Locks /\ Active /\ Wakeup)'
    BY <1>12 DEF TclFinalizeAsync, FirstOwn, vars, handlerVars, flagVars,
       notifierVars, alertVars, ThreadTypes, NotifierTypes, Actor, Locks,
       Active, Wakeup
  <2>2. HandlerTypes'
    <3>1. handlers' \in Seq(Handler)
      BY <2>0
    <3>2. \A j \in DOMAIN handlers' : handlers'[j] \in alloc'
      BY <1>12, <2>0 DEF TclFinalizeAsync, FirstOwn, HandlerTypes, IsInjective
    <3>3. IsInjective(handlers')
      BY <1>12, RemoveAtInjective DEF TclFinalizeAsync, FirstOwn, HandlerTypes
    <3> QED BY <1>12, <3>1, <3>2, <3>3 DEF TclFinalizeAsync, FirstOwn, HandlerTypes, vars, handlerVars, flagVars, notifierVars, alertVars
  <2>3. Owned'
    BY <1>12, <2>0 DEF TclFinalizeAsync, FirstOwn, Owned
  <2>4. ListedOwnersAlive'
    BY <1>12, <2>0 DEF TclFinalizeAsync, FirstOwn, ListedOwnersAlive, vars, handlerVars, flagVars, notifierVars, alertVars
  <2>5. NoLostMark'
    <3>1. \A g \in Handler \ {handlers[i]} : Listed(g) => Listed(g)'
      BY <2>0 DEF Listed, HandlerTypes
    <3> QED BY <1>12, <3>1 DEF TclFinalizeAsync, FirstOwn, NoLostMark, PassDue, HandlerTypes, vars, handlerVars, flagVars, notifierVars, alertVars
  <2> QED BY <2>1, <2>2, <2>3, <2>4, <2>5
<1>13. ASSUME NEW t \in Thread, FinalizeAsyncDone(t) PROVE Core'
  <2>1. (HandlerTypes /\ ThreadTypes /\ NotifierTypes /\ Owned /\
     ListedOwnersAlive /\ Locks /\ NoLostMark /\ Active /\ Wakeup)'
    BY <1>13 DEF FinalizeAsyncDone, vars, handlerVars, flagVars, notifierVars,
       alertVars, HandlerTypes, IsInjective, ThreadTypes, NotifierTypes,
       Actor, Owned, ListedOwnersAlive, Locks, NoLostMark, Listed, PassDue,
       Active, Wakeup
  <2> QED BY <2>1
<1>14. ASSUME NEW h \in Handler, Tcl_AsyncMarkFromSignal(h) PROVE Core'
  <2>1. HandlerTypes'
    BY <1>14 DEF Tcl_AsyncMarkFromSignal, vars, handlerVars, flagVars,
       notifierVars, alertVars, HandlerTypes, IsInjective, ThreadTypes
  <2>2. ThreadTypes'
    BY <1>14 DEF Tcl_AsyncMarkFromSignal, vars, handlerVars, flagVars,
       notifierVars, alertVars, ThreadTypes, HandlerTypes
  <2>3. NotifierTypes'
    BY <1>14 DEF Tcl_AsyncMarkFromSignal, vars, handlerVars, flagVars,
       notifierVars, alertVars, NotifierTypes, Actor, HandlerTypes,
       ThreadTypes
  <2>4. Owned'
    BY <1>14 DEF Tcl_AsyncMarkFromSignal, vars, handlerVars, flagVars,
       notifierVars, alertVars, Owned, HandlerTypes, ThreadTypes
  <2>5. ListedOwnersAlive'
    BY <1>14 DEF Tcl_AsyncMarkFromSignal, vars, handlerVars, flagVars,
       notifierVars, alertVars, ListedOwnersAlive, HandlerTypes, ThreadTypes
  <2>6. Locks'
    BY <1>14 DEF Tcl_AsyncMarkFromSignal, vars, handlerVars, flagVars,
       notifierVars, alertVars, Locks, HandlerTypes, ThreadTypes
  <2>7. NoLostMark'
    <3>1. /\ Listed(h) /\ ready' = [ready EXCEPT ![h] = -1]
          /\ accepted' \subseteq accepted \cup {h}
          /\ asyncPending => asyncPending'
          /\ asyncPending' \/ accepted' = accepted
          /\ UNCHANGED <<handlers, origin, asyncReady, asyncActive, npc>>
      BY <1>14 DEF Tcl_AsyncMarkFromSignal, handlerVars, flagVars, NotifierTypes
    <3>2. ASSUME NEW g \in accepted', g # h
          PROVE  /\ Listed(g) /\ ready'[g] = ready[g] /\ ready[g] # 0
                 /\ \/ asyncReady[origin[g]] \/ asyncActive[origin[g]]
                    \/ ready[g] = -1 /\ PassDue'
      BY <3>1, <3>2 DEF NoLostMark, PassDue, HandlerTypes
    <3>3. /\ ready'[h] = -1
          /\ h \in accepted' => \/ asyncReady[origin[h]] \/ asyncActive[origin[h]]
                                \/ PassDue'
      BY <3>1 DEF NoLostMark, PassDue, HandlerTypes
    <3> QED BY <3>1, <3>2, <3>3 DEF NoLostMark, Listed
  <2>8. Active'
    BY <1>14 DEF Tcl_AsyncMarkFromSignal, vars, handlerVars, flagVars,
       notifierVars, alertVars, Active, HandlerTypes, ThreadTypes
  <2>9. Wakeup'
    BY <1>14 DEF Tcl_AsyncMarkFromSignal, vars, handlerVars, flagVars,
       notifierVars, alertVars, Wakeup, HandlerTypes, ThreadTypes
  <2> QED BY <2>1, <2>2, <2>3, <2>4, <2>5, <2>6, <2>7, <2>8, <2>9
<1>15. ASSUME NotifierInterrupted PROVE Core'
  <2>1. (HandlerTypes /\ ThreadTypes /\ NotifierTypes /\ Owned /\
     ListedOwnersAlive /\ Locks /\ NoLostMark /\ Active /\ Wakeup)'
    BY <1>15 DEF NotifierInterrupted, vars, handlerVars, flagVars,
       notifierVars, alertVars, HandlerTypes, IsInjective, ThreadTypes,
       NotifierTypes, Actor, Owned, ListedOwnersAlive, Locks, NoLostMark,
       Listed, PassDue, Active, Wakeup
  <2> QED BY <2>1
<1>16. ASSUME NotifierReadsPipe PROVE Core'
  <2>1. (HandlerTypes /\ ThreadTypes /\ NotifierTypes /\ Owned /\
     ListedOwnersAlive /\ Locks /\ NoLostMark /\ Active /\ Wakeup)'
    BY <1>16 DEF NotifierReadsPipe, vars, handlerVars, flagVars, notifierVars,
       alertVars, HandlerTypes, IsInjective, ThreadTypes, NotifierTypes,
       Actor, Owned, ListedOwnersAlive, Locks, NoLostMark, Listed, PassDue,
       Active, Wakeup
  <2> QED BY <2>1
<1>17. ASSUME NotifierLock PROVE Core'
  <2>1. (HandlerTypes /\ ThreadTypes /\ NotifierTypes /\ Owned /\
     ListedOwnersAlive /\ Locks /\ NoLostMark /\ Active /\ Wakeup)'
    BY <1>17 DEF NotifierLock, vars, handlerVars, flagVars, notifierVars,
       alertVars, HandlerTypes, IsInjective, ThreadTypes, NotifierTypes,
       Actor, Owned, ListedOwnersAlive, Locks, NoLostMark, Listed, PassDue,
       Active, Wakeup
  <2> QED BY <2>1
<1>18. ASSUME NEW i \in DOMAIN handlers, NotifierMark(i) PROVE Core'
  <2>1. HandlerTypes'
    BY <1>18 DEF NotifierMark, MarkReady, NextFromSignal, vars, handlerVars,
       flagVars, notifierVars, alertVars, HandlerTypes, IsInjective,
       ThreadTypes
  <2>2. ThreadTypes'
    <3>1. CASE asyncActive[origin[handlers[i]]]
      BY <1>18, <3>1 DEF NotifierMark, MarkReady, NextFromSignal, ThreadTypes, vars, handlerVars, flagVars, notifierVars, alertVars
    <3>2. CASE ~asyncActive[origin[handlers[i]]]
      <4>1. asyncReady' \in [Thread -> BOOLEAN]
        BY <1>18, <3>2 DEF NotifierMark, MarkReady, NextFromSignal, ThreadTypes
      <4> QED BY <1>18, <3>2, <4>1 DEF NotifierMark, MarkReady, NextFromSignal, ThreadTypes, vars, handlerVars, flagVars, notifierVars, alertVars
    <3> QED BY <3>1, <3>2
  <2>3. NotifierTypes'
    BY <1>18 DEF NotifierMark, MarkReady, NextFromSignal, vars, handlerVars,
       flagVars, notifierVars, alertVars, NotifierTypes, Actor, HandlerTypes,
       ThreadTypes
  <2>4. Owned'
    BY <1>18 DEF NotifierMark, MarkReady, NextFromSignal, vars, handlerVars,
       flagVars, notifierVars, alertVars, Owned, HandlerTypes, ThreadTypes
  <2>5. ListedOwnersAlive'
    BY <1>18 DEF NotifierMark, MarkReady, NextFromSignal, vars, handlerVars,
       flagVars, notifierVars, alertVars, ListedOwnersAlive, HandlerTypes,
       ThreadTypes
  <2>6. Locks'
    BY <1>18 DEF NotifierMark, MarkReady, NextFromSignal, vars, handlerVars,
       flagVars, notifierVars, alertVars, Locks, HandlerTypes, ThreadTypes,
       NotifierTypes, Owned, Active
  <2>7. NoLostMark'
    BY <1>18 DEF NotifierMark, MarkReady, NextFromSignal, vars, handlerVars,
       flagVars, notifierVars, alertVars, NoLostMark, Listed, PassDue,
       HandlerTypes, ThreadTypes, NotifierTypes, Owned, Locks, Active
  <2>8. Active'
    BY <1>18 DEF NotifierMark, MarkReady, NextFromSignal, vars, handlerVars,
       flagVars, notifierVars, alertVars, Active, HandlerTypes, ThreadTypes
  <2>9. Wakeup'
    BY <1>18 DEF NotifierMark, MarkReady, NextFromSignal, vars, handlerVars,
       flagVars, notifierVars, alertVars, Wakeup, HandlerTypes, ThreadTypes,
       NotifierTypes, Owned, Locks, Active
  <2> QED BY <2>1, <2>2, <2>3, <2>4, <2>5, <2>6, <2>7, <2>8, <2>9
<1>19. ASSUME NotifierAlert PROVE Core'
  <2>1. (HandlerTypes /\ ThreadTypes /\ NotifierTypes /\ Owned /\
     ListedOwnersAlive /\ Locks /\ NoLostMark /\ Active /\ Wakeup)'
    BY <1>19 DEF NotifierAlert, Tcl_ThreadAlert, vars, handlerVars, flagVars,
       notifierVars, alertVars, HandlerTypes, IsInjective, ThreadTypes,
       NotifierTypes, Actor, Owned, ListedOwnersAlive, Locks, NoLostMark,
       Listed, PassDue, Active, Wakeup
  <2> QED BY <2>1
<1>20. ASSUME NotifierUnlock PROVE Core'
  <2>1. (HandlerTypes /\ ThreadTypes /\ NotifierTypes /\ Owned /\
     ListedOwnersAlive /\ Locks /\ NoLostMark /\ Active /\ Wakeup)'
    BY <1>20 DEF NotifierUnlock, Passed, vars, handlerVars, flagVars, notifierVars,
       alertVars, HandlerTypes, IsInjective, ThreadTypes, NotifierTypes,
       Actor, Owned, ListedOwnersAlive, Locks, NoLostMark, Listed, PassDue,
       Active, Wakeup
  <2> QED BY <2>1
<1>21. ASSUME NotifierLoop PROVE Core'
  <2>1. (HandlerTypes /\ ThreadTypes /\ NotifierTypes /\ Owned /\
     ListedOwnersAlive /\ Locks /\ NoLostMark /\ Active /\ Wakeup)'
    BY <1>21 DEF NotifierLoop, vars, handlerVars, flagVars, notifierVars,
       alertVars, HandlerTypes, IsInjective, ThreadTypes, NotifierTypes,
       Actor, Owned, ListedOwnersAlive, Locks, NoLostMark, Listed, PassDue,
       Active, Wakeup
  <2> QED BY <2>1
<1>22. ASSUME UNCHANGED vars PROVE Core'
  BY <1>22 DEF vars, handlerVars, flagVars, notifierVars, alertVars,
     HandlerTypes, ThreadTypes, NotifierTypes, Owned, Locks, NoLostMark,
     Active, Wakeup, Listed, PassDue, Actor, IsInjective, ListedOwnersAlive
<1> QED BY <1>1, <1>2, <1>3, <1>4, <1>5, <1>6, <1>7, <1>8, <1>9, <1>10, <1>11,
   <1>12, <1>13, <1>14, <1>15, <1>16, <1>17, <1>18, <1>19, <1>20, <1>21, <1>22
   DEF Next, ThreadStep, NotifierStep

(* Every step keeps what is known of a pass: only signals and the notifier *)
(* thread itself do anything to a handler while it is under way.           *)
LEMMA NextPassed ==
    ASSUME IInv, [Next]_vars PROVE Passed'
<1> USE DEF IInv, Core, TypeOK
<1>1. ASSUME NEW t \in Thread, ThreadStep(t)
      PROVE  Passed'
  <2>1. UNCHANGED <<npc, token>>
    BY <1>1 DEF ThreadStep, notifierVars, Tcl_AsyncCreate, Tcl_AsyncMark,
       Tcl_AsyncDelete, AlertFromMark, Tcl_AsyncInvoke, ProcReturns, SeesNotReady,
       Tcl_WaitForEvent, WaitEnds, TclFinalizeNotifier, FinalizeJoin,
       TclFinalizeAsync, FinalizeAsyncDone
  <2>2. ASSUME npc \in {"scan", "alert"}
        PROVE  UNCHANGED <<handlers, origin, accepted, ready, asyncReady,
                           asyncActive, asyncPending>>
    <3>1. asyncMutex = Notifier /\ asyncMutex # None /\ asyncMutex # t
      BY <2>2, AsyncConstants DEF Locks
    <3>2. pc[t] # "alert" /\ npc # "exited"
      BY <2>2, <3>1 DEF Locks
    <3>3. SeesNotReady(t) \/ Tcl_WaitForEvent(t) \/ WaitEnds(t) \/
          TclFinalizeNotifier(t)
      BY <1>1, <3>1, <3>2 DEF ThreadStep, Tcl_AsyncCreate, Tcl_AsyncMark,
         Tcl_AsyncDelete, AlertFromMark, Tcl_AsyncInvoke, ProcReturns,
         FinalizeJoin, TclFinalizeAsync, FinalizeAsyncDone
    <3> QED
      BY <3>3 DEF SeesNotReady, Tcl_WaitForEvent, WaitEnds, TclFinalizeNotifier,
         handlerVars, flagVars, notifierVars
  <2> QED BY <2>1, <2>2 DEF Passed
<1>2. ASSUME NEW h \in Handler, Tcl_AsyncMarkFromSignal(h)
      PROVE  Passed'
  <2>1. UNCHANGED <<handlers, origin, asyncReady, asyncActive, npc, token>>
    BY <1>2 DEF Tcl_AsyncMarkFromSignal, handlerVars, flagVars
  <2>2. CASE asyncPending'
    BY <2>1, <2>2 DEF Passed
  <2>3. CASE ~asyncPending'
    <3>1. ~asyncPending /\ accepted' = accepted /\ ready' = [ready EXCEPT ![h] = -1]
      BY <1>2, <2>3 DEF Tcl_AsyncMarkFromSignal, NotifierTypes
    <3>2. \A g \in accepted : g # h => ready'[g] = ready[g]
      BY <3>1 DEF HandlerTypes
    <3> QED BY <2>1, <3>1, <3>2 DEF Passed, NoLostMark, PassDue
  <2> QED BY <2>2, <2>3
<1>3. ASSUME NEW i \in DOMAIN handlers, NotifierMark(i)
      PROVE  Passed'
  <2>1. /\ npc = "scan" /\ npc' \in {"scan", "alert"} /\ token' = i + 1
        /\ NextFromSignal(i) /\ ready' = [ready EXCEPT ![handlers[i]] = 1]
        /\ UNCHANGED <<handlers, origin, accepted, asyncActive, asyncPending>>
    BY <1>3 DEF NotifierMark, MarkReady, handlerVars
  <2>2. \A o \in Thread : asyncReady[o] => asyncReady'[o]
    BY <1>3 DEF NotifierMark, MarkReady, ThreadTypes
  <2>3. i \in Nat /\ token \in Nat /\ DOMAIN handlers \subseteq Nat
    BY DEF HandlerTypes, NotifierTypes
  <2>4. \A j \in DOMAIN handlers : j < i + 1 /\ ready'[handlers[j]] = -1 =>
           j < token /\ ready[handlers[j]] = -1
    BY <2>1, <2>3 DEF NextFromSignal, HandlerTypes
  <2> QED BY <2>1, <2>2, <2>4 DEF Passed, Owned
<1>4. ASSUME NotifierInterrupted \/ NotifierReadsPipe \/ NotifierLoop \/ NotifierUnlock
      PROVE  Passed'
  BY <1>4 DEF NotifierInterrupted, NotifierReadsPipe, NotifierLoop, NotifierUnlock,
     Passed
<1>5. ASSUME NotifierLock
      PROVE  Passed'
  <2>1. token' = 1 /\ npc' = "scan" /\ handlers' = handlers
    BY <1>5 DEF NotifierLock, Passed, handlerVars
  <2>2. \A j \in DOMAIN handlers : ~(j < 1)
    BY DEF HandlerTypes
  <2> QED BY <2>1, <2>2 DEF Passed
<1>6. ASSUME NotifierAlert \/ UNCHANGED vars
      PROVE  Passed'
  BY <1>6 DEF NotifierAlert, vars, handlerVars, flagVars, notifierVars, Passed
<1> QED
  BY <1>1, <1>2, <1>3, <1>4, <1>5, <1>6 DEF Next, NotifierStep

(* The invariant in full, for the invariance theorems.                     *)
THEOREM Invariance == Spec => []IInv
<1>1. Init => IInv
  BY InitIInv
<1>2. IInv /\ [Next]_vars => IInv'
  BY NextCore, NextPassed DEF IInv
<1> QED BY <1>1, <1>2, PTL DEF Spec

(* Type correctness of tclAsync.c's state: the handler list only ever      *)
(* holds allocated handlers, each once.                                    *)
THEOREM TypeCorrect == Spec => []TypeOK
<1>1. IInv => TypeOK
  BY DEF IInv, Core
<1> QED BY <1>1, Invariance, PTL

(* No accepted mark is ever lost, whatever the interleaving of marks,      *)
(* signals, invocations, deletions and thread exits.                       *)
THEOREM MarksAreNotLost == Spec => []NoLostMark
<1>1. IInv => NoLostMark
  BY DEF IInv, Core
<1> QED BY <1>1, Invariance, PTL

(* TclAsyncMarkFromNotifier never writes through the thread data of a      *)
(* thread that has exited.                                                 *)
THEOREM OwnersAreAlive == Spec => []ListedOwnersAlive
<1>1. IInv => ListedOwnersAlive
  BY DEF IInv, Core
<1> QED BY <1>1, Invariance, PTL

(* Tcl_AsyncInvoke never nests.                                            *)
THEOREM InvokeDoesNotNest == Spec => []NoNestedInvoke
<1>1. IInv => NoNestedInvoke
  BY DEF IInv, Core, Active, NoNestedInvoke
<1> QED BY <1>1, Invariance, PTL

(* A thread never sleeps on a mark it has not been told of.                *)
THEOREM WakeupsAreNotLost == Spec => []NoLostWakeup
<1>1. IInv => NoLostWakeup
  BY DEF IInv, Core, Wakeup, NoLostWakeup
<1> QED BY <1>1, Invariance, PTL

(* From the 'q' to the end of the notifier thread a thread waits for it,   *)
(* and goes on waiting until it has seen to a mark that came too late.     *)
Joined ==
    /\ quitRead => quitSent
    /\ quitSent /\ npc # "exited" => \E t \in Thread : pc[t] = "join"
    /\ npc = "exited" /\ asyncPending => \E t \in Thread : pc[t] = "join"

(* Only the join itself ends the wait for the notifier thread.             *)
LEMMA NextJoined ==
    ASSUME IInv, Joined, [Next]_vars PROVE Joined'
<1> USE DEF IInv, Core, TypeOK
<1>1. ASSUME NEW t \in Thread, ThreadStep(t), ~FinalizeJoin(t), ~TclFinalizeNotifier(t)
      PROVE  Joined'
  <2>1. UNCHANGED notifierVars /\ pc[t] # "join"
    BY <1>1 DEF ThreadStep, AtCode, Tcl_AsyncCreate, Tcl_AsyncMark,
       Tcl_AsyncDelete, AlertFromMark, Tcl_AsyncInvoke, ProcReturns, SeesNotReady,
       Tcl_WaitForEvent, WaitEnds, TclFinalizeAsync, FinalizeAsyncDone
  <2>2. \A u \in Thread : u # t => pc'[u] = pc[u]
    BY <1>1 DEF ThreadStep, Tcl_AsyncCreate, Tcl_AsyncMark, InvokePass,
       Tcl_AsyncDelete, AlertFromMark, Tcl_AsyncInvoke, ProcReturns, SeesNotReady,
       Tcl_WaitForEvent, WaitEnds, TclFinalizeAsync, FinalizeAsyncDone, ThreadTypes
  <2> QED BY <2>1, <2>2 DEF Joined, notifierVars
<1>2. ASSUME NEW t \in Thread, FinalizeJoin(t)
      PROVE  Joined'
  BY <1>2 DEF FinalizeJoin, Joined
<1>3. ASSUME NEW t \in Thread, TclFinalizeNotifier(t)
      PROVE  Joined'
  <2>1. /\ pc[t] # "join" /\ UNCHANGED <<npc, asyncPending, quitRead>>
        /\ \A u \in Thread : u # t => pc'[u] = pc[u]
        /\ quitSent' = quitSent \/ (quitSent' = TRUE /\ pc'[t] = "join")
    BY <1>3 DEF TclFinalizeNotifier, ThreadTypes
  <2> QED BY <2>1 DEF Joined
<1>4. ASSUME NEW h \in Handler, Tcl_AsyncMarkFromSignal(h)
      PROVE  Joined'
  BY <1>4 DEF Tcl_AsyncMarkFromSignal, Joined
<1>5. ASSUME NEW i \in DOMAIN handlers, NotifierMark(i)
      PROVE  Joined'
  BY <1>5 DEF NotifierMark, Joined
<1>6. ASSUME \/ NotifierInterrupted \/ NotifierReadsPipe \/ NotifierLock
             \/ NotifierAlert \/ NotifierUnlock \/ NotifierLoop \/ UNCHANGED vars
      PROVE  Joined'
  BY <1>6 DEF NotifierInterrupted, NotifierReadsPipe, NotifierLock, NotifierAlert,
     NotifierUnlock, NotifierLoop, vars, notifierVars, Joined
<1> QED
  BY <1>1, <1>2, <1>3, <1>4, <1>5, <1>6 DEF Next, NotifierStep

(* No accepted mark waits for a notifier thread that has been joined: those *)
(* that came after its last look are passed on by TclFinalizeNotifier.      *)
THEOREM NoMarkIsLeftBehind == Spec => []NoMarkOutlivesNotifier
<1>1. Init => Joined
  BY DEF Init, Joined
<1>2. IInv /\ Joined /\ [Next]_vars => Joined'
  BY NextJoined
<1>3. IInv /\ Joined => NoMarkOutlivesNotifier
  BY DEF IInv, Core, NoLostMark, PassDue, Joined, NoMarkOutlivesNotifier
<1> QED
  BY <1>1, <1>2, <1>3, Invariance, PTL DEF Spec
==============================================================================
