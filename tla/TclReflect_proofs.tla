-------------------------- MODULE TclReflect_proofs --------------------------
(***************************************************************************)
(* Proofs about TclReflect, for any threads, interpreters and channels,    *)
(* whichever of the threads are killed.  What is shown holds until a call  *)
(* of ForwardProc uses freed memory, after which the program may do        *)
(* anything.                                                               *)
(***************************************************************************)
EXTENDS TclReflect, TLAPS

Request == [chan : Chan, op : Ops]
Result  == [result : {"none", "ok", "error"}, evPtr : BOOLEAN]

(* A source waits for an answer that it has not got.                       *)
Unanswered(s) == pc[s] = "wait" /\ result[s].result = "none"

(* The caller of an event that can still set its result.                   *)
Awaited(h, e) ==
    /\ Unanswered(e.src)
    /\ request[e.src].chan = e.chan /\ request[e.src].op = e.op
    /\ Home(e.chan) = h

(* The owner of a transformation is about to free it.                      *)
Closing(c) ==
    LET s == OwnerOf[c] IN
    /\ request[s].chan = c
    /\ pc[s] = "closing" \/ (pc[s] = "wait" /\ request[s].op = "close")

(* A call of ForwardProc that can no longer set a result: the interpreter  *)
(* is gone, and an operation that its caller waits for has been answered.  *)
Cut(f) ==
    /\ HomeOf[f.chan] \notin interps
    /\ ~(Unanswered(f.src) /\ request[f.src].chan = f.chan)

(* A thread that exits or has exited.                                      *)
Gone(h) == hpc[h] \in {"thread", "exited"}

(* Nothing more is forwarded for the channel.                              *)
Finished(c) == c \in dead \/ (c \in Transforms /\ (c \notin open \/ Closing(c)))

(* What a caller knows of its operation.                                   *)
CallInv ==
    \A s \in Source :
       /\ result[s] # None <=> pc[s] = "wait"
       /\ pc[s] \in {"wait", "closing"} =>
             /\ request[s] \in Request
             /\ request[s].chan \in open /\ OwnerOf[request[s].chan] = s
             /\ request[s].op = "drain" => request[s].chan \in Transforms
       /\ s \in ran => pc[s] = "wait"
       /\ pc[s] = "wait" /\ code[s] = "ok" => s \in ran
       /\ pc[s] = "wait" /\ result[s].result # "none" => code[s] # "none"
       /\ Unanswered(s) => result[s].evPtr

(* Events in a queue, which have not run, and in frames, which have.       *)
QueueInv(h) ==
    \A i \in DOMAIN queue[h] : queue[h][i].res =>
       Awaited(h, queue[h][i]) /\ queue[h][i].src \notin ran
FramesInv(h) ==
    \A i \in DOMAIN frames[h] : frames[h][i].res =>
       /\ Awaited(h, frames[h][i]) /\ frames[h][i].src \in ran
       /\ code[frames[h][i].src] = "ok"

CutInv(h) ==
    \A i \in DOMAIN frames[h] : frames[h][i].res \/ Cut(frames[h][i])

(* No two events of one caller that can set a result.                      *)
OneEach(q) ==
    \A i, j \in DOMAIN q :
       q[i].res /\ q[j].res /\ q[i].src = q[j].src => i = j

(* Events that can set a result belong to one caller each, which waits;    *)
(* those of methods that run can, unless they are cut.                     *)
EventInv ==
    \A h \in Handler :
       /\ QueueInv(h) /\ FramesInv(h)
       /\ OneEach(queue[h]) /\ OneEach(frames[h])
       /\ hpc[h] \in {"run", "interp"} => CutInv(h)

(* An event in q can set the result of s.                                  *)
Has(q, s) == \E i \in DOMAIN q : q[i].src = s /\ q[i].res

(* A caller without an answer has an event, in a thread that is still      *)
(* going to serve it or to cancel it, unless it was late.                  *)
WaitInv ==
    \A s \in Source : Unanswered(s) =>
       LET h == Home(request[s].chan) IN
       \/ s \in late /\ h \notin Transform /\ Gone(h)
       \/ /\ s \notin late
          /\ Has(queue[h], s) \/ Has(frames[h], s)
          /\ hpc[h] \in {"run", "interp"} \/ (h \in Transform /\ hpc[h] = "thread")

(* Channels that have left a map, or whose thread has marked them, are     *)
(* finished.                                                               *)
DeadInv ==
    /\ \A c \in Chan :
          /\ HomeOf[c] \notin interps => c \notin imap
          /\ c \notin imap \/ c \notin tmap => Finished(c)
          /\ \/ hpc[Home(c)] = "exited"
             \/ Home(c) \in Transform /\ hpc[Home(c)] = "thread"
             => Finished(c)
          /\ c \in dead /\ c \notin Transforms => c \notin imap \/ Gone(Home(c))
    /\ \A h \in Handler : hpc[h] = "interp" =>
          deleting[h] \in Interp \ interps /\ ThreadOf[deleting[h]] = h

(* A channel that is closed or about to be has left the interpreter's map, *)
(* or its thread exits.                                                    *)
PostInv ==
    /\ \A c \in Chan \ Transforms :
          /\ c \notin open => posts[c] = 0
          /\ \/ c \notin open
             \/ LET s == OwnerOf[c] IN
                /\ \/ pc[s] = "closing"
                   \/ /\ pc[s] = "wait" /\ request[s].op = "close"
                      /\ result[s].result # "none"
                /\ request[s].chan = c
             => c \notin imap \/ Gone(Home(c))
    /\ \A s \in Source : pc[s] = "exited" => \A c \in open : OwnerOf[c] # s

(* The inductive invariant.                                                *)
IInv == TypeOK /\ CallInv /\ EventInv /\ WaitInv /\ DeadInv /\ PostInv
-----------------------------------------------------------------------------
(* Facts about sequences of events.                                        *)

(* A function on 1 .. n is a sequence of length n.                         *)
LEMMA IsSequence ==
    ASSUME NEW n \in Nat, NEW f \in [1 .. n -> Event]
    PROVE  f \in Seq(Event) /\ Len(f) = n /\ DOMAIN f = 1 .. n
  OBVIOUS

(* A posted event is the last one, the others keep their places.           *)
LEMMA AppendEvent ==
    ASSUME NEW q \in Seq(Event), NEW e \in Event
    PROVE  /\ Append(q, e) \in Seq(Event)
           /\ DOMAIN Append(q, e) = DOMAIN q \cup {Len(q) + 1}
           /\ Len(q) + 1 \notin DOMAIN q
           /\ Append(q, e)[Len(q) + 1] = e
           /\ \A i \in DOMAIN q : Append(q, e)[i] = q[i]
  OBVIOUS

(* Taking the first event moves each of the others by one.                 *)
LEMMA TailEvent ==
    ASSUME NEW q \in Seq(Event), q # <<>>
    PROVE  /\ Tail(q) \in Seq(Event) /\ 1 \in DOMAIN q /\ Head(q) = q[1]
           /\ q[1] \in Event
           /\ \A i \in DOMAIN Tail(q) :
                 i + 1 \in DOMAIN q /\ i + 1 # 1 /\ Tail(q)[i] = q[i + 1]
           /\ \A i \in DOMAIN q : i # 1 => i - 1 \in DOMAIN Tail(q)
                                        /\ Tail(q)[i - 1] = q[i]
           /\ \A i, j \in DOMAIN Tail(q) : i + 1 = j + 1 => i = j
<1>1. Len(q) \in Nat /\ Len(q) # 0 /\ DOMAIN q = 1 .. Len(q)
  OBVIOUS
<1>2. Tail(q) \in Seq(Event) /\ Len(Tail(q)) = Len(q) - 1 /\ Head(q) = q[1]
  BY <1>1
<1>3. DOMAIN Tail(q) = 1 .. Len(q) - 1
  BY <1>1, <1>2
<1>4. \A i \in 1 .. Len(q) - 1 : Tail(q)[i] = q[i + 1]
  BY <1>1, <1>2
<1>5. \A i \in DOMAIN q : i # 1 => i - 1 \in 1 .. Len(q) - 1 /\ (i - 1) + 1 = i
  BY <1>1
<1>6. \A i \in 1 .. Len(q) - 1 : i + 1 \in 1 .. Len(q) /\ i + 1 # 1
  BY <1>1
<1>7. \A i, j \in 1 .. Len(q) - 1 : i + 1 = j + 1 => i = j
  BY <1>1
<1>8. q[1] \in Event
  BY <1>1
<1>9. \A i \in DOMAIN q : i # 1 => i - 1 \in DOMAIN Tail(q) /\ Tail(q)[i - 1] = q[i]
  BY <1>3, <1>4, <1>5
<1> QED BY <1>1, <1>2, <1>3, <1>4, <1>6, <1>7, <1>8, <1>9

(* Popping the innermost call leaves the others.                           *)
LEMMA PopEvent ==
    ASSUME NEW q \in Seq(Event), q # <<>>
    PROVE  /\ SubSeq(q, 1, Len(q) - 1) \in Seq(Event)
           /\ Len(q) \in DOMAIN q /\ q[Len(q)] \in Event
           /\ DOMAIN SubSeq(q, 1, Len(q) - 1) = DOMAIN q \ {Len(q)}
           /\ \A i \in DOMAIN q \ {Len(q)} : SubSeq(q, 1, Len(q) - 1)[i] = q[i]
<1>1. Len(q) \in Nat /\ Len(q) # 0 /\ DOMAIN q = 1 .. Len(q)
  OBVIOUS
<1>2. /\ SubSeq(q, 1, Len(q) - 1) \in Seq(Event)
      /\ Len(SubSeq(q, 1, Len(q) - 1)) = Len(q) - 1
      /\ \A i \in 1 .. Len(q) - 1 : SubSeq(q, 1, Len(q) - 1)[i] = q[i]
  BY <1>1
<1>3. DOMAIN SubSeq(q, 1, Len(q) - 1) = 1 .. Len(q) - 1
  BY <1>1, <1>2
<1>4. 1 .. Len(q) - 1 = (1 .. Len(q)) \ {Len(q)}
  BY <1>1
<1>5. Len(q) \in DOMAIN q /\ q[Len(q)] \in Event
  BY <1>1
<1> QED BY <1>1, <1>2, <1>3, <1>4, <1>5

(* Detaching changes only res, of the events of S.                         *)
LEMMA DetachEvent ==
    ASSUME NEW q \in Seq(Event), NEW S
    PROVE  /\ Detach(q, S) \in Seq(Event) /\ DOMAIN Detach(q, S) = DOMAIN q
           /\ \A i \in DOMAIN q :
                 /\ Detach(q, S)[i].src = q[i].src
                 /\ Detach(q, S)[i].chan = q[i].chan
                 /\ Detach(q, S)[i].op = q[i].op
                 /\ Detach(q, S)[i].res <=> q[i].res /\ q[i].src \notin S
<1>1. Len(q) \in Nat /\ DOMAIN q = 1 .. Len(q) /\ \A i \in DOMAIN q : q[i] \in Event
  OBVIOUS
<1>2. \A i \in DOMAIN q :
         [q[i] EXCEPT !.res = @ /\ q[i].src \notin S] \in Event
  BY <1>1 DEF Event
<1>3. Detach(q, S) \in [1 .. Len(q) -> Event]
  BY <1>1, <1>2 DEF Detach
<1>4. Detach(q, S) \in Seq(Event) /\ DOMAIN Detach(q, S) = DOMAIN q
  BY <1>1, <1>3, IsSequence
<1>5. ASSUME NEW i \in DOMAIN q
      PROVE  /\ Detach(q, S)[i].src = q[i].src
             /\ Detach(q, S)[i].chan = q[i].chan
             /\ Detach(q, S)[i].op = q[i].op
             /\ Detach(q, S)[i].res <=> q[i].res /\ q[i].src \notin S
  BY <1>1 DEF Detach, Event
<1> QED BY <1>4, <1>5
-----------------------------------------------------------------------------
(* Where a channel is implemented, and by whom it is used.                 *)
LEMMA Places ==
    ASSUME NEW c \in Chan
    PROVE  /\ Home(c) \in Handler /\ HomeOf[c] \in Interp /\ OwnerOf[c] \in Source
           /\ ThreadOf[HomeOf[c]] = Home(c)
           /\ c \in Transforms <=> Home(c) \in Transform
  BY ReflectConstants DEF Home, Transforms

(* A result is not None.                                                   *)
LEMMA NoneIsNoResult == None \notin Result
  BY ReflectConstants DEF Result

(* What is to be shown of the events after a step.                         *)
LEMMA QueueStep ==
    ASSUME NEW g \in Handler, queue'[g] \in Seq(Event),
           \A f \in Event : f.res /\ (\E i \in DOMAIN queue'[g] : queue'[g][i] = f)
              => Awaited(g, f)' /\ f.src \notin ran'
    PROVE  QueueInv(g)'
<1>1. \A i \in DOMAIN queue'[g] : queue'[g][i] \in Event
  OBVIOUS
<1> QED BY <1>1 DEF QueueInv, Awaited, Unanswered

(* The same of the calls of methods.                                       *)
LEMMA FramesStep ==
    ASSUME NEW g \in Handler, frames'[g] \in Seq(Event),
           \A f \in Event : f.res /\ (\E i \in DOMAIN frames'[g] : frames'[g][i] = f)
              => Awaited(g, f)' /\ f.src \in ran' /\ code'[f.src] = "ok"
    PROVE  FramesInv(g)'
<1>1. \A i \in DOMAIN frames'[g] : frames'[g][i] \in Event
  OBVIOUS
<1> QED BY <1>1 DEF FramesInv, Awaited, Unanswered

(* The same of the calls that are cut.                                     *)
LEMMA CutStep ==
    ASSUME NEW g \in Handler, frames'[g] \in Seq(Event),
           \A f \in Event : (\E i \in DOMAIN frames'[g] : frames'[g][i] = f)
              => f.res \/ Cut(f)'
    PROVE  CutInv(g)'
<1>1. \A i \in DOMAIN frames'[g] : frames'[g][i] \in Event
  OBVIOUS
<1> QED BY <1>1 DEF CutInv, Cut, Unanswered

(* Calls that are cut stay so when frames stay as they are.                *)
LEMMA CutKept ==
    ASSUME NEW g \in Handler, frames[g] \in Seq(Event), frames'[g] = frames[g],
           \A f \in Event : Cut(f) => Cut(f)', CutInv(g)
    PROVE  CutInv(g)'
<1>1. \A i \in DOMAIN frames[g] : frames[g][i] \in Event
  OBVIOUS
<1> QED BY <1>1 DEF CutInv, Cut, Unanswered

(* The inductive invariant holds initially.                                *)
LEMMA InitIInv ==
    ASSUME Init
    PROVE  IInv
<1> USE DEF Init
<1>0. <<>> \in Seq(Event) /\ DOMAIN <<>> = {}
  OBVIOUS
<1>1. TypeOK
  <2>1. queue \in [Handler -> Seq(Event)] /\ frames \in [Handler -> Seq(Event)]
    BY <1>0
  <2>2. posts \in [Chan -> 0 .. MaxPosts]
    BY ReflectConstants
  <2>3. hpc \in [Handler -> {"run", "interp", "thread", "exited"}]
    OBVIOUS
  <2>4. pc \in [Source -> {"idle", "wait", "closing", "exited"}]
    OBVIOUS
  <2>5. code \in [Source -> {"none", "ok", "lost"}]
    OBVIOUS
  <2>6. deleting \in [Handler -> Interp \cup {None}]
    OBVIOUS
  <2>7. /\ request \in [Source -> [chan : Chan, op : Ops] \cup {None}]
        /\ result \in [Source -> [result : {"none", "ok", "error"}, evPtr : BOOLEAN]
                                  \cup {None}]
    OBVIOUS
  <2> QED BY <2>1, <2>2, <2>3, <2>4, <2>5, <2>6, <2>7 DEF TypeOK
<1>2. CallInv
  BY DEF CallInv, Unanswered
<1>3. EventInv
  BY <1>0 DEF EventInv, QueueInv, FramesInv, OneEach, CutInv
<1>4. WaitInv
  BY DEF WaitInv, Unanswered
<1>5. DeadInv
  BY Places DEF DeadInv
<1>6. PostInv
  BY Places DEF PostInv
<1> QED BY <1>1, <1>2, <1>3, <1>4, <1>5, <1>6 DEF IInv

(* An operation is refused: the channel is dead, and so it has left the    *)
(* map of its interpreter.                                                 *)
LEMMA ForwardRefusedIInv ==
    ASSUME IInv, NEW s \in Source, NEW c \in Chan, ForwardRefused(s, c)
    PROVE  IInv'
<1> USE DEF IInv, ForwardRefused, sourceVars, handlerVars, chanVars, history
<1>0. \A t \in Source : t # s => pc'[t] = pc[t] /\ request'[t] = request[t]
  BY DEF TypeOK
<1>a. /\ pc'[s] = "closing" /\ request'[s] = [chan |-> c, op |-> "close"]
      /\ request'[s] \in Request
  BY DEF TypeOK, Ops, Request
<1>1. TypeOK'
  BY DEF TypeOK, Ops
<1>2. CallInv'
  BY <1>0, <1>a DEF CallInv, Unanswered
<1>b. \A t \in Source : Unanswered(t) <=> Unanswered(t)'
  BY <1>0, <1>a DEF Unanswered
<1>3. EventInv'
  <2>1. ASSUME NEW g \in Handler
        PROVE  QueueInv(g)' /\ FramesInv(g)'
    BY <1>0, <1>a, <1>b DEF EventInv, QueueInv, FramesInv, Awaited, Unanswered, TypeOK
  <2>2. \A f \in Event : Cut(f) => Cut(f)'
    BY <1>0, <1>a, <1>b DEF Cut, Event, Unanswered
  <2>3. ASSUME NEW g \in Handler, CutInv(g)
        PROVE  CutInv(g)'
    <3>1. frames[g] \in Seq(Event) /\ frames'[g] = frames[g]
      BY DEF TypeOK
    <3> QED BY <2>2, <2>3, <3>1, CutKept
  <2> QED BY <2>1, <2>3 DEF EventInv
<1>4. WaitInv'
  BY <1>0, <1>a, <1>b DEF WaitInv, Unanswered, Gone
<1>c. ASSUME NEW d \in Chan, Finished(d)
      PROVE  Finished(d)'
  BY <1>0, <1>a, <1>c, Places DEF Finished, Closing
<1>5. DeadInv'
  BY <1>c DEF DeadInv, Gone
<1>6. PostInv'
  BY <1>0, <1>a, Places DEF PostInv, DeadInv, Gone
<1> QED BY <1>1, <1>2, <1>3, <1>4, <1>5, <1>6

(* The event of a new operation is in the queue of a thread that serves    *)
(* it, or the operation is late: a channel of any other thread would be    *)
(* dead or could not be in use.                                            *)
LEMMA ForwardIInv ==
    ASSUME IInv, NEW s \in Source, NEW c \in Chan, NEW o \in Ops,
           ForwardOpToHandlerThread(s, c, o)
    PROVE  IInv'
<1> USE DEF IInv, sourceVars, handlerVars, chanVars, history
<1> DEFINE h == Home(c)
           e == Message(s, c, o)
<1>0. /\ h \in Handler /\ e \in Event /\ queue[h] \in Seq(Event)
      /\ e.src = s /\ e.chan = c /\ e.op = o /\ e.res
  BY Places DEF Message, Event, TypeOK
<1>1. ~Finished(c)
  BY DEF Finished, Closing, ForwardOpToHandlerThread
<1>2. hpc[h] \in {"run", "interp"} \/ (hpc[h] = "thread" /\ h \notin Transform)
  BY <1>0, <1>1 DEF DeadInv, TypeOK
<1>3. /\ queue'[h] = Append(queue[h], e)
      /\ \A g \in Handler : g # h => queue'[g] = queue[g]
      /\ queue' \in [Handler -> Seq(Event)]
  <2>1. queue' = [queue EXCEPT ![h] = Append(@, e)]
    BY <1>2 DEF ForwardOpToHandlerThread
  <2>2. Append(queue[h], e) \in Seq(Event)
    BY <1>0, AppendEvent
  <2> HIDE DEF h, e
  <2> QED BY <1>0, <2>1, <2>2 DEF TypeOK
<1>4. /\ \A t \in Source : t # s => /\ pc'[t] = pc[t] /\ request'[t] = request[t]
                                    /\ result'[t] = result[t] /\ code'[t] = code[t]
      /\ pc[s] = "idle" /\ pc'[s] = "wait" /\ code'[s] = "none"
      /\ request'[s] = [chan |-> c, op |-> o]
      /\ result'[s] = [result |-> "none", evPtr |-> TRUE]
      /\ UNCHANGED <<frames, hpc, deleting, interps, dead, imap, tmap, open,
                     interest, posts, ran, freedUse>>
      /\ late' = IF hpc[h] = "thread" /\ h \notin Transform
                 THEN late \cup {s} ELSE late \ {s}
  BY DEF ForwardOpToHandlerThread, TypeOK
<1>5. /\ request'[s] \in Request /\ request'[s].chan = c /\ request'[s].op = o
      /\ result'[s] \in Result /\ result'[s].result = "none" /\ result'[s].evPtr
      /\ result'[s] # None
  <2>1. /\ request'[s] \in Request /\ request'[s].chan = c /\ request'[s].op = o
        /\ result'[s] \in Result /\ result'[s].result = "none" /\ result'[s].evPtr
    BY <1>4 DEF Request, Result
  <2> QED BY <2>1, NoneIsNoResult
<1>6. /\ c \in open /\ OwnerOf[c] = s /\ c \notin dead
      /\ o = "drain" => c \in Transforms
  BY DEF ForwardOpToHandlerThread
<1>7. TypeOK'
  <2>1. /\ pc' \in [Source -> {"idle", "wait", "closing", "exited"}]
        /\ request' \in [Source -> [chan : Chan, op : Ops] \cup {None}]
        /\ result' \in [Source -> [result : {"none", "ok", "error"},
                                   evPtr : BOOLEAN] \cup {None}]
        /\ code' \in [Source -> {"none", "ok", "lost"}]
    BY <1>5 DEF ForwardOpToHandlerThread, TypeOK, Request, Result
  <2> QED BY <1>3, <1>4, <2>1 DEF TypeOK
<1> HIDE DEF h, e
<1>8. CallInv'
  <2> SUFFICES ASSUME NEW t \in Source
      PROVE  /\ result'[t] # None <=> pc'[t] = "wait"
             /\ pc'[t] \in {"wait", "closing"} =>
                   /\ request'[t] \in Request
                   /\ request'[t].chan \in open /\ OwnerOf[request'[t].chan] = t
                   /\ request'[t].op = "drain" => request'[t].chan \in Transforms
             /\ t \in ran => pc'[t] = "wait"
             /\ pc'[t] = "wait" /\ code'[t] = "ok" => t \in ran
             /\ pc'[t] = "wait" /\ result'[t].result # "none" => code'[t] # "none"
             /\ Unanswered(t)' => result'[t].evPtr
    BY <1>4 DEF CallInv, Unanswered, Transforms, Home
  <2>1. CASE t = s
    <3>1. s \notin ran
      BY <1>4 DEF CallInv
    <3>2. result'[s].evPtr
      BY <1>5
    <3> QED BY <1>4, <1>5, <1>6, <2>1, <3>1, <3>2
  <2>2. CASE t # s
    BY <1>4, <2>2 DEF CallInv, Unanswered
  <2> QED BY <2>1, <2>2
<1>a. ~Unanswered(s) /\ s \notin ran /\ Unanswered(s)'
  BY <1>4, <1>5 DEF Unanswered, CallInv
<1>b. \A t \in Source : t # s => (Unanswered(t) <=> Unanswered(t)')
  BY <1>4 DEF Unanswered
<1>c. ASSUME NEW g \in Handler, NEW f \in Event, Awaited(g, f)
      PROVE  f.src # s /\ Awaited(g, f)'
  BY <1>4, <1>a, <1>b, <1>c DEF Awaited, Event
<1>d. /\ DOMAIN queue'[h] = DOMAIN queue[h] \cup {Len(queue[h]) + 1}
      /\ queue'[h][Len(queue[h]) + 1] = e
      /\ \A i \in DOMAIN queue[h] : queue'[h][i] = queue[h][i]
  BY <1>0, <1>3, AppendEvent
<1>e. Awaited(h, e)'
  BY <1>0, <1>4, <1>5, <1>a DEF Awaited, h
<1>f. /\ \A g \in Handler : \A i \in DOMAIN queue[g] : queue[g][i] \in Event
      /\ \A g \in Handler : \A i \in DOMAIN frames[g] : frames[g][i] \in Event
  BY DEF TypeOK
<1>9. EventInv'
  <2> SUFFICES ASSUME NEW g \in Handler
      PROVE  /\ QueueInv(g)' /\ FramesInv(g)'
             /\ OneEach(queue'[g]) /\ OneEach(frames'[g])
             /\ hpc'[g] \in {"run", "interp"} => CutInv(g)'
    BY DEF EventInv, OneEach
  <2>1. QueueInv(g) /\ FramesInv(g) /\ OneEach(queue[g]) /\ OneEach(frames[g])
    BY DEF EventInv
  <2>2. FramesInv(g)'
    <3> SUFFICES ASSUME NEW i \in DOMAIN frames[g], frames[g][i].res
        PROVE  /\ Awaited(g, frames[g][i])' /\ frames[g][i].src \in ran
               /\ code'[frames[g][i].src] = "ok"
      BY <1>4 DEF FramesInv, Awaited, Unanswered
    <3>1. frames[g][i] \in Event /\ frames[g][i].src \in Source
      BY <1>f DEF Event
    <3> QED BY <1>4, <1>c, <2>1, <3>1 DEF FramesInv
  <2>3. ASSUME NEW i \in DOMAIN queue[g], NEW f, f = queue[g][i], f.res
        PROVE  Awaited(g, f)' /\ f.src \notin ran /\ f.src # s
    <3>1. f \in Event
      BY <1>f, <2>3
    <3>2. Awaited(g, f) /\ f.src \notin ran
      BY <2>1, <2>3 DEF QueueInv
    <3> QED BY <1>c, <3>1, <3>2
  <2>4. QueueInv(g)' /\ OneEach(queue'[g])
    <3>1. CASE g = h
      BY <1>0, <1>4, <1>a, <1>d, <1>e, <2>1, <2>3, <3>1
         DEF QueueInv, OneEach, Awaited, Unanswered
    <3>2. CASE g # h
      <4>1. queue'[g] = queue[g] /\ queue'[g] \in Seq(Event)
        BY <1>3, <3>2
      <4>2. QueueInv(g)'
        BY <1>4, <2>3, <4>1, QueueStep
      <4> QED BY <2>1, <4>1, <4>2
    <3> QED BY <3>1, <3>2
  <2>5. hpc'[g] \in {"run", "interp"} => CutInv(g)'
    <3>1. ASSUME NEW f \in Event, Cut(f)
          PROVE  Cut(f)'
      <4>1. f.src \in Source /\ f.chan \in Chan
        BY DEF Event
      <4>2. f.chan # c
        BY <1>1, <3>1, <4>1 DEF Cut, DeadInv
      <4> QED BY <1>4, <1>5, <1>b, <3>1, <4>1, <4>2 DEF Cut
    <3>2. frames[g] \in Seq(Event) /\ frames'[g] = frames[g]
      BY <1>4 DEF TypeOK
    <3> QED BY <1>4, <3>1, <3>2, CutKept DEF EventInv
  <2> QED BY <1>4, <2>1, <2>2, <2>4, <2>5
<1>10. WaitInv'
  <2> SUFFICES ASSUME NEW t \in Source, Unanswered(t)'
      PROVE  LET g == Home(request'[t].chan) IN
             \/ t \in late' /\ g \notin Transform /\ hpc'[g] \in {"thread", "exited"}
             \/ /\ t \notin late'
                /\ Has(queue'[g], t) \/ Has(frames'[g], t)
                /\ \/ hpc'[g] \in {"run", "interp"}
                   \/ g \in Transform /\ hpc'[g] = "thread"
    BY DEF WaitInv, Home, Has, Gone
  <2>1. CASE t = s
    <3>1. Has(queue'[h], s)
      BY <1>0, <1>d DEF Has
    <3>2. Home(request'[s].chan) = h
      BY <1>5 DEF h
    <3> QED BY <1>2, <1>4, <2>1, <3>1, <3>2 DEF Gone
  <2>2. CASE t # s
    <3> DEFINE g == Home(request[t].chan)
    <3>1. \/ t \in late /\ g \notin Transform /\ Gone(g)
          \/ /\ t \notin late
             /\ Has(queue[g], t) \/ Has(frames[g], t)
             /\ \/ hpc[g] \in {"run", "interp"}
                \/ g \in Transform /\ hpc[g] = "thread"
      BY <1>b, <2>2 DEF WaitInv
    <3>a. (t \in late' <=> t \in late) /\ hpc'[g] = hpc[g] /\ (Gone(g)' <=> Gone(g))
      BY <1>4, <2>2 DEF Gone
    <3>2. g \in Handler
      BY <1>b, <2>2, Places DEF CallInv, Unanswered, Request
    <3>3. Home(request'[t].chan) = g
      BY <1>4, <2>2
    <3> HIDE DEF g
    <3>4. Has(queue[g], t) \/ Has(frames[g], t) => Has(queue'[g], t) \/ Has(frames'[g], t)
      <4>1. CASE g = h
        BY <1>4, <1>d, <4>1 DEF Has
      <4>2. CASE g # h
        BY <1>3, <1>4, <3>2, <4>2
      <4> QED BY <4>1, <4>2
    <3> QED BY <3>1, <3>3, <3>4, <3>a DEF Gone
  <2> QED BY <2>1, <2>2
<1>g. ASSUME NEW d \in Chan, Finished(d)
      PROVE  Finished(d)'
  BY <1>4, <1>g, Places DEF Finished, Closing
<1>11. DeadInv'
  BY <1>4, <1>g DEF DeadInv, Gone
<1>12. PostInv'
  BY <1>4, <1>5, Places DEF PostInv, Gone
<1> QED BY <1>7, <1>8, <1>9, <1>10, <1>11, <1>12

(* A caller returns, and no event for it is left that could set a result.  *)
LEMMA ForwardReturnsIInv ==
    ASSUME IInv, NEW s \in Source, ForwardReturns(s)
    PROVE  IInv'
<1> USE DEF IInv, sourceVars, handlerVars, chanVars, history
<1>1. /\ \A t \in Source : t # s => /\ pc'[t] = pc[t] /\ request'[t] = request[t]
                                    /\ result'[t] = result[t]
      /\ pc[s] = "wait" /\ result[s].result # "none" /\ result'[s] = None
      /\ ran' = ran \ {s}
      /\ UNCHANGED <<code, queue, frames, hpc, deleting, interps, dead, imap,
                     tmap, open, interest, posts, late, freedUse>>
  BY DEF ForwardReturns, TypeOK
<1>2. \/ /\ pc'[s] = "closing" /\ request'[s] = request[s]
         /\ request[s].op \in {"close", "drain"}
      \/ pc'[s] = "idle" /\ request'[s] = None /\ request[s].op # "close"
  BY DEF ForwardReturns, TypeOK
<1>3. TypeOK'
  BY DEF TypeOK, ForwardReturns
<1>4. CallInv'
  BY <1>1, <1>2 DEF CallInv, Unanswered
<1>5. /\ ~Unanswered(s) /\ ~Unanswered(s)'
      /\ \A t \in Source : t # s => (Unanswered(t) <=> Unanswered(t)')
  BY <1>1, <1>2 DEF Unanswered
<1>6. ASSUME NEW g \in Handler, NEW f \in Event, Awaited(g, f)
      PROVE  f.src # s /\ Awaited(g, f)'
  BY <1>1, <1>5, <1>6 DEF Awaited, Event
<1>7. EventInv'
  <2>1. ASSUME NEW g \in Handler
        PROVE  QueueInv(g)' /\ FramesInv(g)'
    <3>1. queue'[g] \in Seq(Event) /\ frames'[g] \in Seq(Event)
      BY <1>3 DEF TypeOK
    <3>2. QueueInv(g) /\ FramesInv(g)
      BY DEF EventInv
    <3>3. QueueInv(g)'
      BY <1>1, <1>6, <3>1, <3>2, QueueStep DEF QueueInv
    <3>4. FramesInv(g)'
      BY <1>1, <1>6, <3>1, <3>2, FramesStep DEF FramesInv
    <3> QED BY <3>3, <3>4
  <2>2. \A f \in Event : Cut(f) => Cut(f)'
    BY <1>1, <1>5 DEF Cut, Event
  <2>3. ASSUME NEW g \in Handler, CutInv(g)
        PROVE  CutInv(g)'
    <3>1. frames[g] \in Seq(Event) /\ frames'[g] = frames[g]
      BY <1>1 DEF TypeOK
    <3> QED BY <2>2, <2>3, <3>1, CutKept
  <2> QED BY <1>1, <2>1, <2>3 DEF EventInv
<1>8. WaitInv'
  BY <1>1, <1>5 DEF WaitInv, Gone
<1>9. ASSUME NEW d \in Chan, Finished(d)
      PROVE  Finished(d)'
  BY <1>1, <1>2, <1>9, Places DEF Finished, Closing
<1>10. DeadInv'
  BY <1>1, <1>9 DEF DeadInv, Gone
<1>11. PostInv'
  <2>1. \A d \in Chan \ Transforms : d # request[s].chan \/ request[s].op # "drain"
    BY <1>1 DEF CallInv
  <2> QED BY <1>1, <1>2, <2>1, Places DEF PostInv, Gone
<1> QED BY <1>3, <1>4, <1>7, <1>8, <1>10, <1>11

(* The structure that is freed has left the map of its interpreter.        *)
LEMMA CloseReturnsIInv ==
    ASSUME IInv, NEW s \in Source, CloseReturns(s)
    PROVE  IInv'
<1> USE DEF IInv, sourceVars, handlerVars, chanVars, history
<1> DEFINE c == request[s].chan
<1>1. /\ pc[s] = "closing" /\ request[s] \in Request /\ c \in Chan
      /\ c \in open /\ OwnerOf[c] = s
  BY DEF CloseReturns, CallInv, Request
<1>2. /\ \A t \in Source : t # s => pc'[t] = pc[t] /\ request'[t] = request[t]
      /\ pc'[s] = "idle" /\ request'[s] = None /\ open' = open \ {c}
      /\ \A d \in Chan : d # c => posts'[d] = posts[d]
      /\ posts'[c] = 0
      /\ UNCHANGED <<code, result, queue, frames, hpc, deleting, interps, dead,
                     imap, tmap, interest, ran, late, freedUse>>
  BY <1>1 DEF CloseReturns, TypeOK
<1>3. TypeOK'
  <2>1. /\ pc' \in [Source -> {"idle", "wait", "closing", "exited"}]
        /\ request' \in [Source -> [chan : Chan, op : Ops] \cup {None}]
        /\ open' \subseteq Chan
    BY DEF TypeOK, CloseReturns
  <2>2. posts' = [posts EXCEPT ![c] = 0] /\ 0 \in 0 .. MaxPosts
    BY ReflectConstants DEF CloseReturns
  <2>3. posts' \in [Chan -> 0 .. MaxPosts]
    BY <2>2 DEF TypeOK
  <2> QED BY <1>2, <2>1, <2>3 DEF TypeOK
<1> HIDE DEF c
<1>4. CallInv'
  BY <1>1, <1>2 DEF CallInv, Unanswered
<1>5. \A t \in Source : Unanswered(t) <=> Unanswered(t)'
  BY <1>1, <1>2 DEF Unanswered
<1>6. ASSUME NEW g \in Handler, NEW f \in Event, Awaited(g, f)
      PROVE  Awaited(g, f)'
  BY <1>1, <1>2, <1>5, <1>6 DEF Awaited, Event, Unanswered
<1>7. EventInv'
  <2>1. ASSUME NEW g \in Handler
        PROVE  QueueInv(g)' /\ FramesInv(g)'
    <3>1. queue'[g] \in Seq(Event) /\ frames'[g] \in Seq(Event)
      BY <1>3 DEF TypeOK
    <3>2. QueueInv(g) /\ FramesInv(g)
      BY DEF EventInv
    <3>3. QueueInv(g)'
      BY <1>2, <1>6, <3>1, <3>2, QueueStep DEF QueueInv
    <3>4. FramesInv(g)'
      BY <1>2, <1>6, <3>1, <3>2, FramesStep DEF FramesInv
    <3> QED BY <3>3, <3>4
  <2>2. \A f \in Event : Cut(f) => Cut(f)'
    BY <1>2, <1>5 DEF Cut, Event, Unanswered
  <2>3. ASSUME NEW g \in Handler, CutInv(g)
        PROVE  CutInv(g)'
    <3>1. frames[g] \in Seq(Event) /\ frames'[g] = frames[g]
      BY <1>2 DEF TypeOK
    <3> QED BY <2>2, <2>3, <3>1, CutKept
  <2> QED BY <1>2, <2>1, <2>3 DEF EventInv
<1>8. WaitInv'
  BY <1>1, <1>2, <1>5 DEF WaitInv, Unanswered, Gone
<1>9. ASSUME NEW d \in Chan, Finished(d)
      PROVE  Finished(d)'
  BY <1>1, <1>2, <1>9, Places DEF Finished, Closing, c
<1>10. DeadInv'
  BY <1>2, <1>9 DEF DeadInv, Gone
<1>11. PostInv'
  <2>1. c \in Chan \ Transforms => c \notin imap \/ Gone(Home(c))
    BY <1>1 DEF PostInv, c
  <2> QED BY <1>1, <1>2, <2>1, Places DEF PostInv, Gone
<1> QED BY <1>3, <1>4, <1>7, <1>8, <1>10, <1>11

(* The owner exits when all its channels are closed.                       *)
LEMMA SourceExitsIInv ==
    ASSUME IInv, NEW s \in Source, SourceExits(s)
    PROVE  IInv'
<1> USE DEF IInv, sourceVars, handlerVars, chanVars, history
<1>1. /\ \A t \in Source : t # s => pc'[t] = pc[t]
      /\ pc[s] = "idle" /\ pc'[s] = "exited" /\ \A c \in open : OwnerOf[c] # s
      /\ UNCHANGED <<request, code, result, queue, frames, hpc, deleting,
                     interps, dead, imap, tmap, open, interest, posts, ran, late,
                     freedUse>>
  BY DEF SourceExits, TypeOK
<1>2. TypeOK'
  BY DEF TypeOK, SourceExits
<1>3. CallInv'
  BY <1>1 DEF CallInv, Unanswered
<1>4. \A t \in Source : Unanswered(t) <=> Unanswered(t)'
  BY <1>1 DEF Unanswered
<1>a. ASSUME NEW g \in Handler, NEW f \in Event, Awaited(g, f)
      PROVE  Awaited(g, f)'
  BY <1>1, <1>4, <1>a DEF Awaited, Event, Unanswered
<1>5. EventInv'
  <2>1. ASSUME NEW g \in Handler
        PROVE  QueueInv(g)' /\ FramesInv(g)'
    <3>1. queue'[g] \in Seq(Event) /\ frames'[g] \in Seq(Event)
      BY <1>2 DEF TypeOK
    <3>2. QueueInv(g) /\ FramesInv(g)
      BY DEF EventInv
    <3>3. QueueInv(g)'
      BY <1>1, <1>a, <3>1, <3>2, QueueStep DEF QueueInv
    <3>4. FramesInv(g)'
      BY <1>1, <1>a, <3>1, <3>2, FramesStep DEF FramesInv
    <3> QED BY <3>3, <3>4
  <2>2. \A f \in Event : Cut(f) => Cut(f)'
    BY <1>1, <1>4 DEF Cut, Event
  <2>3. ASSUME NEW g \in Handler, CutInv(g)
        PROVE  CutInv(g)'
    <3>1. frames[g] \in Seq(Event) /\ frames'[g] = frames[g]
      BY <1>1 DEF TypeOK
    <3> QED BY <2>2, <2>3, <3>1, CutKept
  <2> QED BY <1>1, <2>1, <2>3 DEF EventInv
<1>6. WaitInv'
  BY <1>1, <1>4 DEF WaitInv, Gone
<1>7. ASSUME NEW d \in Chan, Finished(d)
      PROVE  Finished(d)'
  BY <1>1, <1>7, Places DEF Finished, Closing
<1>8. DeadInv'
  BY <1>1, <1>7 DEF DeadInv, Gone
<1>9. PostInv'
  BY <1>1, Places DEF PostInv, Gone
<1> QED BY <1>2, <1>3, <1>5, <1>6, <1>8, <1>9

(* An event arrives, or is posted for a channel that is still in the map.  *)
LEMMA PostsIInv ==
    ASSUME IInv, NEW c \in Chan, ReflectEventRun(c) \/ TclChanPostEventObjCmd(c)
    PROVE  IInv'
<1> USE DEF IInv, sourceVars, handlerVars, chanVars, history
<1>1. /\ UNCHANGED <<pc, request, result, code, queue, frames, hpc, deleting,
                     interps, dead, imap, tmap, open, interest, ran, late, freedUse>>
      /\ posts' \in [Chan -> 0 .. MaxPosts]
      /\ \A d \in Chan \ Transforms : d \notin open => posts'[d] = 0
  <2>1. CASE ReflectEventRun(c)
    BY <2>1, ReflectConstants DEF ReflectEventRun, TypeOK, PostInv
  <2>2. CASE TclChanPostEventObjCmd(c)
    <3>1. c \in open \/ c \in Transforms
      BY <2>2 DEF TclChanPostEventObjCmd, Running, Gone, PostInv
    <3>2. \A d \in Chan \ Transforms : d \notin open => posts[d] = 0
      BY DEF PostInv
    <3> QED BY <2>2, <3>1, <3>2, ReflectConstants DEF TclChanPostEventObjCmd, TypeOK
  <2> QED BY <2>1, <2>2
<1>2. TypeOK'
  BY <1>1 DEF TypeOK
<1>3. CallInv' /\ WaitInv'
  BY <1>1 DEF CallInv, WaitInv, Unanswered, Gone
<1>4. EventInv'
  BY <1>1 DEF EventInv, QueueInv, FramesInv, CutInv, Cut, Awaited, Unanswered
<1>5. DeadInv'
  BY <1>1 DEF DeadInv, Finished, Closing, Gone
<1>6. PostInv'
  BY <1>1 DEF PostInv, Gone
<1> QED BY <1>2, <1>3, <1>4, <1>5, <1>6
-----------------------------------------------------------------------------
(* What the events of a sequence answer after it is changed.               *)
LEMMA TailAnswers ==
    ASSUME NEW q \in Seq(Event), q # <<>>
    PROVE  /\ OneEach(q) => OneEach(Tail(q))
           /\ OneEach(q) /\ Head(q).res =>
                 \A i \in DOMAIN Tail(q) : Tail(q)[i].res =>
                    Tail(q)[i].src # Head(q).src
           /\ \A t : Has(q, t) => Has(Tail(q), t) \/ (Head(q).src = t /\ Head(q).res)
<1> DEFINE r == Tail(q)
           e == Head(q)
<1>1. /\ 1 \in DOMAIN q /\ e = q[1]
      /\ \A i \in DOMAIN r : i + 1 \in DOMAIN q /\ i + 1 # 1 /\ r[i] = q[i + 1]
      /\ \A i \in DOMAIN q : i # 1 => i - 1 \in DOMAIN r /\ r[i - 1] = q[i]
      /\ \A i, j \in DOMAIN r : i + 1 = j + 1 => i = j
  BY TailEvent
<1> HIDE DEF r, e
<1>2. OneEach(q) => OneEach(r)
  BY <1>1 DEF OneEach
<1>3. OneEach(q) /\ e.res => \A i \in DOMAIN r : r[i].res => r[i].src # e.src
  BY <1>1 DEF OneEach
<1>4. \A t : Has(q, t) => Has(r, t) \/ (e.src = t /\ e.res)
  BY <1>1 DEF Has
<1> QED BY <1>2, <1>3, <1>4 DEF r, e

(* Appending an event of a caller that has none there adds its answer.     *)
LEMMA AppendAnswers ==
    ASSUME NEW q \in Seq(Event), NEW e \in Event
    PROVE  /\ OneEach(q) /\ (\A i \in DOMAIN q : q[i].res => q[i].src # e.src)
                => OneEach(Append(q, e))
           /\ \A t : Has(q, t) \/ (e.src = t /\ e.res) => Has(Append(q, e), t)
  BY AppendEvent DEF OneEach, Has

(* Popping the innermost call takes away only what it answers.             *)
LEMMA PopAnswers ==
    ASSUME NEW q \in Seq(Event), q # <<>>
    PROVE  /\ OneEach(q) => OneEach(SubSeq(q, 1, Len(q) - 1))
           /\ OneEach(q) /\ q[Len(q)].res =>
                 \A i \in DOMAIN q \ {Len(q)} : q[i].res => q[i].src # q[Len(q)].src
           /\ \A t : Has(q, t) => \/ Has(SubSeq(q, 1, Len(q) - 1), t)
                                  \/ q[Len(q)].src = t /\ q[Len(q)].res
<1> DEFINE r == SubSeq(q, 1, Len(q) - 1)
           n == Len(q)
<1>1. /\ n \in DOMAIN q /\ DOMAIN r = DOMAIN q \ {n}
      /\ \A i \in DOMAIN q \ {n} : r[i] = q[i]
  BY PopEvent
<1> HIDE DEF r, n
<1>2. OneEach(q) => OneEach(r)
  BY <1>1 DEF OneEach
<1>3. OneEach(q) /\ q[n].res =>
         \A i \in DOMAIN q \ {n} : q[i].res => q[i].src # q[n].src
  BY <1>1 DEF OneEach
<1>4. \A t : Has(q, t) => Has(r, t) \/ (q[n].src = t /\ q[n].res)
  BY <1>1 DEF Has
<1> QED BY <1>2, <1>3, <1>4 DEF r, n

(* Detaching takes away what the events of S answer.                       *)
LEMMA DetachAnswers ==
    ASSUME NEW q \in Seq(Event), NEW S
    PROVE  /\ OneEach(q) => OneEach(Detach(q, S))
           /\ \A t : Has(q, t) /\ t \notin S => Has(Detach(q, S), t)
<1> DEFINE r == Detach(q, S)
<1>1. /\ DOMAIN r = DOMAIN q
      /\ \A i \in DOMAIN q : r[i].src = q[i].src
      /\ \A i \in DOMAIN q : r[i].res <=> q[i].res /\ q[i].src \notin S
  BY DetachEvent
<1> HIDE DEF r
<1>2. OneEach(q) => OneEach(r)
  BY <1>1 DEF OneEach
<1>3. \A t : Has(q, t) /\ t \notin S => Has(r, t)
  BY <1>1 DEF Has
<1> QED BY <1>2, <1>3 DEF r

(* Events of one caller are in one thread.                                 *)
LEMMA AwaitedOnce ==
    ASSUME NEW g \in Handler, NEW h \in Handler, NEW e, NEW f,
           Awaited(g, e), Awaited(h, f), e.src = f.src
    PROVE  g = h
  BY DEF Awaited

(* An event is run: if it can set a result it goes on as a call.           *)
LEMMA ForwardProcIInv ==
    ASSUME IInv, NEW h \in Handler, ForwardProc(h)
    PROVE  IInv'
<1> USE DEF IInv, sourceVars, handlerVars, chanVars, history
<1> DEFINE e == Head(queue[h])
<1>1. /\ hpc[h] = "run" /\ queue[h] # <<>> /\ queue[h] \in Seq(Event)
      /\ queue'[h] = Tail(queue[h])
      /\ \A g \in Handler : g # h => queue'[g] = queue[g]
      /\ UNCHANGED <<pc, request, result, hpc, deleting, interps, dead, imap,
                     tmap, open, posts, late, freedUse>>
      /\ frames[h] \in Seq(Event)
  BY DEF ForwardProc, Running, TypeOK
<1>2. /\ e \in Event /\ e = queue[h][1] /\ 1 \in DOMAIN queue[h]
      /\ e.src \in Source /\ e.chan \in Chan
  <2>1. e \in Event /\ e = queue[h][1] /\ 1 \in DOMAIN queue[h]
    BY <1>1, TailEvent
  <2> QED BY <2>1 DEF Event
<1>3. \/ /\ e.res
         /\ frames' = [frames EXCEPT ![h] = Append(@, e)]
         /\ code' = [code EXCEPT ![e.src] = "ok"]
         /\ ran' = ran \cup {e.src}
      \/ ~e.res /\ UNCHANGED <<frames, code, ran>>
  BY DEF ForwardProc
<1>a. interest' \subseteq Chan
  BY <1>2 DEF ForwardProc, TypeOK
<1>b. queue' \in [Handler -> Seq(Event)]
  <2>1. Tail(queue[h]) \in Seq(Event)
    BY <1>1, TailEvent
  <2> QED BY <2>1 DEF ForwardProc, TypeOK
<1> HIDE DEF e
<1>c. frames' \in [Handler -> Seq(Event)]
  <2>1. Append(frames[h], e) \in Seq(Event)
    BY <1>1, <1>2, AppendEvent
  <2> QED BY <1>3, <2>1 DEF TypeOK
<1>4. TypeOK'
  BY <1>1, <1>2, <1>3, <1>a, <1>b, <1>c DEF TypeOK
<1>5. e.res => Awaited(h, e) /\ e.src \notin ran
  BY <1>1, <1>2 DEF EventInv, QueueInv
<1>6. CallInv'
  BY <1>1, <1>2, <1>3, <1>5 DEF CallInv, Unanswered, Awaited, TypeOK
<1>7. /\ \A t \in Source : Unanswered(t) <=> Unanswered(t)'
      /\ \A g \in Handler, f \in Event : Awaited(g, f) <=> Awaited(g, f)'
  BY <1>1 DEF Awaited, Unanswered
<1>8. /\ \A t \in Source : Has(queue[h], t) => Has(queue'[h], t) \/ Has(frames'[h], t)
      /\ \A t \in Source : Has(frames[h], t) => Has(frames'[h], t)
  <2>1. CASE e.res
    <3>1. frames'[h] = Append(frames[h], e)
      BY <1>1, <1>3, <2>1 DEF TypeOK
    <3>2. \A t : Has(frames[h], t) \/ (e.src = t /\ e.res) => Has(frames'[h], t)
      BY <1>1, <1>2, <3>1, AppendAnswers
    <3>3. \A t : Has(queue[h], t) => Has(queue'[h], t) \/ (e.src = t /\ e.res)
      BY <1>1, TailAnswers DEF e
    <3> QED BY <3>2, <3>3
  <2>2. CASE ~e.res
    BY <1>1, <1>3, <2>2, TailAnswers DEF e
  <2> QED BY <2>1, <2>2
<1>9. \A g \in Handler : g # h => queue'[g] = queue[g] /\ frames'[g] = frames[g]
  BY <1>1, <1>3 DEF TypeOK
<1>d. e.res =>
         /\ DOMAIN frames'[h] = DOMAIN frames[h] \cup {Len(frames[h]) + 1}
         /\ frames'[h][Len(frames[h]) + 1] = e
         /\ \A i \in DOMAIN frames[h] : frames'[h][i] = frames[h][i]
  <2>1. e.res => frames'[h] = Append(frames[h], e)
    BY <1>1, <1>3 DEF TypeOK
  <2> QED BY <1>1, <1>2, <2>1, AppendEvent
<1>10. WaitInv'
  <2> SUFFICES ASSUME NEW t \in Source, Unanswered(t)
      PROVE  LET g == Home(request[t].chan) IN
             \/ t \in late /\ g \notin Transform /\ Gone(g)
             \/ /\ t \notin late
                /\ Has(queue'[g], t) \/ Has(frames'[g], t)
                /\ \/ hpc[g] \in {"run", "interp"}
                   \/ g \in Transform /\ hpc[g] = "thread"
    BY <1>1, <1>7 DEF WaitInv, Gone
  <2> DEFINE g == Home(request[t].chan)
  <2>1. g \in Handler
    BY Places DEF CallInv, Unanswered, Request
  <2>2. \/ t \in late /\ g \notin Transform /\ Gone(g)
        \/ /\ t \notin late
           /\ Has(queue[g], t) \/ Has(frames[g], t)
           /\ \/ hpc[g] \in {"run", "interp"}
              \/ g \in Transform /\ hpc[g] = "thread"
    BY DEF WaitInv
  <2> HIDE DEF g
  <2>3. Has(queue[g], t) \/ Has(frames[g], t) => Has(queue'[g], t) \/ Has(frames'[g], t)
    BY <1>8, <1>9, <2>1
  <2> QED BY <2>2, <2>3 DEF g
<1>11. ASSUME NEW g \in Handler, NEW f \in Event, f.res,
              \E i \in DOMAIN queue'[g] : queue'[g][i] = f
       PROVE  Awaited(g, f)' /\ f.src \notin ran'
  <2>1. PICK j \in DOMAIN queue[g] :
           queue[g][j] = f /\ (g = h /\ e.res => f.src # e.src)
    <3>1. CASE g = h
      <4>1. PICK i \in DOMAIN Tail(queue[h]) : Tail(queue[h])[i] = f
        BY <1>1, <1>11, <3>1
      <4>2. i + 1 \in DOMAIN queue[h] /\ queue[h][i + 1] = f
        BY <1>1, <4>1, TailEvent
      <4>3. e.res => f.src # e.src
        <5>1. OneEach(queue[h])
          BY DEF EventInv
        <5> QED BY <1>1, <1>11, <4>1, <5>1, TailAnswers DEF e
      <4> QED BY <3>1, <4>2, <4>3
    <3>2. CASE g # h
      BY <1>1, <1>11, <3>2
    <3> QED BY <3>1, <3>2
  <2>2. Awaited(g, f) /\ f.src \notin ran
    BY <1>11, <2>1 DEF EventInv, QueueInv
  <2>3. e.res => f.src # e.src
    BY <1>2, <1>5, <2>1, <2>2, AwaitedOnce
  <2> QED BY <1>3, <1>7, <2>2, <2>3
<1>12. ASSUME NEW g \in Handler, NEW f \in Event, f.res,
              \E i \in DOMAIN frames'[g] : frames'[g][i] = f
       PROVE  Awaited(g, f)' /\ f.src \in ran' /\ code'[f.src] = "ok"
  <2>1. \/ g = h /\ e.res /\ f = e
        \/ \E i \in DOMAIN frames[g] : frames[g][i] = f
    BY <1>3, <1>9, <1>12, <1>d
  <2>2. CASE g = h /\ e.res /\ f = e
    BY <1>2, <1>3, <1>5, <1>7, <2>2 DEF TypeOK
  <2>3. CASE \E i \in DOMAIN frames[g] : frames[g][i] = f
    <3>1. Awaited(g, f) /\ f.src \in ran /\ code[f.src] = "ok" /\ f.src \in Source
      BY <1>12, <2>3 DEF EventInv, FramesInv, Event
    <3> QED BY <1>2, <1>3, <1>5, <1>7, <3>1 DEF TypeOK
  <2> QED BY <2>1, <2>2, <2>3
<1>13. EventInv'
  <2> SUFFICES ASSUME NEW g \in Handler
      PROVE  /\ QueueInv(g)' /\ FramesInv(g)'
             /\ OneEach(queue'[g]) /\ OneEach(frames'[g])
             /\ hpc'[g] \in {"run", "interp"} => CutInv(g)'
    BY DEF EventInv, OneEach
  <2>1. QueueInv(g)' /\ FramesInv(g)'
    BY <1>11, <1>12, <1>b, <1>c, QueueStep, FramesStep
  <2>2. /\ OneEach(queue[g]) /\ OneEach(frames[g]) /\ FramesInv(g)
        /\ hpc[g] \in {"run", "interp"} => CutInv(g)
    BY DEF EventInv
  <2>3. OneEach(queue'[g])
    BY <1>1, <2>2, TailAnswers
  <2>4. OneEach(frames'[g])
    <3>1. CASE g = h /\ e.res
      <4>1. \A i \in DOMAIN frames[h] : frames[h][i].res => frames[h][i].src # e.src
        BY <1>5, <2>2, <3>1 DEF FramesInv
      <4>2. frames'[h] = Append(frames[h], e)
        BY <1>1, <1>3, <3>1 DEF TypeOK
      <4> QED BY <1>1, <1>2, <2>2, <3>1, <4>1, <4>2, AppendAnswers
    <3>2. CASE ~(g = h /\ e.res)
      BY <1>3, <1>9, <2>2, <3>2
    <3> QED BY <3>1, <3>2
  <2>5. ASSUME hpc'[g] \in {"run", "interp"}
        PROVE  CutInv(g)'
    <3>1. \A f \in Event : Cut(f) => Cut(f)'
      BY <1>1 DEF Cut, Unanswered
    <3>2. CutInv(g) /\ frames[g] \in Seq(Event) /\ frames'[g] \in Seq(Event)
      BY <1>1, <1>c, <2>2, <2>5 DEF TypeOK
    <3>3. ASSUME NEW f \in Event, \E i \in DOMAIN frames'[g] : frames'[g][i] = f
          PROVE  f.res \/ Cut(f)'
      <4>1. \/ g = h /\ e.res /\ f = e
            \/ \E i \in DOMAIN frames[g] : frames[g][i] = f
        BY <1>3, <1>9, <1>d, <3>3
      <4> QED BY <3>1, <3>2, <4>1 DEF CutInv
    <3> QED BY <3>2, <3>3, CutStep
  <2> QED BY <2>1, <2>3, <2>4, <2>5
<1>14. DeadInv'
  BY <1>1, <1>9 DEF DeadInv, Finished, Closing, Gone
<1>15. PostInv'
  BY <1>1 DEF PostInv, Gone
<1> QED BY <1>4, <1>6, <1>10, <1>13, <1>14, <1>15

(* A method returns to its caller, which is still there: no freed memory   *)
(* is used.  The caller has an answer already if the interpreter is gone;  *)
(* a channel that the method closed leaves the maps.                       *)
LEMMA ForwardProcReturnsIInv ==
    ASSUME IInv, NEW h \in Handler, ForwardProcReturns(h), ~freedUse'
    PROVE  IInv'
<1> USE DEF IInv, sourceVars, handlerVars, chanVars, history
<1> DEFINE n == Len(frames[h])
<1>1. /\ hpc[h] = "run" /\ frames[h] # <<>> /\ frames[h] \in Seq(Event)
      /\ UNCHANGED <<pc, request, code, queue, hpc, deleting, interps, open,
                     interest, posts, ran, late>>
      /\ frames' = [frames EXCEPT ![h] = SubSeq(@, 1, n - 1)]
  BY DEF ForwardProcReturns, Pop, TypeOK
<1>2. PICK e \in Event : e = frames[h][n] /\ e = Top(h) /\ n \in DOMAIN frames[h]
  BY <1>1, PopEvent DEF Top
<1> DEFINE s == e.src
           c == e.chan
<1>3. s \in Source /\ c \in Chan
  BY <1>2 DEF Event
<1>a. StillWaits(e) /\ (e.op = "close" => HomeOf[c] \in interps) /\ ~freedUse
  BY <1>2 DEF ForwardProcReturns, TypeOK
<1>4. /\ result' = [result EXCEPT ![s].result = "ok"]
      /\ \/ /\ e.op = "close" /\ imap' = imap \ {c} /\ tmap' = tmap \ {c}
            /\ dead' = IF h \in Transform THEN dead ELSE dead \cup {c}
         \/ e.op # "close" /\ UNCHANGED <<imap, tmap, dead>>
  BY <1>2, <1>a DEF ForwardProcReturns
<1>5. frames' \in [Handler -> Seq(Event)]
  <2>1. SubSeq(frames[h], 1, n - 1) \in Seq(Event)
    BY <1>1, PopEvent
  <2> QED BY <1>1, <2>1 DEF TypeOK
<1>6. /\ frames'[h] = SubSeq(frames[h], 1, n - 1)
      /\ DOMAIN frames'[h] = DOMAIN frames[h] \ {n}
      /\ \A i \in DOMAIN frames'[h] : frames'[h][i] = frames[h][i]
      /\ \A g \in Handler : g # h => frames'[g] = frames[g]
  <2>1. frames'[h] = SubSeq(frames[h], 1, n - 1)
    BY <1>1 DEF TypeOK
  <2>2. \A g \in Handler : g # h => frames'[g] = frames[g]
    BY <1>1 DEF TypeOK
  <2> QED BY <1>1, <2>1, <2>2, PopEvent
<1> HIDE DEF n
<1>7. /\ pc[s] = "wait" /\ request[s].chan = c /\ request[s].op = e.op
      /\ OwnerOf[c] = s /\ c \in open
  <2>1. pc[s] = "wait" /\ request[s] = [chan |-> c, op |-> e.op]
    BY <1>a DEF StillWaits
  <2> QED BY <1>3, <2>1 DEF CallInv
<1>8. /\ Unanswered(s) => e.res
      /\ e.op = "close" => e.res
      /\ e.res => Awaited(h, e) /\ s \in ran /\ code[s] = "ok"
  <2>1. e.res \/ Cut(e)
    BY <1>1, <1>2 DEF EventInv, CutInv
  <2>2. e.res => Awaited(h, e) /\ s \in ran /\ code[s] = "ok"
    BY <1>1, <1>2 DEF EventInv, FramesInv
  <2> QED BY <1>7, <1>a, <2>1, <2>2 DEF Cut
<1>9. e.op = "close" => Home(c) = h
  BY <1>8 DEF Awaited
<1>10. result[s] # None /\ result[s] \in Result
  <2>1. result[s] # None
    BY <1>3, <1>7 DEF CallInv
  <2> QED BY <1>3, <2>1 DEF TypeOK, Result
<1>11. /\ result'[s] \in Result /\ result'[s].result = "ok"
       /\ \A t \in Source : t # s => result'[t] = result[t]
       /\ result' \in [Source -> Result \cup {None}]
  <2>1. result' = [result EXCEPT ![s] = [result[s] EXCEPT !.result = "ok"]]
    BY <1>4
  <2>2. /\ [result[s] EXCEPT !.result = "ok"] \in Result
        /\ [result[s] EXCEPT !.result = "ok"].result = "ok"
    BY <1>10 DEF Result
  <2>3. result \in [Source -> Result \cup {None}]
    BY DEF TypeOK, Result
  <2> QED BY <1>3, <2>1, <2>2, <2>3
<1>12. result'[s] # None
  BY <1>11, NoneIsNoResult
<1>t. TypeOK'
  <2>1. freedUse' \in BOOLEAN
    BY DEF ForwardProcReturns, TypeOK
  <2>2. imap' \subseteq Chan /\ tmap' \subseteq Chan /\ dead' \subseteq Chan
    BY <1>3, <1>4 DEF TypeOK
  <2> QED BY <1>1, <1>5, <1>11, <2>1, <2>2 DEF TypeOK, Result
<1>b. CallInv'
  <2> SUFFICES ASSUME NEW t \in Source
      PROVE  /\ result'[t] # None <=> pc[t] = "wait"
             /\ pc[t] \in {"wait", "closing"} =>
                   /\ request[t] \in Request
                   /\ request[t].chan \in open /\ OwnerOf[request[t].chan] = t
                   /\ request[t].op = "drain" => request[t].chan \in Transforms
             /\ t \in ran => pc[t] = "wait"
             /\ pc[t] = "wait" /\ code[t] = "ok" => t \in ran
             /\ pc[t] = "wait" /\ result'[t].result # "none" => code[t] # "none"
             /\ Unanswered(t)' => result'[t].evPtr
    BY <1>1 DEF CallInv, Unanswered
  <2>1. ~Unanswered(s)'
    BY <1>11 DEF Unanswered
  <2>2. code[s] # "none"
    BY <1>3, <1>7, <1>8 DEF CallInv, Unanswered
  <2>3. CASE t = s
    BY <1>7, <1>12, <2>1, <2>2, <2>3 DEF CallInv
  <2>4. CASE t # s
    BY <1>1, <1>11, <2>4 DEF CallInv, Unanswered
  <2> QED BY <2>3, <2>4
<1>13. /\ ~Unanswered(s)'
       /\ \A t \in Source : t # s => (Unanswered(t) <=> Unanswered(t)')
  BY <1>1, <1>11 DEF Unanswered
<1>14. \A g \in Handler, f \in Event :
          Awaited(g, f) /\ f.src # s => Awaited(g, f)'
  BY <1>1, <1>13 DEF Awaited, Event
<1>15. ASSUME NEW g \in Handler, NEW f \in Event, f.res,
              \E i \in DOMAIN queue'[g] : queue'[g][i] = f
       PROVE  Awaited(g, f)' /\ f.src \notin ran'
  <2>1. Awaited(g, f) /\ f.src \notin ran
    BY <1>1, <1>15 DEF EventInv, QueueInv
  <2>2. f.src # s
    BY <1>8, <2>1 DEF Awaited
  <2> QED BY <1>1, <1>14, <2>1, <2>2
<1>16. ASSUME NEW g \in Handler, NEW f \in Event, f.res,
              \E i \in DOMAIN frames'[g] : frames'[g][i] = f
       PROVE  Awaited(g, f)' /\ f.src \in ran' /\ code'[f.src] = "ok"
  <2>1. PICK i \in DOMAIN frames[g] : frames[g][i] = f /\ (g = h => i # n)
    BY <1>6, <1>16
  <2>2. Awaited(g, f) /\ f.src \in ran /\ code[f.src] = "ok"
    BY <1>16, <2>1 DEF EventInv, FramesInv
  <2>3. f.src # s
    <3> SUFFICES ASSUME Unanswered(s)
        PROVE  f.src # s
      BY <2>2 DEF Awaited
    <3>1. CASE g = h
      <4>1. OneEach(frames[h])
        BY DEF EventInv
      <4> QED BY <1>2, <1>8, <1>16, <2>1, <3>1, <4>1 DEF OneEach
    <3>2. CASE g # h
      BY <1>8, <2>2, <3>2, AwaitedOnce
    <3> QED BY <3>1, <3>2
  <2> QED BY <1>1, <1>14, <2>2, <2>3
<1>c. EventInv'
  <2> SUFFICES ASSUME NEW g \in Handler
      PROVE  /\ QueueInv(g)' /\ FramesInv(g)'
             /\ OneEach(queue'[g]) /\ OneEach(frames'[g])
             /\ hpc'[g] \in {"run", "interp"} => CutInv(g)'
    BY DEF EventInv, OneEach
  <2>1. QueueInv(g)' /\ FramesInv(g)'
    <3>1. queue'[g] \in Seq(Event) /\ frames'[g] \in Seq(Event)
      BY <1>t DEF TypeOK
    <3> QED BY <1>15, <1>16, <3>1, QueueStep, FramesStep
  <2>2. /\ OneEach(queue[g]) /\ OneEach(frames[g])
        /\ hpc[g] \in {"run", "interp"} => CutInv(g)
    BY DEF EventInv
  <2>3. OneEach(frames'[g])
    <3>1. OneEach(frames'[h])
      BY <1>1, <1>6, <2>2, PopAnswers DEF EventInv, n
    <3> QED BY <1>6, <2>2, <3>1
  <2>4. ASSUME hpc'[g] \in {"run", "interp"}
        PROVE  CutInv(g)'
    <3>1. \A f \in Event : Cut(f) => Cut(f)'
      BY <1>1, <1>13 DEF Cut, Event
    <3>2. CutInv(g) /\ frames'[g] \in Seq(Event)
      BY <1>1, <1>5, <2>2, <2>4
    <3>3. ASSUME NEW f \in Event, \E i \in DOMAIN frames'[g] : frames'[g][i] = f
          PROVE  f.res \/ Cut(f)'
      <4>1. \E i \in DOMAIN frames[g] : frames[g][i] = f
        BY <1>6, <3>3
      <4> QED BY <3>1, <3>2, <4>1 DEF CutInv
    <3> QED BY <3>2, <3>3, CutStep
  <2> QED BY <1>1, <1>6, <2>1, <2>2, <2>3, <2>4
<1>d. WaitInv'
  <2> SUFFICES ASSUME NEW t \in Source, t # s, Unanswered(t)
      PROVE  LET g == Home(request[t].chan) IN
             \/ t \in late /\ g \notin Transform /\ Gone(g)
             \/ /\ t \notin late
                /\ Has(queue[g], t) \/ Has(frames'[g], t)
                /\ \/ hpc[g] \in {"run", "interp"}
                   \/ g \in Transform /\ hpc[g] = "thread"
    BY <1>1, <1>13 DEF WaitInv, Gone
  <2> DEFINE g == Home(request[t].chan)
  <2>1. g \in Handler
    BY Places DEF CallInv, Unanswered, Request
  <2>2. \/ t \in late /\ g \notin Transform /\ Gone(g)
        \/ /\ t \notin late
           /\ Has(queue[g], t) \/ Has(frames[g], t)
           /\ \/ hpc[g] \in {"run", "interp"}
              \/ g \in Transform /\ hpc[g] = "thread"
    BY DEF WaitInv
  <2> HIDE DEF g
  <2>3. Has(frames[g], t) => Has(frames'[g], t)
    <3>1. CASE g = h
      <4>1. Has(frames[h], t) => Has(frames'[h], t) \/ frames[h][n].src = t
        BY <1>1, <1>6, PopAnswers DEF n
      <4> QED BY <1>2, <3>1, <4>1
    <3>2. CASE g # h
      BY <1>6, <2>1, <3>2
    <3> QED BY <3>1, <3>2
  <2> QED BY <2>2, <2>3 DEF g
<1>17. e.op = "close" => (c \in Transforms <=> h \in Transform)
  BY <1>3, <1>9, Places
<1>18. ASSUME NEW d \in Chan
       PROVE  /\ Finished(d) => Finished(d)'
              /\ d = c /\ e.op = "close" => Finished(d)'
  <2>1. Closing(d) <=> Closing(d)'
    BY <1>1 DEF Closing
  <2>2. e.op = "close" => Closing(c)
    BY <1>7 DEF Closing
  <2> QED BY <1>1, <1>4, <1>17, <2>1, <2>2 DEF Finished
<1>e. DeadInv'
  BY <1>1, <1>4, <1>17, <1>18 DEF DeadInv, Gone
<1>f. PostInv'
  <2>1. imap' \subseteq imap /\ (e.op = "close" => c \notin imap')
    BY <1>4
  <2>2. ASSUME NEW d \in Chan \ Transforms,
               request[s].op = "close", request[s].chan = d
        PROVE  d \notin imap'
    BY <1>7, <2>1, <2>2
  <2>3. ASSUME NEW d \in Chan \ Transforms,
               \/ d \notin open
               \/ LET t == OwnerOf[d] IN
                  /\ \/ pc[t] = "closing"
                     \/ /\ pc[t] = "wait" /\ request[t].op = "close"
                        /\ result'[t].result # "none"
                  /\ request[t].chan = d
        PROVE  d \notin imap' \/ Gone(Home(d))
    <3>1. OwnerOf[d] \in Source
      BY Places
    <3>2. CASE d \notin open
      BY <2>1, <3>2 DEF PostInv
    <3>3. CASE d \in open /\ OwnerOf[d] = s
      BY <1>7, <2>2, <2>3, <3>3
    <3>4. CASE d \in open /\ OwnerOf[d] # s
      BY <1>11, <2>1, <2>3, <3>1, <3>4 DEF PostInv
    <3> QED BY <3>2, <3>3, <3>4
  <2>4. \A d \in Chan \ Transforms : d \notin open => posts[d] = 0
    BY DEF PostInv
  <2> QED BY <1>1, <2>3, <2>4 DEF PostInv, Gone
<1> QED BY <1>t, <1>b, <1>c, <1>d, <1>e, <1>f

(* The channels of a deleted interpreter are dead before the results of    *)
(* operations on them are cancelled.                                       *)
LEMMA DeleteReflectedChannelMapIInv ==
    ASSUME IInv, NEW h \in Handler, NEW i \in Interp,
           DeleteReflectedChannelMap(h, i)
    PROVE  IInv'
<1> USE DEF IInv, sourceVars, handlerVars, chanVars, history
<1> DEFINE C == imap \cap ChansOf(i)
<1>1. /\ hpc[h] = "run" /\ i \in interps /\ ThreadOf[i] = h
      /\ interps' = interps \ {i} /\ dead' = dead \cup C /\ imap' = imap \ C
      /\ tmap' = tmap \ ChansOf(i)
      /\ hpc' = [hpc EXCEPT ![h] = "interp"]
      /\ deleting' = [deleting EXCEPT ![h] = i]
      /\ UNCHANGED <<pc, request, code, result, queue, frames, open, interest,
                     posts, ran, late, freedUse>>
  BY DEF DeleteReflectedChannelMap
<1>2. TypeOK'
  BY <1>1 DEF TypeOK, ChansOf
<1>3. /\ \A t \in Source : Unanswered(t) <=> Unanswered(t)'
      /\ \A g \in Handler, f \in Event : Awaited(g, f) <=> Awaited(g, f)'
  BY <1>1 DEF Awaited, Unanswered
<1>4. CallInv'
  BY <1>1, <1>3 DEF CallInv
<1>5. /\ hpc'[h] = "interp" /\ deleting'[h] = i
      /\ \A g \in Handler : g # h => hpc'[g] = hpc[g] /\ deleting'[g] = deleting[g]
  BY <1>1 DEF TypeOK
<1>6. EventInv'
  <2>1. ASSUME NEW g \in Handler
        PROVE  QueueInv(g)' /\ FramesInv(g)'
    BY <1>1 DEF EventInv, QueueInv, FramesInv, Awaited, Unanswered
  <2>2. \A f \in Event : Cut(f) => Cut(f)'
    BY <1>1 DEF Cut, Unanswered
  <2>3. ASSUME NEW g \in Handler, CutInv(g)
        PROVE  CutInv(g)'
    <3>1. frames[g] \in Seq(Event) /\ frames'[g] = frames[g]
      BY <1>1 DEF TypeOK
    <3> QED BY <2>2, <2>3, <3>1, CutKept
  <2> QED BY <1>1, <1>5, <2>1, <2>3 DEF EventInv
<1>7. WaitInv'
  BY <1>1, <1>3, <1>5 DEF WaitInv, Gone
<1>8. ASSUME NEW d \in Chan
      PROVE  (Finished(d) => Finished(d)') /\ (d \in C => Finished(d)')
  BY <1>1 DEF Finished, Closing
<1>9. DeadInv'
  <2>1. \A d \in Chan : d \in ChansOf(i) <=> HomeOf[d] = i
    BY DEF ChansOf
  <2>2. \A d \in Chan :
           /\ HomeOf[d] \notin interps' => d \notin imap'
           /\ d \notin imap' \/ d \notin tmap' => Finished(d)'
           /\ \/ hpc'[Home(d)] = "exited"
              \/ Home(d) \in Transform /\ hpc'[Home(d)] = "thread"
              => Finished(d)'
           /\ d \in dead' /\ d \notin Transforms => d \notin imap' \/ Gone(Home(d))'
    BY <1>1, <1>5, <1>8, <2>1, Places DEF DeadInv, Gone
  <2>3. \A g \in Handler : hpc'[g] = "interp" =>
           deleting'[g] \in Interp \ interps' /\ ThreadOf[deleting'[g]] = g
    BY <1>1, <1>5 DEF DeadInv
  <2> QED BY <1>1, <2>2, <2>3 DEF DeadInv, Gone
<1>10. PostInv'
  <2>1. \A d \in Chan : Gone(Home(d)) <=> Gone(Home(d))'
    BY <1>1, <1>5, Places DEF Gone
  <2> QED BY <1>1, <2>1 DEF PostInv
<1> QED BY <1>2, <1>4, <1>6, <1>7, <1>9, <1>10
-----------------------------------------------------------------------------
(* Cancelling: callers of operations on C that have no answer get one, and *)
(* "ok" is never made up.                                                  *)
LEMMA CancelledCalls ==
    ASSUME IInv, NEW C, \A c \in C : Home(c) \in Transform \/ ~Gone(Home(c)),
           CancelResults(C), UNCHANGED <<pc, request, open, ran>>
    PROVE  /\ CallInv'
           /\ result' \in [Source -> Result \cup {None}]
           /\ code' \in [Source -> {"none", "ok", "lost"}]
           /\ \A s \in Source : Unanswered(s)' <=> Unanswered(s) /\ s \notin Pending(C)
           /\ \A s \in Source : Unanswered(s) /\ request[s].chan \in C => s \in Pending(C)
           /\ \A s \in Pending(C) : s \in Source /\ request[s].chan \in C
           /\ \A s \in Source : s \notin Pending(C) =>
                 result'[s] = result[s] /\ code'[s] = code[s]
<1> USE DEF IInv
<1> DEFINE S == Pending(C)
           lost == [result |-> "error", evPtr |-> FALSE]
<1>1. PICK T \in SUBSET S :
         /\ result' = [s \in Source |-> IF s \in S THEN lost ELSE result[s]]
         /\ \A s \in S : HasEvent(s) => s \in T
         /\ code' = [s \in Source |-> IF s \in T THEN "lost" ELSE code[s]]
  BY DEF CancelResults
<1>2. \A s \in S : /\ s \in Source /\ result[s] # None /\ request[s].chan \in C
                   /\ pc[s] = "wait"
  BY DEF Pending, CallInv
<1>3. lost \in Result /\ lost.result = "error" /\ ~lost.evPtr /\ lost # None
  <2>1. lost \in Result /\ lost.result = "error" /\ ~lost.evPtr
    BY DEF Result
  <2> QED BY <2>1, NoneIsNoResult
<1>4. \A s \in Source : Unanswered(s) /\ request[s].chan \in C => s \in S
  BY DEF Pending, Unanswered, CallInv
<1> HIDE DEF S, lost
<1>5. \A s \in S : code'[s] # "none" /\ (code'[s] = "ok" => code[s] = "ok")
  <2> SUFFICES ASSUME NEW s \in S
      PROVE  code'[s] # "none" /\ (code'[s] = "ok" => code[s] = "ok")
    OBVIOUS
  <2>1. s \in Source /\ pc[s] = "wait"
    BY <1>2
  <2>2. CASE result[s].result = "none"
    <3>1. LET h == Home(request[s].chan) IN
          h \in Handler /\ (Has(queue[h], s) \/ Has(frames[h], s))
      BY <1>2, <2>1, <2>2, Places DEF WaitInv, Unanswered, CallInv, Request
    <3>2. HasEvent(s)
      BY <3>1 DEF HasEvent, Has
    <3> QED BY <1>1, <2>1, <3>2
  <2>3. CASE result[s].result # "none"
    BY <1>1, <2>1, <2>3 DEF CallInv
  <2> QED BY <2>2, <2>3
<1>6. /\ \A s \in S : result'[s] = lost
      /\ \A s \in Source : s \notin S => result'[s] = result[s] /\ code'[s] = code[s]
  BY <1>1, <1>2
<1>7. \A s \in Source : Unanswered(s)' <=> Unanswered(s) /\ s \notin S
  BY <1>2, <1>3, <1>6 DEF Unanswered
<1>8. CallInv'
  <2> SUFFICES ASSUME NEW s \in Source
      PROVE  /\ result'[s] # None <=> pc[s] = "wait"
             /\ pc[s] \in {"wait", "closing"} =>
                   /\ request[s] \in Request
                   /\ request[s].chan \in open /\ OwnerOf[request[s].chan] = s
                   /\ request[s].op = "drain" => request[s].chan \in Transforms
             /\ s \in ran => pc[s] = "wait"
             /\ pc[s] = "wait" /\ code'[s] = "ok" => s \in ran
             /\ pc[s] = "wait" /\ result'[s].result # "none" => code'[s] # "none"
             /\ Unanswered(s)' => result'[s].evPtr
    BY DEF CallInv, Unanswered
  <2>1. CASE s \in S
    BY <1>2, <1>3, <1>5, <1>6, <1>7, <2>1 DEF CallInv
  <2>2. CASE s \notin S
    BY <1>6, <1>7, <2>2 DEF CallInv
  <2> QED BY <2>1, <2>2
<1>9. result' \in [Source -> Result \cup {None}] /\ code' \in [Source -> {"none", "ok", "lost"}]
  <2>1. /\ result \in [Source -> Result \cup {None}]
        /\ code \in [Source -> {"none", "ok", "lost"}]
    BY DEF TypeOK, Result
  <2> QED BY <1>1, <1>3, <2>1
<1> QED BY <1>2, <1>4, <1>6, <1>7, <1>8, <1>9 DEF S

(* Cancelling under the lock, for channels of one thread: the events that  *)
(* can still set a result are those of the callers that still wait.        *)
LEMMA CancelledEvents ==
    ASSUME IInv, NEW h \in Handler, ~Gone(h), NEW C, \A c \in C : Home(c) = h,
           Cancel(h, C), UNCHANGED <<pc, request, open, ran>>
    PROVE  /\ queue' \in [Handler -> Seq(Event)] /\ frames' \in [Handler -> Seq(Event)]
           /\ \A g \in Handler : /\ QueueInv(g)' /\ FramesInv(g)'
                                 /\ OneEach(queue'[g]) /\ OneEach(frames'[g])
           /\ \A s \in Source : Unanswered(s)' /\ s \notin late =>
                 LET g == Home(request[s].chan) IN
                 Has(queue'[g], s) \/ Has(frames'[g], s)
           /\ \A f \in Event : Cut(f) /\ UNCHANGED interps => Cut(f)'
           /\ \A g \in Handler : g # h => frames'[g] = frames[g]
           /\ frames'[h] = Detach(frames[h], Pending(C))
<1> USE DEF IInv
<1> DEFINE S == Pending(C)
<1>1. /\ CancelResults(C)
      /\ queue' = [queue EXCEPT ![h] = Detach(@, S)]
      /\ frames' = [frames EXCEPT ![h] = Detach(@, S)]
  BY DEF Cancel
<1>2. /\ queue[h] \in Seq(Event) /\ frames[h] \in Seq(Event)
      /\ queue \in [Handler -> Seq(Event)] /\ frames \in [Handler -> Seq(Event)]
  BY DEF TypeOK
<1>3. /\ \A s \in Source : Unanswered(s)' <=> Unanswered(s) /\ s \notin S
      /\ \A s \in S : s \in Source /\ request[s].chan \in C
      /\ \A s \in Source : s \notin S => code'[s] = code[s]
  BY <1>1, CancelledCalls
<1> HIDE DEF S
<1>4. Detach(queue[h], S) \in Seq(Event) /\ Detach(frames[h], S) \in Seq(Event)
  BY <1>2, DetachEvent
<1>5. /\ queue'[h] = Detach(queue[h], S) /\ frames'[h] = Detach(frames[h], S)
      /\ \A g \in Handler : g # h => queue'[g] = queue[g] /\ frames'[g] = frames[g]
      /\ queue' \in [Handler -> Seq(Event)] /\ frames' \in [Handler -> Seq(Event)]
  BY <1>1, <1>2, <1>4
<1>6. ASSUME NEW g \in Handler, NEW f \in Event, Awaited(g, f), g = h => f.src \notin S
      PROVE  Awaited(g, f)' /\ code'[f.src] = code[f.src]
  <2>1. f.src \notin S
    BY <1>3, <1>6 DEF Awaited
  <2> QED BY <1>3, <1>6, <2>1 DEF Awaited, Event
<1>7. ASSUME NEW q \in Seq(Event), NEW f \in Event, f.res,
             \E i \in DOMAIN Detach(q, S) : Detach(q, S)[i] = f
      PROVE  \E i \in DOMAIN q : /\ q[i].src = f.src /\ q[i].chan = f.chan
                                 /\ q[i].op = f.op /\ q[i].res /\ f.src \notin S
  BY <1>7, DetachEvent
<1>8. ASSUME NEW g \in Handler
      PROVE  QueueInv(g)' /\ FramesInv(g)'
  <2>1. QueueInv(g) /\ FramesInv(g) /\ queue[g] \in Seq(Event) /\ frames[g] \in Seq(Event)
    BY <1>2 DEF EventInv
  <2>2. ASSUME NEW f \in Event, f.res, \E i \in DOMAIN queue'[g] : queue'[g][i] = f
        PROVE  Awaited(g, f) /\ f.src \notin ran /\ (g = h => f.src \notin S)
    <3>1. CASE g = h
      <4>1. PICK i \in DOMAIN queue[h] :
               /\ queue[h][i].src = f.src /\ queue[h][i].chan = f.chan
               /\ queue[h][i].op = f.op /\ queue[h][i].res /\ f.src \notin S
        <5>1. \E i \in DOMAIN Detach(queue[h], S) : Detach(queue[h], S)[i] = f
          BY <1>5, <2>2, <3>1
        <5> QED BY <1>2, <1>7, <2>2, <5>1
      <4> QED BY <2>1, <3>1, <4>1 DEF QueueInv, Awaited
    <3>2. CASE g # h
      BY <1>5, <2>1, <2>2, <3>2 DEF QueueInv
    <3> QED BY <3>1, <3>2
  <2>3. ASSUME NEW f \in Event, f.res, \E i \in DOMAIN frames'[g] : frames'[g][i] = f
        PROVE  /\ Awaited(g, f) /\ f.src \in ran /\ code[f.src] = "ok"
               /\ g = h => f.src \notin S
    <3>1. CASE g = h
      <4>1. PICK i \in DOMAIN frames[h] :
               /\ frames[h][i].src = f.src /\ frames[h][i].chan = f.chan
               /\ frames[h][i].op = f.op /\ frames[h][i].res /\ f.src \notin S
        <5>1. \E i \in DOMAIN Detach(frames[h], S) : Detach(frames[h], S)[i] = f
          BY <1>5, <2>3, <3>1
        <5> QED BY <1>2, <1>7, <2>3, <5>1
      <4> QED BY <2>1, <3>1, <4>1 DEF FramesInv, Awaited
    <3>2. CASE g # h
      BY <1>5, <2>1, <2>3, <3>2 DEF FramesInv
    <3> QED BY <3>1, <3>2
  <2>4. queue'[g] \in Seq(Event) /\ frames'[g] \in Seq(Event)
    BY <1>5
  <2>5. QueueInv(g)'
    BY <1>6, <2>2, <2>4, QueueStep
  <2>6. FramesInv(g)'
    BY <1>6, <2>3, <2>4, FramesStep
  <2> QED BY <2>5, <2>6
<1>9. ASSUME NEW g \in Handler
      PROVE  OneEach(queue'[g]) /\ OneEach(frames'[g])
  BY <1>2, <1>5, DetachAnswers DEF EventInv
<1>10. ASSUME NEW s \in Source, Unanswered(s)', s \notin late
       PROVE  LET g == Home(request[s].chan) IN
              Has(queue'[g], s) \/ Has(frames'[g], s)
  <2> DEFINE g == Home(request[s].chan)
  <2>1. Unanswered(s) /\ s \notin S
    BY <1>3, <1>10
  <2>2. g \in Handler /\ (Has(queue[g], s) \/ Has(frames[g], s))
    BY <1>10, <2>1, Places DEF WaitInv, Unanswered, CallInv, Request
  <2> HIDE DEF g
  <2>3. CASE g = h
    BY <1>2, <1>5, <2>1, <2>2, <2>3, DetachAnswers DEF g
  <2>4. CASE g # h
    BY <1>5, <2>2, <2>4 DEF g
  <2> QED BY <2>3, <2>4
<1>11. \A f \in Event : Cut(f) /\ UNCHANGED interps => Cut(f)'
  BY <1>3 DEF Cut, Event
<1> QED BY <1>5, <1>8, <1>9, <1>10, <1>11 DEF S

(* The rest of deleting an interpreter: operations on channels of other    *)
(* interpreters go on, and so do the methods that run for them; a method   *)
(* of the deleted interpreter is cut.                                      *)
LEMMA CancelInterpIInv ==
    ASSUME IInv, NEW h \in Handler, CancelInterp(h)
    PROVE  IInv'
<1> USE DEF IInv, sourceVars, handlerVars, chanVars, history
<1>1. PICK d \in Interp : d = deleting[h] /\ d \notin interps /\ ThreadOf[d] = h
  BY DEF CancelInterp, DeadInv
<1> DEFINE C == ChansOf(d)
           S == Pending(C)
<1>2. /\ hpc[h] = "interp" /\ Cancel(h, C)
      /\ hpc' = [hpc EXCEPT ![h] = "run"] /\ deleting' = [deleting EXCEPT ![h] = None]
      /\ UNCHANGED <<pc, request, interps, dead, imap, tmap, open, interest, posts, ran,
                     late, freedUse>>
  BY <1>1 DEF CancelInterp
<1>3. \A c \in C : c \in Chan /\ Home(c) = h /\ HomeOf[c] = d /\ c \notin imap
  BY <1>1, Places DEF ChansOf, DeadInv
<1>4. CancelResults(C) /\ ~Gone(h)
  BY <1>2 DEF Cancel, Gone
<1> HIDE DEF C
<1>5. /\ CallInv'
      /\ result' \in [Source -> Result \cup {None}]
      /\ code' \in [Source -> {"none", "ok", "lost"}]
      /\ \A s \in Source : Unanswered(s)' <=> Unanswered(s) /\ s \notin S
      /\ \A s \in Pending(C) : s \in Source /\ request[s].chan \in C
      /\ \A s \in Source : s \notin S => result'[s] = result[s]
  BY <1>2, <1>3, <1>4, CancelledCalls
<1>6. /\ queue' \in [Handler -> Seq(Event)] /\ frames' \in [Handler -> Seq(Event)]
      /\ \A g \in Handler : /\ QueueInv(g)' /\ FramesInv(g)'
                            /\ OneEach(queue'[g]) /\ OneEach(frames'[g])
      /\ \A s \in Source : Unanswered(s)' /\ s \notin late =>
            LET g == Home(request[s].chan) IN
            Has(queue'[g], s) \/ Has(frames'[g], s)
      /\ \A f \in Event : Cut(f) => Cut(f)'
      /\ \A g \in Handler : g # h => frames'[g] = frames[g]
      /\ frames'[h] = Detach(frames[h], S)
  BY <1>2, <1>3, <1>4, CancelledEvents
<1> HIDE DEF S
<1>7. /\ hpc'[h] = "run"
      /\ \A g \in Handler : g # h => hpc'[g] = hpc[g] /\ deleting'[g] = deleting[g]
      /\ hpc' \in [Handler -> {"run", "interp", "thread", "exited"}]
      /\ deleting' \in [Handler -> Interp \cup {None}]
  BY <1>2 DEF TypeOK
<1>8. TypeOK'
  BY <1>2, <1>5, <1>6, <1>7 DEF TypeOK, Result
<1>9. CutInv(h)'
  <2>1. frames[h] \in Seq(Event) /\ frames'[h] \in Seq(Event)
    BY <1>6 DEF TypeOK
  <2>2. /\ DOMAIN frames'[h] = DOMAIN frames[h]
        /\ \A i \in DOMAIN frames[h] :
              /\ frames'[h][i].src = frames[h][i].src
              /\ frames'[h][i].chan = frames[h][i].chan
              /\ frames'[h][i].res <=> frames[h][i].res /\ frames[h][i].src \notin S
    BY <1>6, <2>1, DetachEvent
  <2>3. ASSUME NEW i \in DOMAIN frames[h], ~frames'[h][i].res,
               NEW f, f = frames[h][i]
        PROVE  Cut(f)'
    <3>1. f \in Event
      BY <2>1, <2>3
    <3>2. CASE f.res
      <4>1. f.src \in S /\ Awaited(h, f) /\ f.src \in Source
        BY <2>2, <2>3, <3>1, <3>2 DEF EventInv, FramesInv, Event
      <4>2. HomeOf[f.chan] = d /\ ~Unanswered(f.src)'
        BY <1>3, <1>5, <4>1 DEF Awaited, S
      <4> QED BY <1>1, <1>2, <4>2 DEF Cut
    <3>3. CASE ~f.res
      <4>1. CutInv(h)
        BY <1>2 DEF EventInv
      <4> QED BY <1>6, <2>3, <3>1, <3>3, <4>1 DEF CutInv
    <3> QED BY <3>2, <3>3
  <2>4. ASSUME NEW i \in DOMAIN frames'[h], NEW g, g = frames'[h][i]
        PROVE  g.res \/ Cut(g)'
    <3>1. PICK f \in Event : f = frames[h][i]
      BY <2>1, <2>2, <2>4
    <3>2. g.src = f.src /\ g.chan = f.chan
      BY <2>2, <2>4, <3>1
    <3>3. g.res \/ Cut(f)'
      BY <2>2, <2>3, <2>4, <3>1
    <3> QED BY <3>2, <3>3 DEF Cut, Unanswered
  <2> QED BY <2>4 DEF CutInv, Cut, Unanswered
<1>10. EventInv'
  <2> SUFFICES ASSUME NEW g \in Handler
      PROVE  /\ QueueInv(g)' /\ FramesInv(g)'
             /\ OneEach(queue'[g]) /\ OneEach(frames'[g])
             /\ hpc'[g] \in {"run", "interp"} => CutInv(g)'
    BY DEF EventInv, OneEach
  <2>1. CASE g = h
    BY <1>6, <1>9, <2>1
  <2>2. CASE g # h
    <3>1. frames[g] \in Seq(Event) /\ frames'[g] = frames[g] /\ hpc'[g] = hpc[g]
      BY <1>6, <1>7, <2>2 DEF TypeOK
    <3>2. CutInv(g) => CutInv(g)'
      BY <1>6, <3>1, CutKept
    <3> QED BY <1>6, <3>1, <3>2 DEF EventInv
  <2> QED BY <2>1, <2>2
<1>11. WaitInv'
  <2> SUFFICES ASSUME NEW s \in Source, Unanswered(s)'
      PROVE  LET g == Home(request[s].chan) IN
             \/ s \in late /\ g \notin Transform /\ hpc'[g] \in {"thread", "exited"}
             \/ /\ s \notin late
                /\ Has(queue'[g], s) \/ Has(frames'[g], s)
                /\ \/ hpc'[g] \in {"run", "interp"}
                   \/ g \in Transform /\ hpc'[g] = "thread"
    BY <1>2 DEF WaitInv, Has, Gone
  <2>1. Unanswered(s) /\ Home(request[s].chan) \in Handler
    BY <1>5, Places DEF Unanswered, CallInv, Request
  <2> QED BY <1>2, <1>6, <1>7, <2>1 DEF WaitInv, Gone
<1>12. DeadInv'
  <2>1. \A c \in Chan : Finished(c) <=> Finished(c)'
    BY <1>2 DEF Finished, Closing
  <2>2. \A c \in Chan : hpc'[Home(c)] \in {"thread", "exited"} <=>
                           hpc[Home(c)] \in {"thread", "exited"}
    BY <1>2, <1>7, Places
  <2>3. \A c \in Chan : hpc[Home(c)] \in {"thread", "exited"} => hpc'[Home(c)] = hpc[Home(c)]
    BY <1>2, <1>7, Places
  <2>4. \A c \in Chan :
           /\ HomeOf[c] \notin interps' => c \notin imap'
           /\ c \notin imap' \/ c \notin tmap' => Finished(c)'
           /\ \/ hpc'[Home(c)] = "exited"
              \/ Home(c) \in Transform /\ hpc'[Home(c)] = "thread"
              => Finished(c)'
           /\ c \in dead' /\ c \notin Transforms =>
                 c \notin imap' \/ hpc'[Home(c)] \in {"thread", "exited"}
    BY <1>2, <2>1, <2>2, <2>3 DEF DeadInv, Gone
  <2>5. ASSUME NEW g \in Handler, hpc'[g] = "interp"
        PROVE  deleting'[g] \in Interp \ interps' /\ ThreadOf[deleting'[g]] = g
    <3>1. hpc[g] = "interp" /\ deleting'[g] = deleting[g] /\ interps' = interps
      BY <1>2, <1>7, <2>5
    <3> QED BY <3>1 DEF DeadInv
  <2> QED BY <2>4, <2>5 DEF DeadInv, Gone
<1>13. PostInv'
  <2>1. \A c \in Chan : Gone(Home(c)) <=> Gone(Home(c))'
    BY <1>2, <1>7, Places DEF Gone
  <2>2. ASSUME NEW c \in Chan \ Transforms, c \in imap, ~Gone(Home(c))
        PROVE  ~ LET s == OwnerOf[c] IN
                 /\ \/ pc[s] = "closing"
                    \/ /\ pc[s] = "wait" /\ request[s].op = "close"
                       /\ result'[s].result # "none"
                 /\ request[s].chan = c
    <3>1. OwnerOf[c] \in Source
      BY Places
    <3>2. CASE OwnerOf[c] \in S
      BY <1>3, <1>5, <2>2, <3>2 DEF S
    <3>3. CASE OwnerOf[c] \notin S
      BY <1>5, <2>2, <3>1, <3>3 DEF PostInv
    <3> QED BY <3>2, <3>3
  <2>3. /\ \A c \in Chan \ Transforms :
              c \notin open => posts[c] = 0 /\ (c \notin imap \/ Gone(Home(c)))
        /\ \A s \in Source : pc[s] = "exited" => \A c \in open : OwnerOf[c] # s
    BY DEF PostInv
  <2> QED BY <1>2, <2>1, <2>2, <2>3 DEF PostInv
<1> QED BY <1>5, <1>8, <1>10, <1>11, <1>12, <1>13

(* A thread begins to exit.  If it implements channels, the callers that   *)
(* it cancels are all that wait for it.                                    *)
LEMMA ThreadExitsIInv ==
    ASSUME IInv, NEW h \in Handler, ThreadExits(h)
    PROVE  IInv'
<1> USE DEF IInv, sourceVars, handlerVars, chanVars, history
<1> DEFINE C == ChansAt(h)
           S == Pending(C)
<1>1. /\ hpc[h] = "run"
      /\ hpc' = [hpc EXCEPT ![h] = "thread"]
      /\ UNCHANGED <<pc, request, deleting, interps, imap, open, interest, posts, ran,
                     late, freedUse>>
  BY DEF ThreadExits, Running
<1>2. /\ hpc'[h] = "thread"
      /\ \A g \in Handler : g # h => hpc'[g] = hpc[g]
      /\ hpc' \in [Handler -> {"run", "interp", "thread", "exited"}]
  BY <1>1 DEF TypeOK
<1>3. \A c \in C : c \in Chan /\ Home(c) = h
  BY DEF ChansAt
<1>a. \A c \in Chan : Home(c) = h => c \in C
  BY DEF ChansAt
<1>b. \A g \in Handler : Gone(g) => Gone(g)'
  BY <1>1, <1>2 DEF Gone
<1>c. Gone(h)' /\ ~Gone(h)
  BY <1>1, <1>2 DEF Gone
<1>4. CASE h \in Transform /\ MarkThread(h) /\ UNCHANGED <<result, queue, frames, code>>
  <2>1. dead' = dead \cup (tmap \cap C) /\ tmap' = tmap \ C
    BY <1>4 DEF MarkThread
  <2> HIDE DEF C
  <2>2. TypeOK'
    BY <1>1, <1>2, <1>4, <2>1 DEF TypeOK
  <2>3. CallInv'
    BY <1>1, <1>4 DEF CallInv, Unanswered
  <2>4. EventInv'
    <3>1. ASSUME NEW g \in Handler
          PROVE  QueueInv(g)' /\ FramesInv(g)'
      BY <1>1, <1>4 DEF EventInv, QueueInv, FramesInv, Awaited, Unanswered
    <3>2. \A f \in Event : Cut(f) => Cut(f)'
      BY <1>1, <1>4 DEF Cut, Unanswered
    <3>3. ASSUME NEW g \in Handler, CutInv(g)
          PROVE  CutInv(g)'
      <4>1. frames[g] \in Seq(Event) /\ frames'[g] = frames[g]
        BY <1>4 DEF TypeOK
      <4> QED BY <3>2, <3>3, <4>1, CutKept
    <3> QED BY <1>2, <1>4, <3>1, <3>3 DEF EventInv
  <2>5. WaitInv'
    <3>1. \A s \in Source : Unanswered(s) <=> Unanswered(s)'
      BY <1>1, <1>4 DEF Unanswered
    <3>2. \A s \in Source : Unanswered(s) => Home(request[s].chan) \in Handler
      BY Places DEF Unanswered, CallInv, Request
    <3>3. ASSUME NEW s \in Source, Unanswered(s)
          PROVE  LET g == Home(request[s].chan) IN
                 \/ s \in late /\ g \notin Transform /\ hpc'[g] \in {"thread", "exited"}
                 \/ /\ s \notin late
                    /\ Has(queue[g], s) \/ Has(frames[g], s)
                    /\ \/ hpc'[g] \in {"run", "interp"}
                       \/ g \in Transform /\ hpc'[g] = "thread"
      <4> DEFINE g == Home(request[s].chan)
      <4>1. \/ s \in late /\ g \notin Transform /\ Gone(g)
            \/ /\ s \notin late
               /\ Has(queue[g], s) \/ Has(frames[g], s)
               /\ \/ hpc[g] \in {"run", "interp"}
                  \/ g \in Transform /\ hpc[g] = "thread"
        BY <3>3 DEF WaitInv
      <4>2. g \in Handler
        BY <3>2, <3>3
      <4> HIDE DEF g
      <4>3. Gone(g) => hpc'[g] \in {"thread", "exited"}
        BY <1>2, <4>2 DEF Gone
      <4>4. \/ hpc[g] \in {"run", "interp"}
            \/ g \in Transform /\ hpc[g] = "thread"
            => \/ hpc'[g] \in {"run", "interp"}
               \/ g \in Transform /\ hpc'[g] = "thread"
        BY <1>2, <1>4, <4>2
      <4> QED BY <4>1, <4>3, <4>4 DEF g
    <3> QED BY <1>1, <1>4, <3>1, <3>3 DEF WaitInv, Gone
  <2>6. \A c \in Chan : (Finished(c) => Finished(c)') /\ (c \in C => Finished(c)')
    <3>1. \A c \in Chan : Closing(c) <=> Closing(c)'
      BY <1>1 DEF Closing
    <3>2. \A c \in Chan : c \in C => Finished(c) \/ c \in tmap
      BY DEF DeadInv
    <3> QED BY <1>1, <2>1, <3>1, <3>2 DEF Finished
  <2>7. \A c \in C : c \in Transforms
    BY <1>3, <1>4, Places
  <2>8. DeadInv'
    <3>1. \A c \in Chan :
             /\ HomeOf[c] \notin interps' => c \notin imap'
             /\ c \notin imap' \/ c \notin tmap' => Finished(c)'
      BY <1>1, <2>1, <2>6 DEF DeadInv
    <3>2. ASSUME NEW c \in Chan,
                 \/ hpc'[Home(c)] = "exited"
                 \/ Home(c) \in Transform /\ hpc'[Home(c)] = "thread"
          PROVE  Finished(c)'
      <4>1. CASE Home(c) = h
        BY <1>a, <2>6, <4>1
      <4>2. CASE Home(c) # h
        BY <1>2, <2>6, <3>2, <4>2, Places DEF DeadInv
      <4> QED BY <4>1, <4>2
    <3>3. ASSUME NEW c \in Chan, c \in dead', c \notin Transforms
          PROVE  c \notin imap' \/ Gone(Home(c))'
      <4>1. c \in dead /\ Home(c) \in Handler
        BY <2>1, <2>7, <3>3, Places
      <4> QED BY <1>1, <1>b, <3>3, <4>1 DEF DeadInv
    <3>4. \A g \in Handler : hpc'[g] = "interp" =>
             deleting'[g] \in Interp \ interps' /\ ThreadOf[deleting'[g]] = g
      BY <1>1, <1>2 DEF DeadInv
    <3> QED BY <3>1, <3>2, <3>3, <3>4 DEF DeadInv, Gone
  <2>9. PostInv'
    <3>1. \A c \in Chan : Gone(Home(c)) => Gone(Home(c))'
      BY <1>b, Places
    <3> QED BY <1>1, <1>4, <3>1 DEF PostInv, Gone
  <2> QED BY <2>2, <2>3, <2>4, <2>5, <2>8, <2>9
<1>5. CASE h \notin Transform /\ Cancel(h, C) /\ UNCHANGED <<dead, tmap>>
  <2>3. CancelResults(C)
    BY <1>5 DEF Cancel
  <2> HIDE DEF C
  <2>4. /\ CallInv'
        /\ result' \in [Source -> Result \cup {None}]
        /\ code' \in [Source -> {"none", "ok", "lost"}]
        /\ \A s \in Source : Unanswered(s)' <=> Unanswered(s) /\ s \notin S
        /\ \A s \in Source : Unanswered(s) /\ request[s].chan \in C => s \in Pending(C)
        /\ \A s \in Pending(C) : s \in Source /\ request[s].chan \in C
        /\ \A s \in Source : s \notin S => result'[s] = result[s]
    BY <1>1, <1>3, <1>c, <2>3, CancelledCalls
  <2>5. /\ queue' \in [Handler -> Seq(Event)] /\ frames' \in [Handler -> Seq(Event)]
        /\ \A g \in Handler : /\ QueueInv(g)' /\ FramesInv(g)'
                              /\ OneEach(queue'[g]) /\ OneEach(frames'[g])
        /\ \A s \in Source : Unanswered(s)' /\ s \notin late =>
              LET g == Home(request[s].chan) IN
              Has(queue'[g], s) \/ Has(frames'[g], s)
        /\ \A f \in Event : Cut(f) => Cut(f)'
        /\ \A g \in Handler : g # h => frames'[g] = frames[g]
    BY <1>1, <1>3, <1>5, <1>c, CancelledEvents
  <2> HIDE DEF S
  <2>6. TypeOK'
    BY <1>1, <1>2, <1>5, <2>4, <2>5 DEF TypeOK, Result
  <2>7. EventInv'
    <3>1. ASSUME NEW g \in Handler, hpc'[g] \in {"run", "interp"}
          PROVE  CutInv(g)'
      <4>1. /\ g # h /\ hpc[g] = hpc'[g] /\ frames'[g] = frames[g]
            /\ frames[g] \in Seq(Event)
        BY <1>2, <2>5, <3>1 DEF TypeOK
      <4> QED BY <2>5, <3>1, <4>1, CutKept DEF EventInv
    <3> QED BY <2>5, <3>1 DEF EventInv
  <2>8. WaitInv'
    <3> SUFFICES ASSUME NEW s \in Source, Unanswered(s)'
        PROVE  LET g == Home(request[s].chan) IN
               \/ s \in late /\ g \notin Transform /\ hpc'[g] \in {"thread", "exited"}
               \/ /\ s \notin late
                  /\ Has(queue'[g], s) \/ Has(frames'[g], s)
                  /\ \/ hpc'[g] \in {"run", "interp"}
                     \/ g \in Transform /\ hpc'[g] = "thread"
      BY <1>1 DEF WaitInv, Has, Gone
    <3>1. Unanswered(s) /\ Home(request[s].chan) \in Handler /\ request[s].chan \in Chan
      BY <2>4, Places DEF Unanswered, CallInv, Request
    <3>2. Home(request[s].chan) # h
      BY <1>a, <2>4, <3>1 DEF S
    <3> QED BY <1>2, <2>5, <3>1, <3>2 DEF WaitInv, Gone
  <2>9. DeadInv'
    <3>1. \A c \in Chan : Finished(c) <=> Finished(c)'
      BY <1>1, <1>5 DEF Finished, Closing
    <3>2. \A c \in Chan :
             /\ HomeOf[c] \notin interps' => c \notin imap'
             /\ c \notin imap' \/ c \notin tmap' => Finished(c)'
             /\ \/ hpc'[Home(c)] = "exited"
                \/ Home(c) \in Transform /\ hpc'[Home(c)] = "thread"
                => Finished(c)'
      BY <1>1, <1>2, <1>5, <3>1, Places DEF DeadInv
    <3>3. ASSUME NEW c \in Chan, c \in dead', c \notin Transforms
          PROVE  c \notin imap' \/ Gone(Home(c))'
      <4>1. c \in dead /\ Home(c) \in Handler
        BY <1>5, <3>3, Places
      <4> QED BY <1>1, <1>b, <3>3, <4>1 DEF DeadInv
    <3>4. \A g \in Handler : hpc'[g] = "interp" =>
             deleting'[g] \in Interp \ interps' /\ ThreadOf[deleting'[g]] = g
      BY <1>1, <1>2 DEF DeadInv
    <3> QED BY <3>2, <3>3, <3>4 DEF DeadInv, Gone
  <2>10. PostInv'
    <3>1. ASSUME NEW c \in Chan \ Transforms, c \in imap, ~Gone(Home(c))'
          PROVE  ~ LET s == OwnerOf[c] IN
                   /\ \/ pc[s] = "closing"
                      \/ /\ pc[s] = "wait" /\ request[s].op = "close"
                         /\ result'[s].result # "none"
                   /\ request[s].chan = c
      <4>1. OwnerOf[c] \in Source /\ Home(c) # h /\ ~Gone(Home(c))
        BY <1>b, <1>c, <3>1, Places
      <4>2. CASE OwnerOf[c] \in S
        BY <1>3, <2>4, <4>1, <4>2 DEF S
      <4>3. CASE OwnerOf[c] \notin S
        BY <2>4, <3>1, <4>1, <4>3 DEF PostInv
      <4> QED BY <4>2, <4>3
    <3>2. /\ \A c \in Chan \ Transforms :
                c \notin open => posts[c] = 0 /\ (c \notin imap \/ Gone(Home(c)))
          /\ \A s \in Source : pc[s] = "exited" => \A c \in open : OwnerOf[c] # s
      BY DEF PostInv
    <3>3. \A c \in Chan : Gone(Home(c)) => Gone(Home(c))'
      BY <1>b, Places
    <3> QED BY <1>1, <3>1, <3>2, <3>3 DEF PostInv, Gone
  <2> QED BY <2>4, <2>6, <2>7, <2>8, <2>9, <2>10
<1> QED BY <1>4, <1>5 DEF ThreadExits

(* The exit of a thread is over, and nobody is left waiting for it but the *)
(* callers that were late.                                                 *)
LEMMA ThreadGoneIInv ==
    ASSUME IInv, NEW h \in Handler, ThreadGone(h)
    PROVE  IInv'
<1> USE DEF IInv, sourceVars, handlerVars, chanVars, history
<1> DEFINE C == ChansAt(h)
           S == Pending(C)
<1>1. /\ hpc[h] = "thread"
      /\ hpc' = [hpc EXCEPT ![h] = "exited"]
      /\ queue' = [queue EXCEPT ![h] = <<>>] /\ frames' = [frames EXCEPT ![h] = <<>>]
      /\ UNCHANGED <<pc, request, deleting, interps, imap, open, interest, posts, ran,
                     late, freedUse>>
  BY DEF ThreadGone
<1>2. /\ hpc'[h] = "exited"
      /\ \A g \in Handler : g # h => hpc'[g] = hpc[g]
      /\ hpc' \in [Handler -> {"run", "interp", "thread", "exited"}]
  BY <1>1 DEF TypeOK
<1>a. \A g \in Handler : Gone(g)' <=> Gone(g)
  BY <1>1, <1>2 DEF Gone
<1>3. <<>> \in Seq(Event) /\ DOMAIN <<>> = {}
  OBVIOUS
<1>4. /\ queue'[h] = <<>> /\ frames'[h] = <<>>
      /\ \A g \in Handler : g # h => queue'[g] = queue[g] /\ frames'[g] = frames[g]
      /\ queue' \in [Handler -> Seq(Event)] /\ frames' \in [Handler -> Seq(Event)]
  BY <1>1, <1>3 DEF TypeOK
<1>5. \A c \in Chan : c \in C <=> Home(c) = h
  BY DEF ChansAt
(* Which callers are left: those of other threads, with what they had.     *)
<1>6. /\ CallInv'
      /\ result' \in [Source -> Result \cup {None}]
      /\ code' \in [Source -> {"none", "ok", "lost"}]
      /\ \A s \in Source : Unanswered(s)' =>
            /\ Unanswered(s)
            /\ Home(request[s].chan) # h \/ (s \in late /\ h \notin Transform)
      /\ \A s \in Source : Home(request[s].chan) # h =>
            result'[s] = result[s] /\ code'[s] = code[s]
      /\ h \notin Transform => UNCHANGED result
      /\ dead \subseteq dead' /\ dead' \subseteq dead \cup C
      /\ tmap' \subseteq tmap /\ tmap \subseteq tmap' \cup C
  <2>1. CASE h \in Transform /\ CancelResults(C) /\ UNCHANGED <<dead, tmap>>
    <3>1. \A c \in C : c \in Chan /\ Home(c) = h /\ Home(c) \in Transform
      BY <2>1 DEF ChansAt
    <3> HIDE DEF C
    <3>2. /\ CallInv'
          /\ result' \in [Source -> Result \cup {None}]
          /\ code' \in [Source -> {"none", "ok", "lost"}]
          /\ \A s \in Source : Unanswered(s)' <=> Unanswered(s) /\ s \notin S
          /\ \A s \in Source : Unanswered(s) /\ request[s].chan \in C => s \in Pending(C)
          /\ \A s \in Pending(C) : s \in Source /\ request[s].chan \in C
          /\ \A s \in Source : s \notin S => result'[s] = result[s] /\ code'[s] = code[s]
      BY <1>1, <2>1, <3>1, CancelledCalls
    <3>3. \A s \in Source : Unanswered(s) => request[s].chan \in Chan
      BY DEF Unanswered, CallInv, Request
    <3>4. \A s \in Source : Unanswered(s)' => Unanswered(s) /\ Home(request[s].chan) # h
      BY <1>5, <3>2, <3>3 DEF S
    <3>5. \A s \in Source : Home(request[s].chan) # h => s \notin S
      BY <3>1, <3>2 DEF S
    <3> QED BY <2>1, <3>2, <3>4, <3>5
  <2>2. CASE h \notin Transform /\ MarkThread(h) /\ UNCHANGED <<result, code>>
    <3>1. \A s \in Source : Unanswered(s)' <=> Unanswered(s)
      BY <1>1, <2>2 DEF Unanswered
    <3>2. \A s \in Source : Unanswered(s) => Home(request[s].chan) # h \/ s \in late
      BY <1>1, <2>2 DEF WaitInv
    <3>3. CallInv'
      BY <1>1, <2>2 DEF CallInv, Unanswered
    <3>4. /\ result' \in [Source -> Result \cup {None}]
          /\ code' \in [Source -> {"none", "ok", "lost"}]
      BY <2>2 DEF TypeOK, Result
    <3> QED BY <2>2, <3>1, <3>2, <3>3, <3>4 DEF MarkThread
  <2> QED BY <2>1, <2>2 DEF ThreadGone
<1> HIDE DEF S
<1>7. TypeOK'
  BY <1>1, <1>2, <1>4, <1>6 DEF TypeOK, Result, ChansAt
<1> HIDE DEF C
<1>8. ASSUME NEW g \in Handler, g # h, NEW f \in Event, Awaited(g, f)
      PROVE  Awaited(g, f)' /\ code'[f.src] = code[f.src]
  <2>1. f.src \in Source /\ Home(request[f.src].chan) = g
    BY <1>8 DEF Awaited, Event
  <2>2. result'[f.src] = result[f.src] /\ code'[f.src] = code[f.src]
    BY <1>6, <1>8, <2>1
  <2> QED BY <1>1, <1>8, <2>2 DEF Awaited, Unanswered
<1>9. EventInv'
  <2> SUFFICES ASSUME NEW g \in Handler
      PROVE  /\ QueueInv(g)' /\ FramesInv(g)'
             /\ OneEach(queue'[g]) /\ OneEach(frames'[g])
             /\ hpc'[g] \in {"run", "interp"} => CutInv(g)'
    BY DEF EventInv, OneEach
  <2>1. CASE g = h
    BY <1>2, <1>3, <1>4, <2>1 DEF QueueInv, FramesInv, OneEach
  <2>2. CASE g # h
    <3>1. /\ queue'[g] \in Seq(Event) /\ frames'[g] \in Seq(Event)
          /\ frames'[g] = frames[g] /\ hpc'[g] = hpc[g] /\ frames[g] \in Seq(Event)
      BY <1>2, <1>4, <2>2 DEF TypeOK
    <3>2. QueueInv(g) /\ FramesInv(g)
      BY DEF EventInv
    <3>3. QueueInv(g)'
      BY <1>1, <1>4, <1>8, <2>2, <3>1, <3>2, QueueStep DEF QueueInv
    <3>4. FramesInv(g)'
      BY <1>1, <1>4, <1>8, <2>2, <3>1, <3>2, FramesStep DEF FramesInv
    <3>5. \A f \in Event : Cut(f) => Cut(f)'
      BY <1>1, <1>6 DEF Cut, Event
    <3>6. CutInv(g) => CutInv(g)'
      BY <3>1, <3>5, CutKept
    <3> QED BY <1>2, <1>4, <2>2, <3>1, <3>3, <3>4, <3>6 DEF EventInv
  <2> QED BY <2>1, <2>2
<1>10. WaitInv'
  <2> SUFFICES ASSUME NEW s \in Source, Unanswered(s)'
      PROVE  LET g == Home(request[s].chan) IN
             \/ s \in late /\ g \notin Transform /\ hpc'[g] \in {"thread", "exited"}
             \/ /\ s \notin late
                /\ Has(queue'[g], s) \/ Has(frames'[g], s)
                /\ \/ hpc'[g] \in {"run", "interp"}
                   \/ g \in Transform /\ hpc'[g] = "thread"
    BY <1>1 DEF WaitInv, Has, Gone
  <2>1. Unanswered(s) /\ Home(request[s].chan) \in Handler
    BY <1>6, Places DEF Unanswered, CallInv, Request
  <2>2. CASE Home(request[s].chan) = h
    BY <1>2, <1>6, <2>2
  <2>3. CASE Home(request[s].chan) # h
    BY <1>2, <1>4, <2>1, <2>3 DEF WaitInv, Gone
  <2> QED BY <2>2, <2>3
<1>11. DeadInv'
  <2>1. \A c \in Chan : Finished(c) => Finished(c)'
    BY <1>1, <1>6 DEF Finished, Closing
  <2>2. ASSUME NEW c \in Chan, Home(c) = h
        PROVE  Finished(c)' /\ Gone(Home(c))'
    <3>1. Gone(h)'
      BY <1>2 DEF Gone
    <3>2. CASE h \in Transform
      BY <1>1, <2>1, <2>2, <3>1, <3>2 DEF DeadInv
    <3>3. CASE h \notin Transform
      <4>1. c \in tmap => c \in dead'
        BY <2>2, <3>3 DEF ThreadGone, MarkThread, ChansAt
      <4>2. c \notin tmap => Finished(c)'
        BY <2>1 DEF DeadInv
      <4> QED BY <2>2, <3>1, <4>1, <4>2 DEF Finished
    <3> QED BY <3>2, <3>3
  <2>3. ASSUME NEW c \in Chan, Home(c) # h
        PROVE  /\ c \notin tmap' => c \notin tmap
               /\ c \in dead' => c \in dead
               /\ hpc'[Home(c)] = hpc[Home(c)] /\ (Gone(Home(c))' <=> Gone(Home(c)))
    BY <1>2, <1>5, <1>6, <1>a, <2>3, Places
  <2>4. \A c \in Chan :
           /\ HomeOf[c] \notin interps' => c \notin imap'
           /\ c \notin imap' \/ c \notin tmap' => Finished(c)'
           /\ \/ hpc'[Home(c)] = "exited"
              \/ Home(c) \in Transform /\ hpc'[Home(c)] = "thread"
              => Finished(c)'
           /\ c \in dead' /\ c \notin Transforms => c \notin imap' \/ Gone(Home(c))'
    BY <1>1, <2>1, <2>2, <2>3 DEF DeadInv
  <2>5. \A g \in Handler : hpc'[g] = "interp" =>
           deleting'[g] \in Interp \ interps' /\ ThreadOf[deleting'[g]] = g
    BY <1>1, <1>2 DEF DeadInv
  <2> QED BY <2>4, <2>5 DEF DeadInv, Gone
<1>12. PostInv'
  <2>1. ASSUME NEW c \in Chan \ Transforms
        PROVE  LET s == OwnerOf[c] IN request[s].chan = c => result'[s] = result[s]
    <3>1. OwnerOf[c] \in Source /\ (Home(c) = h => h \notin Transform)
      BY Places
    <3> QED BY <1>6, <3>1
  <2>2. \A c \in Chan : Gone(Home(c))' <=> Gone(Home(c))
    BY <1>a, Places
  <2> QED BY <1>1, <2>1, <2>2 DEF PostInv, Gone
<1> QED BY <1>6, <1>7, <1>9, <1>10, <1>11, <1>12
-----------------------------------------------------------------------------
(* The inductive invariant is kept by every step that uses no freed memory.*)
LEMMA NextIInv ==
    ASSUME IInv, ~freedUse', [Next]_vars
    PROVE  IInv'
<1>1. ASSUME NEW s \in Source, SourceStep(s)
      PROVE  IInv'
  BY <1>1, ForwardIInv, ForwardRefusedIInv, ForwardReturnsIInv, CloseReturnsIInv,
     SourceExitsIInv DEF SourceStep
<1>2. ASSUME NEW h \in Handler, HandlerStep(h)
      PROVE  IInv'
  BY <1>2, ForwardProcIInv, ForwardProcReturnsIInv, DeleteReflectedChannelMapIInv,
     CancelInterpIInv, ThreadExitsIInv, ThreadGoneIInv DEF HandlerStep
<1>3. ASSUME NEW c \in Chan, ReflectEventRun(c) \/ TclChanPostEventObjCmd(c)
      PROVE  IInv'
  BY <1>3, PostsIInv
<1>4. CASE UNCHANGED vars
  <2> USE <1>4 DEF IInv, vars, sourceVars, handlerVars, chanVars, history
  <2>1. TypeOK'
    BY DEF TypeOK
  <2>2. CallInv' /\ WaitInv'
    BY DEF CallInv, WaitInv, Unanswered, Gone
  <2>3. EventInv'
    BY DEF EventInv, QueueInv, FramesInv, CutInv, Cut, Awaited, Unanswered
  <2>4. DeadInv' /\ PostInv'
    BY DEF DeadInv, PostInv, Finished, Closing, Gone
  <2> QED BY <2>1, <2>2, <2>3, <2>4
<1> QED BY <1>1, <1>2, <1>3, <1>4 DEF Next

(* What has been used after it was freed stays so.                         *)
LEMMA FreedUseStays ==
    ASSUME freedUse, [Next]_vars
    PROVE  freedUse'
<1> USE DEF history
<1>1. ASSUME NEW s \in Source, SourceStep(s)
      PROVE  freedUse'
  BY <1>1 DEF SourceStep, ForwardOpToHandlerThread, ForwardRefused, ForwardReturns,
     CloseReturns, SourceExits
<1>2. ASSUME NEW h \in Handler, HandlerStep(h)
      PROVE  freedUse'
  BY <1>2 DEF HandlerStep, ForwardProc, ForwardProcReturns,
     DeleteReflectedChannelMap, CancelInterp, ThreadExits, ThreadGone
<1>3. ASSUME NEW c \in Chan, ReflectEventRun(c) \/ TclChanPostEventObjCmd(c)
      PROVE  freedUse'
  BY <1>3 DEF ReflectEventRun, TclChanPostEventObjCmd
<1>4. CASE UNCHANGED vars
  BY <1>4 DEF vars
<1> QED BY <1>1, <1>2, <1>3, <1>4 DEF Next

(* The inductive invariant holds in every state that can be reached, until *)
(* ForwardProc uses freed memory.                                          *)
THEOREM Invariance == Spec => [](freedUse \/ IInv)
<1>1. Init => freedUse \/ IInv
  BY InitIInv
<1>2. (freedUse \/ IInv) /\ [Next]_vars => (freedUse \/ IInv)'
  <2> SUFFICES ASSUME freedUse \/ IInv, [Next]_vars, ~freedUse'
      PROVE  IInv'
    OBVIOUS
  <2>1. ~freedUse
    BY FreedUseStays
  <2> QED BY <2>1, NextIInv
<1> QED BY <1>1, <1>2, PTL DEF Spec

(* Until then every variable stays in its type.                            *)
THEOREM TypeCorrect == Spec => [](freedUse \/ TypeOK)
<1>1. freedUse \/ IInv => freedUse \/ TypeOK
  BY DEF IInv
<1> QED BY <1>1, Invariance, PTL

(* The event of a caller that waits and was not late is the only one that  *)
(* can set its result, and it is in the thread that implements the channel.*)
LEMMA OneAnswer ==
    ASSUME IInv, NEW s \in Source \ late, Unanswered(s)
    PROVE  \E x \in Answers(s) : Answers(s) = {x} /\ x[1] = Home(request[s].chan)
<1> USE DEF IInv
<1> DEFINE h == Home(request[s].chan)
<1>1. h \in Handler /\ (Has(queue[h], s) \/ Has(frames[h], s))
  BY Places DEF WaitInv, Unanswered, CallInv, Request
<1> HIDE DEF h
<1>2. ASSUME NEW g \in Handler, NEW i \in DOMAIN queue[g],
             queue[g][i].src = s, queue[g][i].res
      PROVE  g = h /\ s \notin ran
  BY <1>2 DEF EventInv, QueueInv, Awaited, h
<1>3. ASSUME NEW g \in Handler, NEW i \in DOMAIN frames[g],
             frames[g][i].src = s, frames[g][i].res
      PROVE  g = h /\ s \in ran
  BY <1>3 DEF EventInv, FramesInv, Awaited, h
<1>4. OneEach(queue[h]) /\ OneEach(frames[h])
  BY <1>1 DEF EventInv
<1>5. CASE Has(queue[h], s)
  <2>1. PICK i \in DOMAIN queue[h] : queue[h][i].src = s /\ queue[h][i].res
    BY <1>5 DEF Has
  <2>2. ASSUME NEW g \in Handler, NEW j \in DOMAIN queue[g],
               queue[g][j].src = s, queue[g][j].res
        PROVE  g = h /\ j = i
    <3>1. g = h
      BY <1>2, <2>2
    <3> QED BY <1>4, <2>1, <2>2, <3>1 DEF OneEach
  <2>3. ASSUME NEW g \in Handler, NEW j \in DOMAIN frames[g],
               frames[g][j].src = s, frames[g][j].res
        PROVE  FALSE
    <3>1. s \in ran
      BY <1>3, <2>3
    <3>2. s \notin ran
      BY <1>1, <1>2, <2>1
    <3> QED BY <3>1, <3>2
  <2>4. Answers(s) = {<<h, "queue", i>>}
    BY <1>1, <2>1, <2>2, <2>3 DEF Answers
  <2> QED BY <2>4 DEF h
<1>6. CASE Has(frames[h], s)
  <2>1. PICK i \in DOMAIN frames[h] : frames[h][i].src = s /\ frames[h][i].res
    BY <1>6 DEF Has
  <2>2. ASSUME NEW g \in Handler, NEW j \in DOMAIN frames[g],
               frames[g][j].src = s, frames[g][j].res
        PROVE  g = h /\ j = i
    <3>1. g = h
      BY <1>3, <2>2
    <3> QED BY <1>4, <2>1, <2>2, <3>1 DEF OneEach
  <2>3. ASSUME NEW g \in Handler, NEW j \in DOMAIN queue[g],
               queue[g][j].src = s, queue[g][j].res
        PROVE  FALSE
    <3>1. s \in ran
      BY <1>1, <1>3, <2>1
    <3>2. s \notin ran
      BY <1>2, <2>3
    <3> QED BY <3>1, <3>2
  <2>4. Answers(s) = {<<h, "frame", i>>}
    BY <1>1, <2>1, <2>2, <2>3 DEF Answers
  <2> QED BY <2>4 DEF h
<1> QED BY <1>1, <1>5, <1>6

(* Nobody is left waiting without an event: DeleteReflectedChannelMap and  *)
(* the exit handlers cancel what they would strand, in whichever order     *)
(* interpreters and threads go.  The callers that the exit handler of      *)
(* tclIORChan.c misses are those that forward between its two steps.       *)
THEOREM WaitersHaveEvents == Spec => []WaiterHasEvent
<1>1. freedUse \/ IInv => WaiterHasEvent
  <2> SUFFICES ASSUME IInv, NEW s \in Source \ late,
                      pc[s] = "wait", result[s].result = "none"
      PROVE  \E x \in Answers(s) :
                /\ Answers(s) = {x}
                /\ result[s].evPtr
                /\ hpc[x[1]] \in {"run", "interp"}
                                 \cup (IF x[1] \in Transform THEN {"thread"} ELSE {})
    BY DEF WaiterHasEvent
  <2>1. Unanswered(s)
    BY DEF Unanswered
  <2>2. PICK x \in Answers(s) : Answers(s) = {x} /\ x[1] = Home(request[s].chan)
    BY <2>1, OneAnswer
  <2>3. result[s].evPtr
    BY <2>1 DEF IInv, CallInv
  <2>4. hpc[x[1]] \in {"run", "interp"} \cup (IF x[1] \in Transform THEN {"thread"} ELSE {})
    BY <2>1, <2>2 DEF IInv, WaitInv
  <2> QED BY <2>2, <2>3, <2>4
<1> QED BY <1>1, Invariance, PTL

(* A method runs only for a caller that is blocked in the same operation   *)
(* (ForwardProc uses the parameters on the stack of the caller), as long   *)
(* as the interpreter of the method exists; a method whose Tcl_Release has *)
(* deleted its interpreter is the only one that a cancelled caller leaves. *)
THEOREM CallersAreQuiescent == Spec => []CallerIsQuiescent
<1>1. freedUse \/ IInv => CallerIsQuiescent
  <2> SUFFICES ASSUME IInv, NEW h \in Handler, hpc[h] \in {"run", "interp"},
                      NEW i \in DOMAIN frames[h], NEW f, f = frames[h][i],
                      f.res \/ HomeOf[f.chan] \in interps
      PROVE  /\ pc[f.src] = "wait" /\ result[f.src] # None
             /\ result[f.src].result = "none"
             /\ request[f.src] = [chan |-> f.chan, op |-> f.op]
    BY DEF CallerIsQuiescent, CallerBlocked, StillWaits
  <2>1. f \in Event /\ f.src \in Source
    <3>1. f \in Event
      BY DEF IInv, TypeOK
    <3> QED BY <3>1 DEF Event
  <2>2. f.res
    BY DEF IInv, EventInv, CutInv, Cut
  <2>3. Awaited(h, f)
    BY <2>2 DEF IInv, EventInv, FramesInv
  <2>4. /\ pc[f.src] = "wait" /\ result[f.src].result = "none"
        /\ request[f.src].chan = f.chan /\ request[f.src].op = f.op
    BY <2>3 DEF Awaited, Unanswered
  <2>5. result[f.src] # None /\ request[f.src] \in Request
    BY <2>1, <2>4 DEF IInv, CallInv
  <2>6. request[f.src] = [chan |-> f.chan, op |-> f.op]
    BY <2>4, <2>5 DEF Request
  <2> QED BY <2>4, <2>5, <2>6
<1> QED BY <1>1, Invariance, PTL

(* No event is posted to a channel that its owner has freed, and none is   *)
(* left for it (the race noted in TclChanPostEventObjCmd does not exist).  *)
THEOREM PostsArrive == Spec => []PostsReachOpenChannels
<1>1. freedUse \/ IInv => PostsReachOpenChannels
  <2> SUFFICES ASSUME IInv, NEW c \in Chan \ Transforms, posts[c] > 0 \/ MayPost(c)
      PROVE  c \in open /\ pc[OwnerOf[c]] # "exited"
    BY DEF PostsReachOpenChannels
  <2>1. c \in open
    <3>1. CASE posts[c] > 0
      BY <3>1 DEF IInv, PostInv
    <3>2. CASE MayPost(c)
      BY <3>2 DEF IInv, PostInv, MayPost, Gone
    <3> QED BY <3>1, <3>2
  <2>2. OwnerOf[c] \in Source
    BY Places
  <2> QED BY <2>1, <2>2 DEF IInv, PostInv
<1> QED BY <1>1, Invariance, PTL
-----------------------------------------------------------------------------
(* What a caller sees of a step: nothing, unless its result comes or goes  *)
(* or its operation is run.                                                *)
LEMMA Unseen ==
    ASSUME UNCHANGED ran,
           \A s \in Source : result'[s] = None <=> result[s] = None,
           \A s \in Source : result[s] = None => code'[s] = code[s]
    PROVE  UNCHANGED Abstract!vars
  BY DEF Abstract!vars

(* What a caller sees (the refinement mapping).                            *)
CallOf(s) == IF result[s] = None THEN "idle" ELSE IF s \in ran THEN "run" ELSE "pending"
AnswerOf(s) == IF result[s] = None THEN code[s] ELSE "none"

(* Only one caller sees a step.                                            *)
LEMMA SeenByOne ==
    ASSUME NEW s \in Source, NEW x, NEW y, CallOf(s)' = x, AnswerOf(s)' = y,
           \A t \in Source : t # s => /\ result'[t] = result[t] /\ code'[t] = code[t]
                                      /\ t \in ran' <=> t \in ran
    PROVE  /\ \A t \in Source : CallOf(t)' = IF t = s THEN x ELSE CallOf(t)
           /\ \A t \in Source : AnswerOf(t)' = IF t = s THEN y ELSE AnswerOf(t)
  BY DEF CallOf, AnswerOf

(* Cancelling is not seen until the callers return.                        *)
LEMMA CancelUnseen ==
    ASSUME IInv, NEW C, \A c \in C : Home(c) \in Transform \/ ~Gone(Home(c)),
           CancelResults(C), UNCHANGED <<pc, request, open, ran>>
    PROVE  UNCHANGED Abstract!vars
<1>1. /\ CallInv' /\ CallInv
      /\ \A s \in Source : s \notin Pending(C) => code'[s] = code[s]
  BY CancelledCalls DEF IInv
<1>2. \A s \in Source : result[s] = None => s \notin Pending(C)
  BY DEF Pending
<1>3. \A s \in Source : result'[s] = None <=> result[s] = None
  BY <1>1 DEF CallInv
<1> QED BY <1>1, <1>2, <1>3, Unseen

(* Forwarding is a remote call: it is answered once, the method runs at    *)
(* most once and never after the answer, and only a call that ran returns  *)
(* anything but "lost", until ForwardProc uses freed memory.               *)
THEOREM Refinement == Spec => ImplementsRemoteCall
<1>1. Init => Abstract!Init
  BY DEF Init, Abstract!Init
<1>2. (freedUse \/ IInv) /\ (freedUse \/ IInv)' /\ [Next]_vars =>
         [freedUse' \/ Abstract!Next]_(Abstract!vars)
  <2> SUFFICES ASSUME freedUse \/ IInv, (freedUse \/ IInv)', [Next]_vars, ~freedUse'
               PROVE  [Abstract!Next]_(Abstract!vars)
    OBVIOUS
  <2>a. IInv /\ IInv'
    BY FreedUseStays
  <2> USE DEF sourceVars, handlerVars, chanVars, history
  <2>1. ASSUME NEW s \in Source, NEW c \in Chan, NEW o \in Ops,
               ForwardOpToHandlerThread(s, c, o)
        PROVE  Abstract!Call(s)
    <3>1. /\ pc[s] = "idle" /\ pc'[s] = "wait" /\ code'[s] = "none" /\ ran' = ran
          /\ \A t \in Source : t # s => result'[t] = result[t] /\ code'[t] = code[t]
      BY <2>a, <2>1 DEF ForwardOpToHandlerThread, IInv, TypeOK
    <3>2. result[s] = None /\ s \notin ran /\ result'[s] # None
      BY <2>a, <3>1 DEF IInv, CallInv
    <3>3. CallOf(s) = "idle" /\ CallOf(s)' = "pending" /\ AnswerOf(s)' = "none"
      BY <3>1, <3>2 DEF CallOf, AnswerOf
    <3>4. /\ \A t \in Source : CallOf(t)' = IF t = s THEN "pending" ELSE CallOf(t)
          /\ \A t \in Source : AnswerOf(t)' = IF t = s THEN "none" ELSE AnswerOf(t)
      BY <3>1, <3>3, SeenByOne
    <3> QED BY <3>3, <3>4 DEF Abstract!Call, CallOf, AnswerOf
  <2>2. ASSUME NEW s \in Source, ForwardReturns(s)
        PROVE  \E a \in {"ok", "lost"} : Abstract!Return(s, a)
    <3>1. /\ pc[s] = "wait" /\ result[s].result # "none" /\ result'[s] = None
          /\ code' = code /\ ran' = ran \ {s}
          /\ \A t \in Source : t # s => result'[t] = result[t]
      BY <2>a, <2>2 DEF ForwardReturns, IInv, TypeOK
    <3>2. PICK a \in {"ok", "lost"} : a = code[s]
      BY <2>a, <3>1 DEF IInv, CallInv, TypeOK
    <3>3. result[s] # None /\ (a = "ok" => s \in ran)
      BY <2>a, <3>1, <3>2 DEF IInv, CallInv
    <3>4. /\ CallOf(s) # "idle" /\ (a = "ok" => CallOf(s) = "run")
          /\ CallOf(s)' = "idle" /\ AnswerOf(s)' = a
      BY <3>1, <3>2, <3>3 DEF CallOf, AnswerOf
    <3>5. /\ \A t \in Source : CallOf(t)' = IF t = s THEN "idle" ELSE CallOf(t)
          /\ \A t \in Source : AnswerOf(t)' = IF t = s THEN a ELSE AnswerOf(t)
      BY <3>1, <3>4, SeenByOne
    <3>6. Abstract!Return(s, a)
      BY <3>4, <3>5 DEF Abstract!Return, CallOf, AnswerOf
    <3> QED BY <3>6
  <2>3. ASSUME NEW h \in Handler, ForwardProc(h), Head(queue[h]).res
        PROVE  \E s \in Source : Abstract!Execute(s)
    <3>1. /\ queue[h] # <<>> /\ queue[h] \in Seq(Event) /\ result' = result
          /\ code' = [code EXCEPT ![Head(queue[h]).src] = "ok"]
          /\ ran' = ran \cup {Head(queue[h]).src}
      BY <2>a, <2>3 DEF ForwardProc, IInv, TypeOK
    <3>2. PICK e \in Event : e = Head(queue[h]) /\ e = queue[h][1] /\ 1 \in DOMAIN queue[h]
      BY <3>1, TailEvent
    <3>3. PICK s \in Source : s = e.src
      BY <3>2 DEF Event
    <3>4. Awaited(h, e) /\ s \notin ran
      BY <2>a, <2>3, <3>2, <3>3 DEF IInv, EventInv, QueueInv
    <3>5. result[s] # None
      BY <2>a, <3>3, <3>4 DEF Awaited, Unanswered, IInv, CallInv
    <3>6. /\ s \in ran' /\ \A t \in Source : t # s => code'[t] = code[t]
          /\ \A t \in Source : t # s => (t \in ran' <=> t \in ran)
      BY <2>a, <3>1, <3>2, <3>3 DEF IInv, TypeOK
    <3>7. CallOf(s) = "pending" /\ CallOf(s)' = "run" /\ AnswerOf(s)' = AnswerOf(s)
      BY <3>1, <3>4, <3>5, <3>6 DEF CallOf, AnswerOf
    <3>8. /\ \A t \in Source : CallOf(t)' = IF t = s THEN "run" ELSE CallOf(t)
          /\ \A t \in Source : AnswerOf(t)' = AnswerOf(t)
      BY <3>1, <3>6, <3>7 DEF CallOf, AnswerOf
    <3>9. Abstract!Execute(s)
      BY <3>7, <3>8 DEF Abstract!Execute, CallOf, AnswerOf
    <3> QED BY <3>9
  <2>4. ASSUME NEW h \in Handler, ForwardProc(h), ~Head(queue[h]).res
        PROVE  UNCHANGED Abstract!vars
    BY <2>4, Unseen DEF ForwardProc
  <2>5. ASSUME NEW h \in Handler, ForwardProcReturns(h)
        PROVE  UNCHANGED Abstract!vars
    <3>1. UNCHANGED <<pc, code, ran>>
      BY <2>5 DEF ForwardProcReturns
    <3>2. \A s \in Source : result'[s] = None <=> result[s] = None
      BY <2>a, <3>1 DEF IInv, CallInv
    <3> QED BY <3>1, <3>2, Unseen
  <2>6. ASSUME NEW h \in Handler,
               CancelInterp(h) \/ ThreadExits(h) \/ ThreadGone(h)
        PROVE  UNCHANGED Abstract!vars
    <3>1. UNCHANGED <<pc, request, open, ran>>
      BY <2>6 DEF CancelInterp, ThreadExits, ThreadGone
    <3>2. CASE \/ hpc[h] = "interp" /\ CancelResults(ChansOf(deleting[h]))
               \/ /\ h \in Transform \/ ~Gone(h)
                  /\ CancelResults(ChansAt(h))
      <4>1. hpc[h] = "interp" => \A c \in ChansOf(deleting[h]) : ~Gone(Home(c))
        BY <2>a, Places DEF IInv, DeadInv, ChansOf, Gone
      <4>2. \A c \in ChansAt(h) : Home(c) = h
        BY DEF ChansAt
      <4> QED BY <2>a, <3>1, <3>2, <4>1, <4>2, CancelUnseen
    <3>3. CASE UNCHANGED <<result, code>>
      BY <3>1, <3>3, Unseen
    <3> QED BY <2>6, <3>2, <3>3 DEF CancelInterp, ThreadExits, ThreadGone, Cancel, Running, Gone
  <2>7. ASSUME UNCHANGED <<result, code, ran>>
        PROVE  UNCHANGED Abstract!vars
    BY <2>7, Unseen
  <2>8. ASSUME NEW s \in Source, SourceStep(s)
        PROVE  [Abstract!Next]_(Abstract!vars)
    <3>1. ASSUME NEW c \in Chan, ForwardRefused(s, c)
          PROVE  UNCHANGED <<result, code, ran>>
      BY <3>1 DEF ForwardRefused
    <3>2. CloseReturns(s) \/ SourceExits(s) => UNCHANGED <<result, code, ran>>
      BY DEF CloseReturns, SourceExits
    <3> QED BY <2>1, <2>2, <2>7, <2>8, <3>1, <3>2 DEF SourceStep, Abstract!Next
  <2>9. ASSUME NEW h \in Handler, HandlerStep(h)
        PROVE  [Abstract!Next]_(Abstract!vars)
    <3>1. ASSUME NEW i \in Interp, DeleteReflectedChannelMap(h, i)
          PROVE  UNCHANGED <<result, code, ran>>
      BY <3>1 DEF DeleteReflectedChannelMap
    <3> QED BY <2>3, <2>4, <2>5, <2>6, <2>7, <2>9, <3>1 DEF HandlerStep, Abstract!Next
  <2>10. ASSUME NEW c \in Chan, ReflectEventRun(c) \/ TclChanPostEventObjCmd(c)
         PROVE  UNCHANGED <<result, code, ran>>
    BY <2>10 DEF ReflectEventRun, TclChanPostEventObjCmd
  <2>11. CASE UNCHANGED vars
    BY <2>7, <2>11 DEF vars
  <2> QED BY <2>7, <2>8, <2>9, <2>10, <2>11 DEF Next
<1> QED
  BY <1>1, <1>2, Invariance, PTL DEF Spec, ImplementsRemoteCall, Abstract!Spec
==============================================================================
