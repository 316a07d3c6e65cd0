----------------------------- MODULE TclReflect -----------------------------
(***************************************************************************)
(* Forwarding between threads for reflected channels (generic/tclIORChan.c)*)
(* and transformations (generic/tclIORTrans.c): an operation on a channel  *)
(* whose handler command lives in another thread is sent there as an       *)
(* event, and the calling thread blocks until the result is set.           *)
(*                                                                         *)
(* A step is a critical section of rcForwardMutex (rtForwardMutex), or     *)
(* what a thread does with its own data between two of them.  Queues are   *)
(* served in order and alerts arrive, as TclNotify shows.                  *)
(***************************************************************************)
EXTENDS Naturals, Sequences

CONSTANTS
    Source,     \* threads that own channels implemented elsewhere
    Handler,    \* threads whose interpreters implement them
    Transform,  \* the handlers of tclIORTrans.c; the others are of tclIORChan.c
    Interp,     \* interpreters of the handlers
    Chan,       \* reflected channels and transformations
    ThreadOf,   \* thread of an interpreter: rcPtr->thread
    HomeOf,     \* interpreter of a channel: rcPtr->interp
    OwnerOf,    \* thread that uses a channel: rcPtr->owner
    Posting,    \* channels whose owner asks for events
    Killed,     \* handlers that may exit without deleting their interpreters
    MaxPosts,   \* bound on the ReflectEvents of a channel in the owner's queue
    None

ASSUME ReflectConstants ==
    /\ Transform \subseteq Handler /\ Killed \subseteq Handler
    /\ ThreadOf \in [Interp -> Handler]
    /\ HomeOf \in [Chan -> Interp] /\ OwnerOf \in [Chan -> Source]
    /\ Source \cap Handler = {} /\ Posting \subseteq Chan
    /\ MaxPosts \in Nat \ {0}
    /\ None \notin Source \cup Handler \cup Interp \cup Chan
    /\ None \notin [result : {"none", "ok", "error"}, evPtr : BOOLEAN]

VARIABLES
    pc,        \* a source: "idle", "wait", "closing", "exited"
    request,   \* the operation it has under way, [chan, op], or None
    result,    \* its ForwardingResult on forwardList, or None: the field
               \* result, and whether evPtr is set
    code,      \* base.code of its ForwardParam: "none", "ok" or "lost"
    queue,     \* per handler: ForwardingEvents in its queue; res is FALSE
               \* once resultPtr is NULL
    frames,    \* per handler: calls of ForwardProc, the innermost last
    hpc,       \* a handler: "run", "interp", "thread", "exited"
    deleting,  \* the interpreter it is deleting
    interps,   \* the interpreters that exist
    dead,      \* channels marked dead
    imap, tmap,\* channels in the maps of interpreters and of threads
    open,      \* channels whose owner has not freed the structure
    interest,  \* channels whose owner wants events
    posts,     \* per channel: ReflectEvents in the queue of its owner
    ran,       \* history: sources whose operation under way has been run
    late,      \* history: sources that forwarded to an exiting thread after
               \* it had cancelled, and before it marked its channels
    freedUse   \* history: a call of ForwardProc has used freed memory

sourceVars  == <<pc, request, code>>
handlerVars == <<hpc, deleting, interps>>
chanVars    == <<dead, imap, tmap, open, interest, posts>>
history == <<ran, late, freedUse>>
vars == <<sourceVars, result, queue, frames, handlerVars, chanVars, history>>

Ops == {"input", "watch", "drain", "close"}
Home(c) == ThreadOf[HomeOf[c]]
Transforms == {c \in Chan : Home(c) \in Transform}

Init ==
    /\ pc = [s \in Source |-> "idle"] /\ request = [s \in Source |-> None]
    /\ result = [s \in Source |-> None] /\ code = [s \in Source |-> "none"]
    /\ queue = [h \in Handler |-> <<>>] /\ frames = [h \in Handler |-> <<>>]
    /\ hpc = [h \in Handler |-> "run"] /\ deleting = [h \in Handler |-> None]
    /\ interps = Interp
    /\ dead = {} /\ imap = Chan /\ tmap = Chan /\ open = Chan
    /\ interest = {} /\ posts = [c \in Chan |-> 0]
    /\ ran = {} /\ late = {} /\ freedUse = FALSE

------------------------------------------------------------------------------
(* The owner's thread.                                                     *)

Message(s, c, o) == [src |-> s, chan |-> c, op |-> o, res |-> TRUE]

(* The first critical section of ForwardOpToHandlerThread, on a channel    *)
(* that is not dead.  "drain" is what closing a transformation does first; *)
(* "input" stands for every operation without an effect on the channel's   *)
(* structure.  An event for a thread without a notifier is dropped.        *)
ForwardOpToHandlerThread(s, c, o) ==
    /\ pc[s] = "idle" /\ c \in open /\ OwnerOf[c] = s
    /\ o = "watch" => c \in Posting \ Transforms
    /\ o = "drain" => c \in Transforms
    /\ c \notin dead
    /\ result' = [result EXCEPT ![s] = [result |-> "none", evPtr |-> TRUE]]
    /\ request' = [request EXCEPT ![s] = [chan |-> c, op |-> o]]
    /\ code' = [code EXCEPT ![s] = "none"]
    /\ queue' = IF hpc[Home(c)] = "exited" THEN queue
                ELSE [queue EXCEPT ![Home(c)] = Append(@, Message(s, c, o))]
    /\ pc' = [pc EXCEPT ![s] = "wait"]
    /\ late' = IF hpc[Home(c)] = "thread" /\ Home(c) \notin Transform
               THEN late \cup {s} ELSE late \ {s}
    /\ UNCHANGED <<frames, handlerVars, chanVars, ran, freedUse>>

(* Of the operations refused because the channel is dead, closing goes on. *)
ForwardRefused(s, c) ==
    /\ pc[s] = "idle" /\ c \in open /\ OwnerOf[c] = s
    /\ c \in dead
    /\ request' = [request EXCEPT ![s] = [chan |-> c, op |-> "close"]]
    /\ pc' = [pc EXCEPT ![s] = "closing"]
    /\ UNCHANGED <<code, result, queue, frames, handlerVars, chanVars, history>>

(* Mutant: any wake-up is taken for the result.                            *)
ForwardReturnsOnWakeup(s) ==
    /\ pc[s] = "wait"
    /\ result' = [result EXCEPT ![s] = None]
    /\ pc' = [pc EXCEPT ![s] = IF request[s].op = "close" THEN "closing" ELSE "idle"]
    /\ request' = [request EXCEPT ![s] = IF @.op = "close" THEN @ ELSE None]
    /\ ran' = ran \ {s}
    /\ UNCHANGED <<code, queue, frames, handlerVars, chanVars, late, freedUse>>

(* The wait ends: the result is taken off forwardList and freed.  A        *)
(* transformation is closed as well when draining it fails.                *)
ForwardReturns(s) ==
    /\ pc[s] = "wait" /\ result[s].result # "none"
    /\ result' = [result EXCEPT ![s] = None]
    /\ \/ /\ request[s].op \in {"close", "drain"}
          /\ pc' = [pc EXCEPT ![s] = "closing"]
          /\ UNCHANGED request
       \/ /\ request[s].op # "close"
          /\ request[s].op = "drain" => code[s] = "ok"
          /\ pc' = [pc EXCEPT ![s] = "idle"]
          /\ request' = [request EXCEPT ![s] = None]
    /\ ran' = ran \ {s}
    /\ UNCHANGED <<code, queue, frames, handlerVars, chanVars, late, freedUse>>

(* Mutant: events that were posted stay in the queue.                      *)
CloseKeepsEvents(s) ==
    /\ pc[s] = "closing"
    /\ open' = open \ {request[s].chan}
    /\ pc' = [pc EXCEPT ![s] = "idle"]
    /\ request' = [request EXCEPT ![s] = None]
    /\ UNCHANGED <<code, result, queue, frames, handlerVars, dead, imap, tmap,
                   interest, posts, history>>

(* The rest of ReflectClose: pending ReflectEvents of the channel go, and  *)
(* its structure is freed.                                                 *)
CloseReturns(s) ==
    /\ pc[s] = "closing"
    /\ LET c == request[s].chan IN
       /\ open' = open \ {c}
       /\ posts' = [posts EXCEPT ![c] = 0]
    /\ pc' = [pc EXCEPT ![s] = "idle"]
    /\ request' = [request EXCEPT ![s] = None]
    /\ UNCHANGED <<code, result, queue, frames, handlerVars, dead, imap, tmap,
                   interest, history>>

(* Tcl_NotifyChannel, for an event posted from the handler's thread.       *)
ReflectEventRun(c) ==
    /\ pc[OwnerOf[c]] = "idle" /\ posts[c] > 0
    /\ posts' = [posts EXCEPT ![c] = @ - 1]
    /\ UNCHANGED <<sourceVars, result, queue, frames, handlerVars, dead, imap,
                   tmap, open, interest, history>>

(* The thread exits once TclFinalizeIOSubsystem has closed its channels.   *)
SourceExits(s) ==
    /\ pc[s] = "idle" /\ \A c \in open : OwnerOf[c] # s
    /\ pc' = [pc EXCEPT ![s] = "exited"]
    /\ UNCHANGED <<request, code, result, queue, frames, handlerVars, chanVars,
                   history>>

------------------------------------------------------------------------------
(* The handler's thread.                                                   *)

Top(h) == frames[h][Len(frames[h])]
Pop(h) == [frames EXCEPT ![h] = SubSeq(@, 1, Len(@) - 1)]

(* Scripts run: outside of every method, or in the innermost one, and not  *)
(* after its Tcl_Release has deleted its interpreter.                      *)
Running(h) ==
    hpc[h] = "run" /\ (frames[h] # <<>> => HomeOf[Top(h).chan] \in interps)

(* The next event is run, also from an event loop inside of a method.      *)
ForwardProc(h) ==
    /\ Running(h) /\ queue[h] # <<>>
    /\ queue' = [queue EXCEPT ![h] = Tail(@)]
    /\ LET e == Head(queue[h]) IN
       IF e.res
       THEN /\ frames' = [frames EXCEPT ![h] = Append(@, e)]
            /\ code' = [code EXCEPT ![e.src] = "ok"]
            /\ ran' = ran \cup {e.src}
            /\ \/ e.op = "watch" /\ interest' = interest \cup {e.chan}
               \/ e.op = "watch" /\ interest' = interest \ {e.chan}
               \/ e.op # "watch" /\ UNCHANGED interest
       ELSE UNCHANGED <<frames, code, ran, interest>>
    /\ UNCHANGED <<pc, request, result, handlerVars, dead, imap, tmap, open,
                   posts, late, freedUse>>

(* The caller is blocked in the operation that f is run for.               *)
StillWaits(f) ==
    pc[f.src] = "wait" /\ request[f.src] = [chan |-> f.chan, op |-> f.op]

(* The method returns, which sets the result through the pointer read at   *)
(* the start; evPtr of the result stays set although the event is freed.   *)
(* Closing removes the channel from the maps of the handler's side.  Where *)
(* the interpreter went with the method's Tcl_Release the caller may have  *)
(* gone on: the write then goes to freed memory, where another result may  *)
(* be by now.  Closing looks for the map in the freed interpreter, other   *)
(* operations may report an error through it.                              *)
ForwardProcReturns(h) ==
    /\ hpc[h] = "run" /\ frames[h] # <<>>
    /\ LET f == Top(h)
           freed == HomeOf[f.chan] \notin interps
           used == freedUse \/ ~StillWaits(f) \/ (freed /\ f.op = "close")
       IN
       /\ \/ StillWaits(f) /\ result' = [result EXCEPT ![f.src].result = "ok"]
          \/ ~StillWaits(f) /\ UNCHANGED result
          \/ /\ ~StillWaits(f)
             /\ \E s \in Source :
                   result[s] # None /\ result' = [result EXCEPT ![s].result = "ok"]
       /\ freedUse' \in {used, used \/ freed}
       /\ IF f.op = "close"
          THEN /\ imap' = imap \ {f.chan} /\ tmap' = tmap \ {f.chan}
               /\ dead' = IF h \in Transform THEN dead ELSE dead \cup {f.chan}
          ELSE UNCHANGED <<imap, tmap, dead>>
    /\ frames' = Pop(h)
    /\ UNCHANGED <<sourceVars, queue, handlerVars, open, interest, posts, ran,
                   late>>

(* "chan postevent": an event for the owner's queue.                       *)
TclChanPostEventObjCmd(c) ==
    /\ Running(Home(c)) /\ HomeOf[c] \in interps
    /\ c \in imap \ Transforms /\ c \in interest
    /\ posts[c] < MaxPosts
    /\ posts' = [posts EXCEPT ![c] = @ + 1]
    /\ UNCHANGED <<sourceVars, result, queue, frames, handlerVars, dead, imap,
                   tmap, open, interest, history>>

------------------------------------------------------------------------------
(* Deletion of interpreters and exit of the handler's thread.              *)

Pending(C) == {s \in Source : /\ result[s] # None /\ result[s].evPtr
                              /\ request[s].chan \in C}

(* Mutant: the event keeps its resultPtr.                                  *)
DetachForgotten(events, S) == events

Detach(events, S) ==
    [i \in DOMAIN events |->
        [events[i] EXCEPT !.res = @ /\ events[i].src \notin S]]

HasEvent(s) ==
    \E h \in Handler : \/ \E i \in DOMAIN queue[h] : queue[h][i].src = s
                       \/ \E i \in DOMAIN frames[h] : frames[h][i].src = s

(* Under the lock: the results of operations on C that have an event are   *)
(* detached from it and set to an error.  The error message goes through   *)
(* the event; whether it arrives when the event is freed is not defined.   *)
CancelResults(C) ==
    LET S == Pending(C) IN
    /\ result' = [s \in Source |-> IF s \in S THEN [result |-> "error",
                                                    evPtr |-> FALSE]
                                  ELSE result[s]]
    /\ \E T \in SUBSET S :
          /\ \A s \in S : HasEvent(s) => s \in T
          /\ code' = [s \in Source |-> IF s \in T THEN "lost" ELSE code[s]]

Cancel(h, C) ==
    /\ CancelResults(C)
    /\ queue' = [queue EXCEPT ![h] = Detach(@, Pending(C))]
    /\ frames' = [frames EXCEPT ![h] = Detach(@, Pending(C))]

ChansOf(i) == {c \in Chan : HomeOf[c] = i}
ChansAt(h) == {c \in Chan : Home(c) = h}

(* DeleteReflectedChannelMap, DeleteReflectedTransformMap: the channels in *)
(* the map of the interpreter are marked, then results are cancelled.  An  *)
(* interpreter with methods running is deleted by the Tcl_Release of the   *)
(* outermost one, when that has returned and ForwardProc has not.          *)
DeleteReflectedChannelMap(h, i) ==
    /\ hpc[h] = "run" /\ i \in interps /\ ThreadOf[i] = h
    /\ \A k \in DOMAIN frames[h] :
          k < Len(frames[h]) => HomeOf[frames[h][k].chan] # i
    /\ interps' = interps \ {i}
    /\ LET C == imap \cap ChansOf(i) IN
       /\ dead' = dead \cup C
       /\ imap' = imap \ C /\ tmap' = tmap \ ChansOf(i)
    /\ hpc' = [hpc EXCEPT ![h] = "interp"]
    /\ deleting' = [deleting EXCEPT ![h] = i]
    /\ UNCHANGED <<sourceVars, result, queue, frames, open, interest, posts, history>>

CancelInterp(h) ==
    /\ hpc[h] = "interp"
    /\ Cancel(h, ChansOf(deleting[h]))
    /\ hpc' = [hpc EXCEPT ![h] = "run"]
    /\ deleting' = [deleting EXCEPT ![h] = None]
    /\ UNCHANGED <<pc, request, interps, chanVars, history>>

(* Mutant: the channels leave the map but are not marked.                  *)
MarkThreadForgotten(h) ==
    /\ tmap' = tmap \ ChansAt(h)
    /\ UNCHANGED dead

(* The exit handler DeleteThreadReflectedChannelMap cancels first and then *)
(* marks the channels dead; DeleteThreadReflectedTransformMap does it the  *)
(* other way round.  TclFinalizeNotifier then frees the queue.             *)
MarkThread(h) ==
    /\ dead' = dead \cup (tmap \cap ChansAt(h))
    /\ tmap' = tmap \ ChansAt(h)

MayExit(h) == \/ h \in Killed
              \/ frames[h] = <<>> /\ \A i \in interps : ThreadOf[i] # h

ThreadExits(h) ==
    /\ Running(h) /\ MayExit(h)
    /\ \/ /\ h \in Transform /\ MarkThread(h)
          /\ UNCHANGED <<result, queue, frames, code>>
       \/ /\ h \notin Transform /\ Cancel(h, ChansAt(h))
          /\ UNCHANGED <<dead, tmap>>
    /\ hpc' = [hpc EXCEPT ![h] = "thread"]
    /\ UNCHANGED <<pc, request, deleting, interps, imap, open, interest, posts,
                   history>>

ThreadGone(h) ==
    /\ hpc[h] = "thread"
    /\ \/ /\ h \in Transform /\ CancelResults(ChansAt(h))
          /\ UNCHANGED <<dead, tmap>>
       \/ /\ h \notin Transform /\ MarkThread(h)
          /\ UNCHANGED <<result, code>>
    /\ hpc' = [hpc EXCEPT ![h] = "exited"]
    /\ queue' = [queue EXCEPT ![h] = <<>>]
    /\ frames' = [frames EXCEPT ![h] = <<>>]
    /\ UNCHANGED <<pc, request, deleting, interps, imap, open, interest, posts,
                   history>>

------------------------------------------------------------------------------
SourceStep(s) ==
    \/ \E c \in Chan, o \in Ops : ForwardOpToHandlerThread(s, c, o)
    \/ \E c \in Chan : ForwardRefused(s, c)
    \/ ForwardReturns(s) \/ CloseReturns(s) \/ SourceExits(s)

HandlerStep(h) ==
    \/ ForwardProc(h) \/ ForwardProcReturns(h)
    \/ \E i \in Interp : DeleteReflectedChannelMap(h, i)
    \/ CancelInterp(h)
    \/ ThreadExits(h) \/ ThreadGone(h)

Next ==
    \/ \E s \in Source : SourceStep(s)
    \/ \E h \in Handler : HandlerStep(h)
    \/ \E c \in Chan : ReflectEventRun(c) \/ TclChanPostEventObjCmd(c)

Spec == Init /\ [][Next]_vars

(* Threads that have been woken go on, handlers serve their queues, what   *)
(* has begun to exit does, and every method returns in the end, also with  *)
(* other methods served inside of it.                                      *)
Fairness ==
    /\ \A s \in Source : WF_vars(ForwardReturns(s))
    /\ \A h \in Handler :
          /\ WF_vars(ForwardProc(h))
          /\ WF_vars(CancelInterp(h) \/ ThreadGone(h))
          /\ \A s \in Source :
                SF_vars(frames[h] # <<>> /\ Top(h).src = s /\ ForwardProcReturns(h))

FairSpec == Spec /\ Fairness

------------------------------------------------------------------------------
(* Properties.                                                             *)

Event == [src : Source, chan : Chan, op : Ops, res : BOOLEAN]

(* Every variable stays in its type.                                       *)
TypeOK ==
    /\ pc \in [Source -> {"idle", "wait", "closing", "exited"}]
    /\ request \in [Source -> [chan : Chan, op : Ops] \cup {None}]
    /\ result \in [Source -> [result : {"none", "ok", "error"}, evPtr : BOOLEAN]
                             \cup {None}]
    /\ code \in [Source -> {"none", "ok", "lost"}]
    /\ queue \in [Handler -> Seq(Event)] /\ frames \in [Handler -> Seq(Event)]
    /\ hpc \in [Handler -> {"run", "interp", "thread", "exited"}]
    /\ deleting \in [Handler -> Interp \cup {None}] /\ interps \subseteq Interp
    /\ dead \subseteq Chan /\ imap \subseteq Chan /\ tmap \subseteq Chan
    /\ open \subseteq Chan /\ interest \subseteq Chan
    /\ posts \in [Chan -> 0..MaxPosts]
    /\ ran \subseteq Source /\ late \subseteq Source /\ freedUse \in BOOLEAN

(* The events of a source that can still set its result.                   *)
Answers(s) ==
    LET inQueue(h) == {<<h, "queue", i>> : i \in {j \in DOMAIN queue[h] :
                          queue[h][j].src = s /\ queue[h][j].res}}
        inFrame(h) == {<<h, "frame", i>> : i \in {j \in DOMAIN frames[h] :
                          frames[h][j].src = s /\ frames[h][j].res}}
    IN UNION {inQueue(h) \cup inFrame(h) : h \in Handler}

(* A thread that waits for a result has exactly one event that will set    *)
(* it, in a thread that will still serve or cancel it, whichever           *)
(* interpreters and threads go meanwhile, as long as ForwardProc has used  *)
(* no freed memory and except for one that forwards to a thread between    *)
(* its two exit steps (README, section 6).                                 *)
WaiterHasEvent ==
    ~freedUse => \A s \in Source \ late :
       pc[s] = "wait" /\ result[s].result = "none" =>
          LET events == Answers(s) IN
          \E x \in events :
             /\ events = {x}
             /\ result[s].evPtr
             /\ hpc[x[1]] \in {"run", "interp"}
                              \cup (IF x[1] \in Transform THEN {"thread"} ELSE {})

CallerBlocked(f) ==
    StillWaits(f) /\ result[f.src] # None /\ result[f.src].result = "none"

(* What ForwardProc relies on (its note on access to the data): while a    *)
(* method runs, the thread it runs for is blocked, so that its parameters  *)
(* and its ForwardingResult exist.  A method has run in full when its      *)
(* interpreter goes.                                                       *)
CallerIsQuiescent ==
    ~freedUse => \A h \in Handler : hpc[h] \in {"run", "interp"} =>
       \A i \in DOMAIN frames[h] : LET f == frames[h][i] IN
          f.res \/ HomeOf[f.chan] \in interps => CallerBlocked(f)

(* The note itself: the thread that owns the data is blocked until         *)
(* ForwardProc, which goes on to use the data after the method, returns.   *)
(* It does not hold: a method may delete its interpreter (README, section  *)
(* 6).                                                                     *)
DataIsOurs ==
    \A h \in Handler : hpc[h] \in {"run", "interp"} =>
       \A i \in DOMAIN frames[h] : StillWaits(frames[h][i])

(* The command of the channel can find it, in a thread that runs.          *)
MayPost(c) ==
    /\ c \in imap /\ HomeOf[c] \in interps
    /\ hpc[Home(c)] \in {"run", "interp"}

(* What the race noted in TclChanPostEventObjCmd is about: a channel that  *)
(* events can be posted for, and one they have been posted for, has not    *)
(* been freed by its owner, and the owner's thread exists.                 *)
PostsReachOpenChannels ==
    ~freedUse => \A c \in Chan \ Transforms :
       posts[c] > 0 \/ MayPost(c) => c \in open /\ pc[OwnerOf[c]] # "exited"

(* Forwarding is a remote call: answered once, run at most once and not    *)
(* after the answer, with an answer only if it ran or "lost", as long as   *)
(* ForwardProc uses no freed memory.                                       *)
Abstract == INSTANCE RemoteCall WITH
    Caller <- Source,
    call   <- [s \in Source |-> IF result[s] = None THEN "idle"
                                ELSE IF s \in ran THEN "run" ELSE "pending"],
    answer <- [s \in Source |-> IF result[s] = None THEN code[s] ELSE "none"]

ImplementsRemoteCall ==
    Abstract!Init /\ [][freedUse' \/ Abstract!Next]_(Abstract!vars)

(* A forwarded operation returns, also when the interpreter or the thread  *)
(* it was forwarded to goes.  A thread with channels cancels first and     *)
(* marks them dead afterwards, and can miss a waiter (README, section 6).  *)
WaiterAnswered == \A s \in Source : pc[s] = "wait" ~> pc[s] # "wait"
=============================================================================
