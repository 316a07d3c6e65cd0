---------------------------- MODULE TclChanOutput ----------------------------
(***************************************************************************)
(* The output side of one channel of generic/tclIO.c: buffers, background  *)
(* flushing, half-close, close and exit.  The channel is open for reading  *)
(* and writing, is not stacked, belongs to one thread and may be shared by *)
(* several interpreters.                                                   *)
(*                                                                         *)
(* Bytes are numbered in the order in which they are written.  The output  *)
(* queue is the sequence of the bytes left in its buffers: where one       *)
(* buffer ends and the next begins makes no difference, since the driver   *)
(* may accept any part of what it is offered.  The driver does not call    *)
(* back into the channel.  It may answer that it would block in blocking   *)
(* mode too, as a terminal does whose other end was made nonblocking.      *)
(***************************************************************************)
EXTENDS Naturals, Sequences

CONSTANTS
    Interp,    \* the interpreters that may share the channel
    BufSize,   \* statePtr->bufSize
    MaxBytes   \* bound on the bytes the channel has accepted and not discarded

ASSUME OutputConstants ==
    BufSize \in Nat \ {0} /\ MaxBytes \in Nat

VARIABLES
    registered,   \* the interpreters that know the channel: its refCount
    nonblocking,  \* CHANNEL_NONBLOCKING
    bg,           \* BG_FLUSH_SCHEDULED
    closed,       \* CHANNEL_CLOSED
    closedWrite,  \* CHANNEL_CLOSEDWRITE
    writable,     \* TCL_WRITABLE, cleared once the write side is closed
    open,         \* FALSE after CloseChannel
    exiting,      \* TclFinalizeIOSubsystem has run
    cur,          \* the bytes in curOutPtr
    queue,        \* the bytes in the buffers from outQueueHead on
    unreported,   \* unreportedError # 0
    handlers,     \* the interpreters with a writable event: interestMask
    watch,        \* the driver is asked for writable events
    dev,          \* the bytes that the device has accepted
    accepted,     \* how many bytes were written and not discarded
    refused       \* (history) the driver would have blocked on the channel
                  \* although blocking, since it was last made so

flags   == <<registered, nonblocking, closed, closedWrite, exiting, handlers>>
buffers == <<cur, queue, dev, accepted, unreported, refused>>
state   == <<bg, writable, open, watch>>
vars    == <<flags, buffers, state>>

Init ==
    /\ \E i \in Interp : registered = {i}
    /\ nonblocking = FALSE /\ bg = FALSE
    /\ closed = FALSE /\ closedWrite = FALSE
    /\ writable = TRUE /\ open = TRUE /\ exiting = FALSE
    /\ cur = <<>> /\ queue = <<>> /\ unreported = FALSE
    /\ handlers = {} /\ watch = FALSE
    /\ dev = <<>> /\ accepted = 0 /\ refused = FALSE
-----------------------------------------------------------------------------
(***************************************************************************)
(* Helpers.  Callers of FlushChannel fix the variables of flags first, and *)
(* hand over the values that the others have when they call it.            *)
(***************************************************************************)

\* Mutant: UpdateInterest forgets the background flush.
InterestOfHandlers == handlers' # {}

\* The mask of UpdateInterest: a background flush needs writable events.
Interest == handlers' # {} \/ bg'

\* The watch that the driver is left with: recomputed by UpdateInterest or
\* ChanWatch when the background flush starts or ends, or on request.
ChanWatch(bg0, update) ==
    watch' = IF ~open' THEN FALSE
             ELSE IF update \/ bg' # bg0 THEN Interest ELSE watch

\* The current buffer joins the queue when the queue is empty, when it is
\* full, or when the channel is blocking.
ShiftsBuffer(c) ==
    c # <<>> /\ (queue = <<>> \/ Len(c) = BufSize \/ ~nonblocking')

NothingLeft == queue' = <<>> /\ cur' = <<>>

\* Mutant: output in the current buffer does not keep the channel open.
MayCloseEarly == closed' /\ registered' = {} /\ queue' = <<>>

\* All output is out, and nobody uses the channel any more.
MayClose == closed' /\ registered' = {} /\ NothingLeft

\* Mutant: output in the current buffer does not keep the side open.
MayCloseWriteEarly == closedWrite' /\ queue' = <<>>

\* All output is out, and the write side was closed before.
MayCloseWrite == closedWrite' /\ NothingLeft

\* The last part of FlushChannel: CloseChannel or CloseChannelPart, whose
\* close2Proc may fail and then leaves the side open.
CloseWhenDone ==
    \/ /\ MayClose
       /\ open' = FALSE /\ UNCHANGED writable
    \/ /\ ~MayClose /\ MayCloseWrite
       /\ writable' \in {writable, FALSE} /\ UNCHANGED open
    \/ /\ ~MayClose /\ ~MayCloseWrite
       /\ UNCHANGED <<writable, open>>

\* FlushChannel returns the error of a close2Proc that failed.
CloseWriteFailed == MayCloseWrite /\ writable'

\* Mutant: a background flush that wrote something is taken to be over.
FinishAfterProgress(n, bg1) ==
    bg' = (bg1 /\ queue' # <<>> /\ n = 0) /\ CloseWhenDone

\* Mutant: the call that ends a background flush does not close.
FinishWithoutClose(n, bg1) ==
    /\ bg' = (bg1 /\ (n > 0 \/ queue' # <<>>))
    /\ IF bg1 THEN UNCHANGED <<writable, open>> ELSE CloseWhenDone

\* After the driver took n bytes: the background flush goes on if it wrote
\* something, and ends at a call that finds nothing to write.
FinishFlush(n, bg1) ==
    IF bg1 /\ n > 0
    THEN bg' = TRUE /\ UNCHANGED <<writable, open>>
    ELSE bg' = (bg1 /\ queue' # <<>>) /\ CloseWhenDone

\* The flush at exit counts for itself.
RefusedEarlier == refused /\ ~exiting'

\* The loop over the queue q: the driver accepts the first n bytes.
Drained(q, n, acc) ==
    /\ n = Len(q)
    /\ queue' = <<>> /\ accepted' = acc /\ refused' = RefusedEarlier
    /\ UNCHANGED unreported

\* The mode of the channel makes no difference.
WouldBlock(q, n, acc) ==
    /\ n < Len(q)
    /\ queue' = SubSeq(q, n + 1, Len(q)) /\ accepted' = acc
    /\ refused' = (RefusedEarlier \/ ~nonblocking')
    /\ UNCHANGED unreported

Failed(q, n, async) ==
    /\ n < Len(q)
    /\ queue' = <<>> /\ accepted' = Len(dev') /\ refused' = RefusedEarlier
    /\ unreported' = (unreported \/ async)

FlushLoop(async, q, c, acc, bg0) ==
    \E n \in 0 .. Len(q) :
        /\ dev' = dev \o SubSeq(q, 1, n)
        /\ \/ Drained(q, n, acc) /\ cur' = c /\ FinishFlush(n, bg0)
           \/ /\ WouldBlock(q, n, acc) /\ cur' = c
              /\ FinishFlush(n, bg0 \/ ~exiting')
           \/ Failed(q, n, async) /\ cur' = <<>> /\ FinishFlush(n, bg0)

FlushChannel(async, c, acc, bg0) ==
    LET q    == IF ShiftsBuffer(c) THEN queue \o c ELSE queue
        rest == IF ShiftsBuffer(c) THEN <<>> ELSE c
    IN  IF ~async /\ bg0
        THEN /\ queue' = q /\ cur' = rest /\ accepted' = acc /\ bg' = bg0
             /\ UNCHANGED <<dev, unreported, refused, writable, open>>
        ELSE FlushLoop(async, q, rest, acc, bg0)

Running == open /\ ~exiting

\* A script uses the channel, or changes its options, in some interpreter.
InScript == Running /\ registered # {}

\* CheckChannelErrors(statePtr, TCL_WRITABLE) returns 0.
CheckChannelErrors == ~unreported /\ ~closed /\ writable
-----------------------------------------------------------------------------
(***************************************************************************)
(* Operations.                                                             *)
(***************************************************************************)

Tcl_RegisterChannel(i) ==
    /\ InScript /\ i \notin registered
    /\ registered' = registered \cup {i}
    /\ UNCHANGED <<nonblocking, closed, closedWrite, exiting, handlers,
                   buffers, state>>

\* The operation fails with the error of an earlier background flush.
ReportError ==
    /\ InScript /\ unreported
    /\ unreported' = FALSE
    /\ UNCHANGED <<flags, cur, queue, dev, accepted, refused, state>>

\* One byte is written.  The channel is flushed when its buffer is full, and
\* (flush) after each write or line, as -buffering says.
Write(flush) ==
    LET c == Append(cur, accepted + 1)
        called == flush \/ Len(c) = BufSize
    IN  /\ InScript /\ CheckChannelErrors /\ accepted < MaxBytes
        /\ UNCHANGED flags
        /\ IF called
           THEN FlushChannel(FALSE, c, accepted + 1, bg)
           ELSE /\ cur' = c /\ accepted' = accepted + 1
                /\ UNCHANGED <<queue, dev, unreported, refused, bg, writable,
                               open>>
        /\ ChanWatch(bg, accepted' = accepted + 1 /\ ~CloseWriteFailed)

Tcl_Flush ==
    /\ InScript /\ CheckChannelErrors
    /\ UNCHANGED flags
    /\ FlushChannel(FALSE, cur, accepted, bg)
    /\ ChanWatch(bg, FALSE)

\* Mutant: the background flush outlives nonblocking mode.
SetBlockModeKeepsFlush ==
    /\ InScript
    /\ nonblocking' \in BOOLEAN
    /\ refused' = (refused /\ nonblocking')
    /\ UNCHANGED <<registered, closed, closedWrite, exiting, handlers,
                   cur, queue, dev, accepted, unreported, state>>

\* Making a channel blocking, also when it is so already, drops its
\* background flush, which the next flush takes over.
SetBlockMode ==
    /\ InScript
    /\ nonblocking' \in BOOLEAN
    /\ bg' = (bg /\ nonblocking') /\ refused' = (refused /\ nonblocking')
    /\ UNCHANGED <<registered, closed, closedWrite, exiting, handlers,
                   cur, queue, dev, accepted, unreported, writable, open,
                   watch>>

Tcl_CreateChannelHandler(i) ==
    /\ Running /\ i \in registered \ handlers /\ writable
    /\ handlers' = handlers \cup {i}
    /\ UNCHANGED <<registered, nonblocking, closed, closedWrite, exiting,
                   buffers, bg, writable, open>>
    /\ ChanWatch(bg, TRUE)

Tcl_DeleteChannelHandler(i) ==
    /\ Running /\ i \in handlers
    /\ handlers' = handlers \ {i}
    /\ UNCHANGED <<registered, nonblocking, closed, closedWrite, exiting,
                   buffers, bg, writable, open>>
    /\ ChanWatch(bg, TRUE)

\* TclClose: all handlers go, then the channel is flushed and closed.  The
\* watch was recomputed before if a handler of the interpreter went.
TclClose(bg0, update) ==
    /\ handlers' = {} /\ closed' = TRUE
    /\ FlushChannel(FALSE, cur, accepted, bg0)
    /\ ChanWatch(bg0, update)

\* DetachChannel: an interpreter forgets the channel.
Detach(i) ==
    /\ Running /\ i \in registered
    /\ registered' = registered \ {i}
    /\ UNCHANGED <<nonblocking, closedWrite, exiting>>

\* Its handlers for the channel go too.
StaysOpen(i) ==
    /\ handlers' = handlers \ {i}
    /\ UNCHANGED <<buffers, bg, writable, open>>
    /\ ChanWatch(bg, i \in handlers)

Tcl_UnregisterChannel(i) ==
    /\ Detach(i)
    /\ \/ registered' # {} /\ UNCHANGED closed /\ StaysOpen(i)
       \/ registered' = {} /\ bg /\ closed' = TRUE /\ StaysOpen(i)
       \/ registered' = {} /\ ~bg /\ TclClose(bg, i \in handlers)

\* The interpreter is deleted: as Tcl_UnregisterChannel, but a channel with
\* a background flush is not marked as closed.
DeleteChannelTable(i) ==
    /\ Detach(i)
    /\ \/ registered' # {} /\ UNCHANGED closed /\ StaysOpen(i)
       \/ registered' = {} /\ bg /\ UNCHANGED closed /\ StaysOpen(i)
       \/ registered' = {} /\ ~bg /\ TclClose(bg, i \in handlers)

\* Tcl_CloseEx(TCL_CLOSE_WRITE): CloseWrite, or the background flush closes
\* the side when it ends.
HalfClose ==
    /\ InScript /\ writable
    /\ closedWrite' = TRUE
    /\ UNCHANGED <<registered, nonblocking, closed, exiting, handlers>>
    /\ IF bg \/ closedWrite
       THEN UNCHANGED <<buffers, state>>
       ELSE FlushChannel(FALSE, cur, accepted, bg) /\ ChanWatch(bg, FALSE)

\* The event loop reports that the device is writable.  The scripts of the
\* handlers that it then runs are actions of their own.
Tcl_NotifyChannel ==
    /\ Running /\ watch
    /\ UNCHANGED flags
    /\ IF bg THEN FlushChannel(TRUE, cur, accepted, bg)
             ELSE UNCHANGED <<buffers, bg, writable, open>>
    /\ ChanWatch(bg, TRUE)

\* The process exits: an open channel, or one that is being closed in the
\* background, is flushed a last time, after being made blocking if
\* TCL_FLUSH_NONBLOCKING_ON_EXIT asks for it.  The device of a channel that
\* is still registered is then closed under it; nothing runs after that.
TclFinalizeIOSubsystem ==
    /\ Running
    /\ exiting' = TRUE
    /\ nonblocking' \in {nonblocking, FALSE}
    /\ UNCHANGED <<registered, closedWrite>>
    /\ \/ /\ closed /\ ~bg
          /\ nonblocking' = nonblocking
          /\ UNCHANGED <<closed, handlers, buffers, state>>
       \/ /\ (~closed \/ bg) /\ registered = {}
          /\ TclClose(FALSE, FALSE)
       \/ /\ (~closed \/ bg) /\ registered # {} /\ CheckChannelErrors
          /\ UNCHANGED <<closed, handlers>>
          /\ FlushChannel(FALSE, cur, accepted, FALSE)
          /\ ChanWatch(FALSE, FALSE)
       \/ /\ (~closed \/ bg) /\ registered # {} /\ ~CheckChannelErrors
          /\ bg' = FALSE /\ unreported' = FALSE
          /\ UNCHANGED <<closed, handlers, cur, queue, dev, accepted,
                         refused, writable, open, watch>>

Next ==
    \/ \E i \in Interp : \/ Tcl_RegisterChannel(i)
                         \/ Tcl_CreateChannelHandler(i)
                         \/ Tcl_DeleteChannelHandler(i)
                         \/ Tcl_UnregisterChannel(i)
                         \/ DeleteChannelTable(i)
    \/ ReportError
    \/ \E flush \in BOOLEAN : Write(flush)
    \/ Tcl_Flush
    \/ SetBlockMode
    \/ HalfClose
    \/ Tcl_NotifyChannel
    \/ TclFinalizeIOSubsystem

Spec == Init /\ [][Next]_vars

\* A writable event at which the driver keeps its word: it accepts a byte of
\* what is queued, or reports an error.
ServedEvent ==
    /\ Tcl_NotifyChannel
    /\ bg => queue \o cur = <<>> \/ dev' # dev \/ accepted' # accepted

FairSpec == Spec /\ WF_vars(ServedEvent)
-----------------------------------------------------------------------------
(***************************************************************************)
(* Properties.                                                             *)
(***************************************************************************)

TypeOK ==
    /\ registered \subseteq Interp /\ handlers \subseteq registered
    /\ nonblocking \in BOOLEAN /\ exiting \in BOOLEAN
    /\ closed \in BOOLEAN /\ closedWrite \in BOOLEAN
    /\ bg \in BOOLEAN /\ watch \in BOOLEAN
    /\ writable \in BOOLEAN /\ open \in BOOLEAN /\ unreported \in BOOLEAN
    /\ refused \in BOOLEAN
    /\ cur \in Seq(Nat) /\ queue \in Seq(Nat) /\ dev \in Seq(Nat)
    /\ Len(cur) < BufSize
    /\ accepted \in 0 .. MaxBytes

\* What the device has accepted, then the queue, then the current buffer are
\* exactly the bytes written and not discarded by a failed flush, in order,
\* without repetition; a channel is closed, its buffers freed, only when all of
\* them are out.
OutputExact ==
    /\ dev \o queue \o cur = [k \in 1 .. accepted |-> k]
    /\ ~open => queue = <<>> /\ cur = <<>>

\* Output that is queued is on its way: while the channel lives a background
\* flush is watched for, and an error that a background flush left to be
\* reported has left no output behind that could overtake the report.
QueuedIsWatched ==
    /\ open /\ bg /\ ~exiting => watch
    /\ unreported => queue = <<>> /\ cur = <<>>

\* Only one thing strands queued output without a background flush: making
\* the channel blocking (or the end of the process).
OnlyBlockingStrands ==
    [][ (queue = <<>> \/ bg) /\ queue' # <<>> /\ ~bg'
            => SetBlockMode \/ exiting' ]_vars

\* A flush that succeeds on a blocking channel has written everything, also
\* when a background flush was under way before the channel became blocking;
\* so has the flush at exit.  The one way around it is a driver that would
\* block in blocking mode: in this flush, or in an earlier one, which has
\* left a background flush behind.
BlockingFlushWritesAll ==
    [][ (Tcl_Flush \/ TclFinalizeIOSubsystem) /\ ~nonblocking'
            /\ accepted' = accepted
        => dev' = [k \in 1 .. accepted |-> k] \/ refused' ]_vars

\* doc/OpenFileChnl.3: "If the channel is in blocking mode, the call does not
\* return until all the buffered data has been sent to the channel or some
\* error occurred."  It does not hold: FlushChannel takes EAGAIN in blocking
\* mode too, and returns with the data in a background flush (README, section
\* 6).
FlushWaitsForAll ==
    [][ Tcl_Flush /\ ~nonblocking' /\ accepted' = accepted
        => dev' = [k \in 1 .. accepted |-> k] ]_vars

\* The driver is not offered output after its write side was closed.
NoWriteAfterHalfClose == [][dev' # dev => writable]_vars

\* A channel closed with output left is closed in the end by the background
\* flush, whatever the device does meanwhile.
PendingCloseCompletes == closed /\ bg ~> ~open \/ exiting

\* doc/chan.n: "Channels are automatically fully closed when an interpreter
\* is destroyed": a channel that no interpreter knows is closed in the end.
\* It does not hold, because of DeleteChannelTable (README, section 6).
UnusedIsClosed == registered = {} ~> ~open \/ exiting
=============================================================================
