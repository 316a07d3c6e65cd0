------------------------ MODULE TclChanOutput_proofs ------------------------
(***************************************************************************)
(* Proofs about TclChanOutput, for any number of interpreters, any size of *)
(* a buffer and any amount of output.  All steps that move output go       *)
(* through FlushChannel, so what it does to the bytes (FlushKeepsOrder)    *)
(* and to the flags (FlushSettles) is proved once.                         *)
(***************************************************************************)
EXTENDS TclChanOutput, SequenceTheorems, TLAPS

(* The first n bytes in order.                                             *)
Bytes(n) == [k \in 1 .. n |-> k]

(* The flags agree: a blocking channel is flushed in the background only   *)
(* when the driver has refused its output, only a channel that nobody      *)
(* knows is closed, a side that is closed has no output, and a closed      *)
(* channel without a background flush stays open only in nonblocking mode. *)
FlagsInv ==
    /\ bg => nonblocking \/ refused
    /\ closed => registered = {}
    /\ ~writable => queue = <<>> /\ cur = <<>>
    /\ closed /\ open /\ ~bg /\ ~exiting => nonblocking

(* The inductive invariant.                                                *)
IInv == TypeOK /\ OutputExact /\ QueuedIsWatched /\ FlagsInv
-----------------------------------------------------------------------------
(* Facts about sequences of bytes: those of the library for Seq(Nat).      *)

(* Concatenation is associative.                                           *)
LEMMA Associative ==
    ASSUME NEW s \in Seq(Nat), NEW t \in Seq(Nat), NEW u \in Seq(Nat)
    PROVE  (s \o t) \o u = s \o (t \o u)
  BY ConcatAssociative

(* Sequences with the same elements are the same.                          *)
LEMMA Equal ==
    ASSUME NEW s \in Seq(Nat), NEW t \in Seq(Nat),
           Len(s) = Len(t), \A i \in 1 .. Len(s) : s[i] = t[i]
    PROVE  s = t
  BY SeqEqual

(* The bytes in order are a sequence, each at its own number.              *)
LEMMA BytesProperties ==
    ASSUME NEW n \in Nat
    PROVE  /\ Bytes(n) \in Seq(Nat) /\ Len(Bytes(n)) = n
           /\ \A k \in 1 .. n : Bytes(n)[k] = k
<1>1. Bytes(n) \in [1 .. n -> Nat]
  BY DEF Bytes
<1> QED BY <1>1 DEF Bytes

(* A sequence that begins the first bytes consists of the first bytes.     *)
LEMMA PrefixOfBytes ==
    ASSUME NEW n \in Nat, NEW s \in Seq(Nat), NEW t \in Seq(Nat),
           s \o t = Bytes(n)
    PROVE  Len(s) \in 0 .. n /\ s = Bytes(Len(s)) /\ Len(s) + Len(t) = n
<1>1. Len(s) \in Nat /\ Len(t) \in Nat
  OBVIOUS
<1>2. Len(s) + Len(t) = n
  <2>1. Len(s \o t) = Len(s) + Len(t)
    OBVIOUS
  <2>2. Len(Bytes(n)) = n
    BY BytesProperties
  <2> QED BY <2>1, <2>2
<1>3. \A k \in 1 .. Len(s) : s[k] = Bytes(Len(s))[k]
  <2> TAKE k \in 1 .. Len(s)
  <2>1. k \in 1 .. Len(s) + Len(t) /\ k <= Len(s)
    BY <1>1
  <2>2. (s \o t)[k] = s[k]
    BY <2>1
  <2> QED BY <1>1, <1>2, <2>1, <2>2, BytesProperties
<1>4. s = Bytes(Len(s))
  BY <1>1, <1>3, Equal, BytesProperties
<1> QED BY <1>1, <1>2, <1>4

(* One more byte.                                                          *)
LEMMA AppendByte ==
    ASSUME NEW n \in Nat, NEW s \in Seq(Nat), s = Bytes(n)
    PROVE  s \o <<n + 1>> = Bytes(n + 1)
<1>1. <<n + 1>> \in Seq(Nat) /\ Len(<<n + 1>>) = 1 /\ <<n + 1>>[1] = n + 1
  OBVIOUS
<1> DEFINE b == <<n + 1>>
<1> HIDE DEF b
<1>2. /\ s \in Seq(Nat) /\ Len(s) = n
      /\ \A k \in 1 .. n : s[k] = k
  BY BytesProperties
<1>3. /\ s \o b \in Seq(Nat) /\ Len(s \o b) = n + 1
      /\ \A k \in 1 .. n + 1 : (s \o b)[k] = k
  BY <1>1, <1>2 DEF b
<1>4. Bytes(n + 1) \in Seq(Nat) /\ Len(Bytes(n + 1)) = n + 1
      /\ \A k \in 1 .. n + 1 : Bytes(n + 1)[k] = k
  BY BytesProperties
<1> QED BY <1>3, <1>4, Equal DEF b

(* The driver takes the first k bytes of q and appends them to d.          *)
LEMMA TakeBytes ==
    ASSUME NEW d \in Seq(Nat), NEW q \in Seq(Nat), NEW k \in 0 .. Len(q)
    PROVE  /\ SubSeq(q, 1, k) \in Seq(Nat)
           /\ SubSeq(q, k + 1, Len(q)) \in Seq(Nat)
           /\ d \o SubSeq(q, 1, k) \in Seq(Nat)
           /\ (d \o SubSeq(q, 1, k)) \o SubSeq(q, k + 1, Len(q)) = d \o q
<1> DEFINE a == SubSeq(q, 1, k)
           b == SubSeq(q, k + 1, Len(q))
<1>1. Len(q) \in Nat
  OBVIOUS
<1>2. /\ a \in Seq(Nat) /\ Len(a) = k
      /\ \A i \in 1 .. k : a[i] = q[i]
  BY <1>1
<1>3. /\ b \in Seq(Nat) /\ Len(b) = Len(q) - k
      /\ \A i \in 1 .. Len(q) - k : b[i] = q[k + i]
  BY <1>1
<1> HIDE DEF a, b
<1>4. a \o b \in Seq(Nat) /\ Len(a \o b) = Len(q)
  BY <1>1, <1>2, <1>3
<1>5. \A i \in 1 .. Len(q) : (a \o b)[i] = q[i]
  <2> TAKE i \in 1 .. Len(q)
  <2>1. CASE i <= k
    BY <1>1, <1>2, <1>3, <2>1
  <2>2. CASE ~(i <= k)
    <3>1. i \in 1 .. Len(a) + Len(b) /\ ~(i <= Len(a)) /\ Len(a) = k
      BY <1>1, <1>2, <1>3, <2>2
    <3>2. (a \o b)[i] = b[i - Len(a)]
      BY <1>2, <1>3, <3>1, ConcatProperties, Zenon
    <3>3. i - k \in 1 .. Len(q) - k /\ k + (i - k) = i
      BY <1>1, <2>2
    <3> QED BY <1>3, <3>1, <3>2, <3>3
  <2> QED BY <2>1, <2>2
<1>6. a \o b = q
  BY <1>1, <1>4, <1>5, Equal
<1>7. (d \o a) \o b = d \o (a \o b)
  BY <1>2, <1>3, Associative, Zenon
<1>8. d \o a \in Seq(Nat)
  BY <1>2
<1> QED BY <1>2, <1>3, <1>6, <1>7, <1>8 DEF a, b
-----------------------------------------------------------------------------
(* A flush keeps the bytes that are left in their order, each once, whether *)
(* the driver takes all of them, stops, or fails.                           *)
LEMMA FlushKeepsOrder ==
    ASSUME NEW async, NEW bg0, NEW c \in Seq(Nat), NEW acc \in 0 .. MaxBytes,
           dev \in Seq(Nat), queue \in Seq(Nat), Len(c) <= BufSize,
           dev \o queue \o c = Bytes(acc),
           FlushChannel(async, c, acc, bg0)
    PROVE  /\ dev' \in Seq(Nat) /\ queue' \in Seq(Nat) /\ cur' \in Seq(Nat)
           /\ Len(cur') < BufSize /\ accepted' \in 0 .. MaxBytes
           /\ dev' \o queue' \o cur' = Bytes(accepted')
<1> DEFINE q == IF ShiftsBuffer(c) THEN queue \o c ELSE queue
           rest == IF ShiftsBuffer(c) THEN <<>> ELSE c
<1> USE OutputConstants
<1>0. <<>> \in Seq(Nat) /\ Len(<<>>) = 0 /\ Len(c) \in Nat
  OBVIOUS
<1>1. /\ q \in Seq(Nat) /\ rest \in Seq(Nat) /\ Len(rest) < BufSize
      /\ dev \o q \o rest = Bytes(acc)
  <2>1. CASE ShiftsBuffer(c)
    <3>1. queue \o c \in Seq(Nat)
      OBVIOUS
    <3>2. dev \o (queue \o c) = Bytes(acc)
      BY Associative, Zenon
    <3>3. acc \in Nat /\ Bytes(acc) \in Seq(Nat)
      BY BytesProperties
    <3>4. q = queue \o c /\ rest = <<>>
      BY <2>1
    <3>5. (dev \o (queue \o c)) \o <<>> = Bytes(acc)
      BY <3>2, <3>3
    <3> HIDE DEF q, rest
    <3>6. (dev \o q) \o rest = Bytes(acc)
      BY <3>4, <3>5, Zenon
    <3> QED BY <1>0, <3>1, <3>4, <3>6
  <2>2. CASE ~ShiftsBuffer(c)
    BY <1>0, <2>2 DEF ShiftsBuffer
  <2> QED BY <2>1, <2>2
<1>2. CASE ~async /\ bg0
  <2>1. queue' = q /\ cur' = rest /\ accepted' = acc /\ dev' = dev
    BY <1>2 DEF FlushChannel
  <2> QED BY <1>1, <2>1
<1>3. CASE ~(~async /\ bg0)
  <2>1. FlushLoop(async, q, rest, acc, bg0)
    BY <1>3 DEF FlushChannel
  <2> HIDE DEF q, rest
  <2>2. PICK n \in 0 .. Len(q) :
          /\ dev' = dev \o SubSeq(q, 1, n)
          /\ \/ n = Len(q) /\ queue' = <<>> /\ accepted' = acc /\ cur' = rest
             \/ /\ queue' = SubSeq(q, n + 1, Len(q)) /\ accepted' = acc
                /\ cur' = rest
             \/ queue' = <<>> /\ accepted' = Len(dev') /\ cur' = <<>>
    BY <2>1 DEF FlushLoop, Drained, WouldBlock, Failed
  <2> DEFINE left == SubSeq(q, n + 1, Len(q))
  <2>3. /\ left \in Seq(Nat) /\ dev' \in Seq(Nat)
        /\ dev' \o left = dev \o q
    BY <1>1, <2>2, TakeBytes
  <2>4. n = Len(q) => left = <<>>
    BY <1>1, SubSeqEmpty
  <2> HIDE DEF left
  <2>5. CASE queue' = left /\ accepted' = acc /\ cur' = rest
    BY <1>1, <2>3, <2>5
  <2>6. CASE queue' = <<>> /\ accepted' = Len(dev') /\ cur' = <<>>
    <3> DEFINE lost == left \o rest
    <3>0. dev' \in Seq(Nat) /\ left \in Seq(Nat) /\ rest \in Seq(Nat)
      BY <1>1, <2>3
    <3>1. lost \in Seq(Nat)
      BY <3>0
    <3>2. (dev' \o left) \o rest = dev' \o (left \o rest)
      BY ONLY <3>0, Associative, Zenon
    <3>3. dev' \o lost = Bytes(acc)
      BY <1>1, <2>3, <3>2
    <3> HIDE DEF lost
    <3>4. acc \in Nat
      OBVIOUS
    <3>5. Len(dev') \in 0 .. acc /\ dev' = Bytes(Len(dev'))
      BY <2>3, <3>1, <3>3, <3>4, PrefixOfBytes, Zenon
    <3>6. dev' \o <<>> \o <<>> = dev'
      BY <2>3
    <3> QED BY <1>0, <2>3, <2>6, <3>5, <3>6
  <2> QED BY <2>2, <2>4, <2>5, <2>6 DEF left
<1> QED BY <1>2, <1>3

(* The end of a flush.  It is not cut short unless the background flush has *)
(* made progress, and closes only when no output is left.                   *)
LEMMA FinishSettles ==
    ASSUME NEW n, NEW bg1 \in BOOLEAN, open = TRUE, writable \in BOOLEAN,
           FinishFlush(n, bg1)
    PROVE  /\ bg' \in BOOLEAN /\ writable' \in BOOLEAN /\ open' \in BOOLEAN
           /\ bg' => bg1
           /\ bg1 /\ ~bg' => queue' = <<>>
           /\ ~open' => NothingLeft
           /\ writable /\ ~writable' => NothingLeft
           /\ ~bg' /\ MayClose => ~open'
<1>1. CASE bg1 /\ n > 0
  BY <1>1 DEF FinishFlush
<1>2. CASE ~(bg1 /\ n > 0)
  <2>1. bg' = (bg1 /\ queue' # <<>>) /\ CloseWhenDone
    BY <1>2 DEF FinishFlush
  <2>2. bg' \in BOOLEAN /\ (bg' => bg1) /\ (bg1 /\ ~bg' => queue' = <<>>)
    BY <2>1, Zenon
  <2>3. /\ writable' \in BOOLEAN /\ open' \in BOOLEAN
        /\ ~open' => NothingLeft
        /\ writable /\ ~writable' => NothingLeft
        /\ MayClose => ~open'
    BY <2>1, Zenon DEF CloseWhenDone, MayClose, MayCloseWrite
  <2> QED BY <2>2, <2>3
<1> QED BY <1>1, <1>2

(* What a flush does to the flags.  A background flush goes on if output is *)
(* left, a blocking one leaves none unless the driver refuses it, and the   *)
(* channel or its write side is closed only when no output is left.         *)
LEMMA FlushSettles ==
    ASSUME NEW async \in BOOLEAN, NEW bg0 \in BOOLEAN, NEW c, NEW acc,
           queue \in Seq(Nat), c \in Seq(Nat), dev \in Seq(Nat),
           open = TRUE, writable \in BOOLEAN, unreported \in BOOLEAN,
           refused \in BOOLEAN, nonblocking' \in BOOLEAN, exiting' \in BOOLEAN,
           bg0 => nonblocking' \/ RefusedEarlier, async => bg0,
           FlushChannel(async, c, acc, bg0)
    PROVE  /\ bg' \in BOOLEAN /\ writable' \in BOOLEAN
           /\ open' \in BOOLEAN /\ unreported' \in BOOLEAN
           /\ refused' \in BOOLEAN
           /\ bg' => nonblocking' \/ refused'
           /\ ~open' => queue' = <<>> /\ cur' = <<>>
           /\ writable /\ ~writable' => queue' = <<>> /\ cur' = <<>>
           /\ ~unreported /\ unreported' => queue' = <<>> /\ cur' = <<>>
           /\ queue' = <<>> \/ bg' \/ exiting'
           /\ ~nonblocking' => cur' = <<>> /\ (queue' = <<>> \/ refused')
           /\ closed' /\ registered' = {} /\ open' =>
                 nonblocking' \/ bg' \/ exiting'
           /\ queue = <<>> /\ c = <<>> =>
                 queue' = <<>> /\ cur' = <<>> /\ dev' = dev
<1> DEFINE q == IF ShiftsBuffer(c) THEN queue \o c ELSE queue
           rest == IF ShiftsBuffer(c) THEN <<>> ELSE c
<1>1. CASE ~async /\ bg0
  <2>1. /\ queue' = q /\ cur' = rest /\ bg' = bg0
        /\ UNCHANGED <<dev, unreported, writable, open>>
    BY <1>1 DEF FlushChannel
  <2>2. queue = <<>> /\ c = <<>> => q = <<>> /\ rest = <<>>
    BY DEF ShiftsBuffer
  <2>3. refused' = refused
    BY <1>1 DEF FlushChannel
  <2> QED BY <1>1, <2>1, <2>2, <2>3 DEF ShiftsBuffer, RefusedEarlier
<1>2. CASE ~(~async /\ bg0)
  <2>1. FlushLoop(async, q, rest, acc, bg0)
    BY <1>2 DEF FlushChannel
  <2>2. q \in Seq(Nat)
    OBVIOUS
  <2>3. queue = <<>> /\ c = <<>> => q = <<>> /\ rest = <<>>
    BY DEF ShiftsBuffer
  <2>4. ~nonblocking' => rest = <<>>
    BY DEF ShiftsBuffer
  <2> HIDE DEF q, rest
  <2>5. PICK n \in 0 .. Len(q) :
          /\ dev' = dev \o SubSeq(q, 1, n)
          /\ \/ Drained(q, n, acc) /\ cur' = rest /\ FinishFlush(n, bg0)
             \/ /\ WouldBlock(q, n, acc) /\ cur' = rest
                /\ FinishFlush(n, bg0 \/ ~exiting')
             \/ Failed(q, n, async) /\ cur' = <<>> /\ FinishFlush(n, bg0)
    BY <2>1 DEF FlushLoop
  <2>6. CASE Drained(q, n, acc) /\ cur' = rest /\ FinishFlush(n, bg0)
    <3>1. queue' = <<>> /\ unreported' = unreported /\ n = Len(q)
      BY <2>6 DEF Drained
    <3>2. SubSeq(q, 1, n) = q
      BY <2>2, <3>1
    <3>3. /\ ~nonblocking' => NothingLeft
          /\ refused' = RefusedEarlier /\ refused' \in BOOLEAN
      BY <2>4, <2>6, <3>1 DEF NothingLeft, Drained, RefusedEarlier
    <3>4. queue = <<>> /\ c = <<>> => NothingLeft /\ dev' = dev
      BY <2>3, <2>5, <2>6, <3>1, <3>2 DEF NothingLeft
    <3> QED
      BY <2>6, <3>1, <3>3, <3>4, FinishSettles, Zenon DEF NothingLeft, MayClose
  <2>7. CASE WouldBlock(q, n, acc) /\ cur' = rest /\ FinishFlush(n, bg0 \/ ~exiting')
    <3>0. n < Len(q) /\ queue' = SubSeq(q, n + 1, Len(q))
      BY <2>7 DEF WouldBlock
    <3>1. /\ unreported' = unreported
          /\ refused' \in BOOLEAN /\ (nonblocking' \/ refused')
          /\ ~nonblocking' => cur' = <<>>
      BY <2>4, <2>7 DEF WouldBlock, RefusedEarlier
    <3>4. q # <<>>
      BY <2>2, <3>0
    <3>5. Len(SubSeq(q, n + 1, Len(q))) > 0
      BY <2>2, <3>0
    <3>6. queue' # <<>>
      <4>1. Len(queue') > 0
        BY <3>0, <3>5, Zenon
      <4>2. ASSUME queue' = <<>> PROVE FALSE
        <5>1. Len(queue') = 0
          BY <4>2
        <5> QED BY <4>1, <5>1
      <4> QED BY <4>2
    <3>2. (bg0 \/ ~exiting') \in BOOLEAN
      OBVIOUS
    <3>3. ~(queue = <<>> /\ c = <<>>)
      BY <2>3, <3>4
    <3> QED
      BY <2>7, <3>1, <3>2, <3>3, <3>6, FinishSettles, Zenon DEF NothingLeft
  <2>8. CASE Failed(q, n, async) /\ cur' = <<>> /\ FinishFlush(n, bg0)
    <3>1. /\ NothingLeft /\ unreported' = (unreported \/ async) /\ q # <<>>
          /\ refused' = RefusedEarlier /\ refused' \in BOOLEAN
      BY <2>2, <2>8 DEF Failed, NothingLeft, RefusedEarlier
    <3>2. ~(queue = <<>> /\ c = <<>>)
      BY <2>3, <3>1
    <3> QED
      BY <2>8, <3>1, <3>2, FinishSettles, Zenon DEF NothingLeft, MayClose
  <2> QED BY <2>5, <2>6, <2>7, <2>8
<1> QED BY <1>1, <1>2
-----------------------------------------------------------------------------
(* A flush in a state of the invariant, with c for the current buffer and   *)
(* acc for the bytes accepted.                                              *)
FlushReady(async, c, acc, bg0) ==
    /\ IInv /\ open
    /\ async \in BOOLEAN /\ bg0 \in BOOLEAN /\ (async => bg0)
    /\ c \in Seq(Nat) /\ Len(c) <= BufSize /\ acc \in 0 .. MaxBytes
    /\ dev \o queue \o c = Bytes(acc)
    /\ nonblocking' \in BOOLEAN /\ exiting' \in BOOLEAN
    /\ bg0 => nonblocking' \/ RefusedEarlier
    /\ cur = <<>> /\ ~writable => c = <<>>
    /\ cur = <<>> /\ unreported => c = <<>>

(* The parts of the invariant that a flush restores.                        *)
FlushDone ==
    /\ dev' \in Seq(Nat) /\ queue' \in Seq(Nat) /\ cur' \in Seq(Nat)
    /\ Len(cur') < BufSize /\ accepted' \in 0 .. MaxBytes
    /\ OutputExact'
    /\ bg' \in BOOLEAN /\ writable' \in BOOLEAN
    /\ open' \in BOOLEAN /\ unreported' \in BOOLEAN /\ refused' \in BOOLEAN
    /\ bg' => nonblocking' \/ refused'
    /\ ~writable' => queue' = <<>> /\ cur' = <<>>
    /\ unreported' => queue' = <<>> /\ cur' = <<>>
    /\ closed' /\ registered' = {} /\ open' => nonblocking' \/ bg' \/ exiting'
    /\ ~writable => dev' = dev
    /\ queue' = <<>> \/ bg' \/ exiting'

(* A flush of a channel that blocks gets everything out, unless the driver  *)
(* refuses it.                                                              *)
AllIsOut == ~nonblocking' => dev' = Bytes(accepted') \/ refused'

(* What FlushChannel leaves behind.                                        *)
LEMMA FlushKeeps ==
    ASSUME NEW async, NEW c, NEW acc, NEW bg0,
           FlushReady(async, c, acc, bg0), FlushChannel(async, c, acc, bg0)
    PROVE  FlushDone /\ AllIsOut
<1>1. /\ dev \in Seq(Nat) /\ queue \in Seq(Nat) /\ open = TRUE
      /\ writable \in BOOLEAN /\ unreported \in BOOLEAN
      /\ c \in Seq(Nat) /\ acc \in 0 .. MaxBytes /\ Len(c) <= BufSize
      /\ async \in BOOLEAN /\ bg0 \in BOOLEAN /\ (async => bg0)
      /\ refused \in BOOLEAN
      /\ nonblocking' \in BOOLEAN /\ exiting' \in BOOLEAN
      /\ bg0 => nonblocking' \/ RefusedEarlier
      /\ dev \o queue \o c = Bytes(acc)
      /\ ~writable => queue = <<>> /\ c = <<>>
      /\ unreported => queue = <<>> /\ c = <<>>
  BY DEF FlushReady, IInv, TypeOK, FlagsInv, QueuedIsWatched
<1>2. /\ dev' \in Seq(Nat) /\ queue' \in Seq(Nat) /\ cur' \in Seq(Nat)
      /\ Len(cur') < BufSize /\ accepted' \in 0 .. MaxBytes
      /\ dev' \o queue' \o cur' = Bytes(accepted')
  BY ONLY <1>1, FlushKeepsOrder, FlushChannel(async, c, acc, bg0), Zenon
<1>3. /\ bg' \in BOOLEAN /\ writable' \in BOOLEAN
      /\ open' \in BOOLEAN /\ unreported' \in BOOLEAN
      /\ refused' \in BOOLEAN
      /\ bg' => nonblocking' \/ refused'
      /\ ~open' => queue' = <<>> /\ cur' = <<>>
      /\ writable /\ ~writable' => queue' = <<>> /\ cur' = <<>>
      /\ ~unreported /\ unreported' => queue' = <<>> /\ cur' = <<>>
      /\ queue' = <<>> \/ bg' \/ exiting'
      /\ ~nonblocking' => cur' = <<>> /\ (queue' = <<>> \/ refused')
      /\ closed' /\ registered' = {} /\ open' =>
            nonblocking' \/ bg' \/ exiting'
      /\ queue = <<>> /\ c = <<>> =>
            queue' = <<>> /\ cur' = <<>> /\ dev' = dev
  BY ONLY <1>1, FlushSettles, FlushChannel(async, c, acc, bg0), Zenon
<1>4. OutputExact'
  BY <1>2, <1>3 DEF OutputExact, Bytes
<1>5. ~nonblocking' => dev' = Bytes(accepted') \/ refused'
  <2>1. dev' \o <<>> \o <<>> = dev'
    BY <1>2
  <2> QED BY <1>2, <1>3, <2>1
<1> QED BY <1>1, <1>2, <1>3, <1>4, <1>5, Zenon DEF FlushDone, AllIsOut
-----------------------------------------------------------------------------
(* What every step does: it keeps the invariant, offers nothing to a closed *)
(* side, and strands queued output only as OnlyBlockingStrands says.        *)
StepOK ==
    /\ IInv'
    /\ dev' # dev => writable
    /\ (queue = <<>> \/ bg) /\ queue' # <<>> /\ ~bg' => SetBlockMode \/ exiting'

(* The flags have their types, and only an unused channel is closed.        *)
FlagsTyped ==
    /\ registered' \subseteq Interp /\ handlers' \subseteq registered'
    /\ nonblocking' \in BOOLEAN /\ exiting' \in BOOLEAN
    /\ closed' \in BOOLEAN /\ closedWrite' \in BOOLEAN /\ watch' \in BOOLEAN
    /\ closed' => registered' = {}
    /\ open' /\ bg' /\ ~exiting' => watch'

(* The driver goes on being watched while a background flush is under way.  *)
LEMMA WatchFollows ==
    ASSUME NEW bg0 \in BOOLEAN, NEW update, watch \in BOOLEAN,
           bg' \in BOOLEAN, ChanWatch(bg0, update), bg0 => watch
    PROVE  watch' \in BOOLEAN /\ (open' /\ bg' => watch')
<1>1. Interest \in BOOLEAN /\ (bg' => Interest)
  BY DEF Interest
<1> QED BY <1>1 DEF ChanWatch

(* A step that flushes.                                                    *)
LEMMA FlushStep ==
    ASSUME IInv, FlushDone, FlagsTyped
    PROVE  StepOK
<1>1. TypeOK'
  BY DEF FlushDone, FlagsTyped, TypeOK
<1>2. QueuedIsWatched' /\ FlagsInv' /\ OutputExact'
  BY DEF FlushDone, FlagsTyped, QueuedIsWatched, FlagsInv
<1> QED BY <1>1, <1>2 DEF FlushDone, StepOK, IInv

(* A step that moves no output.                                             *)
LEMMA QuietStep ==
    ASSUME IInv, FlagsTyped,
           UNCHANGED <<cur, queue, dev, accepted, writable, open>>,
           unreported' \in {unreported, FALSE}, bg' \in BOOLEAN,
           refused' \in BOOLEAN, bg' => nonblocking' \/ refused',
           bg /\ ~bg' => SetBlockMode \/ exiting',
           closed' /\ open' /\ ~bg' /\ ~exiting' => nonblocking'
    PROVE  StepOK
<1>1. TypeOK'
  BY DEF FlagsTyped, TypeOK, IInv
<1>2. OutputExact'
  BY DEF OutputExact, IInv
<1>3. FlagsInv'
  BY DEF FlagsTyped, FlagsInv, IInv
<1>4. QueuedIsWatched'
  <2>1. open' /\ bg' /\ ~exiting' => watch'
    BY DEF FlagsTyped
  <2>2. unreported' => unreported
    BY DEF IInv, TypeOK
  <2> QED BY <2>1, <2>2 DEF QueuedIsWatched, IInv
<1> QED BY <1>1, <1>2, <1>3, <1>4 DEF StepOK, IInv

(* The current buffer is flushed as it is.                                  *)
LEMMA ReadyAsItIs ==
    ASSUME IInv, open, NEW async \in BOOLEAN, NEW bg0 \in BOOLEAN,
           async => bg0, bg0 => nonblocking' \/ RefusedEarlier,
           nonblocking' \in BOOLEAN, exiting' \in BOOLEAN
    PROVE  FlushReady(async, cur, accepted, bg0)
<1>1. dev \o queue \o cur = Bytes(accepted)
  BY DEF IInv, OutputExact, Bytes
<1>2. cur \in Seq(Nat) /\ Len(cur) <= BufSize /\ accepted \in 0 .. MaxBytes
  BY OutputConstants DEF IInv, TypeOK
<1> QED BY <1>1, <1>2 DEF FlushReady

(* A byte is added to the current buffer first.                             *)
LEMMA ReadyWithByte ==
    ASSUME IInv, open, writable, ~unreported, accepted < MaxBytes,
           bg => nonblocking' \/ RefusedEarlier,
           nonblocking' \in BOOLEAN, exiting' \in BOOLEAN
    PROVE  FlushReady(FALSE, Append(cur, accepted + 1), accepted + 1, bg)
<1>1. /\ cur \in Seq(Nat) /\ queue \in Seq(Nat) /\ dev \in Seq(Nat)
      /\ Len(cur) < BufSize /\ BufSize \in Nat
      /\ accepted \in Nat /\ accepted + 1 \in 0 .. MaxBytes
      /\ bg \in BOOLEAN
  BY OutputConstants DEF IInv, TypeOK
<1>2. dev \o queue \o cur = Bytes(accepted)
  BY DEF IInv, OutputExact, Bytes
<1> DEFINE d == dev \o queue
           x == <<accepted + 1>>
<1>3. d \in Seq(Nat) /\ x \in Seq(Nat) /\ Append(cur, accepted + 1) = cur \o x
  BY <1>1
<1>4. (d \o cur) \o x = Bytes(accepted + 1)
  <2>1. d \o cur \in Seq(Nat)
    BY <1>1, <1>3
  <2> QED BY <1>1, <1>2, <2>1, AppendByte, Zenon
<1> HIDE DEF d, x
<1>5. d \o (cur \o x) = Bytes(accepted + 1)
  BY ONLY <1>1, <1>3, <1>4, Associative, Zenon
<1>6. dev \o queue \o Append(cur, accepted + 1) = Bytes(accepted + 1)
  BY <1>3, <1>5, Zenon DEF d
<1>7. /\ Append(cur, accepted + 1) \in Seq(Nat)
      /\ Len(Append(cur, accepted + 1)) <= BufSize
  BY <1>1
<1> QED BY <1>1, <1>6, <1>7 DEF FlushReady

(* A new channel.                                                          *)
LEMMA InitIInv == Init => IInv
<1> SUFFICES ASSUME Init PROVE IInv
  OBVIOUS
<1>1. TypeOK
  <2>1. <<>> \in Seq(Nat) /\ Len(<<>>) = 0
    OBVIOUS
  <2>2. 0 < BufSize /\ 0 \in 0 .. MaxBytes
    BY OutputConstants
  <2>3. registered \subseteq Interp /\ handlers \subseteq registered
    BY DEF Init
  <2> QED BY <2>1, <2>2, <2>3 DEF Init, TypeOK
<1>2. OutputExact
  <2>1. Bytes(0) \in Seq(Nat) /\ Len(Bytes(0)) = 0
    BY BytesProperties
  <2>2. dev \o queue \o cur = Bytes(accepted)
    BY <2>1 DEF Init
  <2> QED BY <2>2 DEF Init, OutputExact, Bytes
<1>3. QueuedIsWatched /\ FlagsInv
  BY DEF Init, QueuedIsWatched, FlagsInv
<1> QED BY <1>1, <1>2, <1>3 DEF IInv

(* Every operation, one step of the proof each.                            *)
LEMMA NextStep == ASSUME IInv, [Next]_vars PROVE StepOK
<1> USE DEF flags, buffers, state
<1>0. /\ registered \subseteq Interp /\ handlers \subseteq registered
      /\ nonblocking \in BOOLEAN /\ exiting \in BOOLEAN
      /\ closed \in BOOLEAN /\ closedWrite \in BOOLEAN
      /\ bg \in BOOLEAN /\ watch \in BOOLEAN /\ open \in BOOLEAN
      /\ writable \in BOOLEAN /\ unreported \in BOOLEAN
      /\ refused \in BOOLEAN
      /\ bg => nonblocking \/ refused
      /\ closed => registered = {}
      /\ closed /\ open /\ ~bg /\ ~exiting => nonblocking
      /\ open /\ bg /\ ~exiting => watch
  BY DEF IInv, TypeOK, FlagsInv, QueuedIsWatched
<1>1. ASSUME NEW i \in Interp, Tcl_RegisterChannel(i) PROVE StepOK
  <2>1. FlagsTyped
    BY <1>0, <1>1 DEF Tcl_RegisterChannel, InScript, Running, FlagsTyped
  <2> QED
    BY <1>0, <1>1, <2>1, QuietStep DEF Tcl_RegisterChannel, InScript, Running
<1>2. ASSUME NEW i \in Interp, Tcl_CreateChannelHandler(i) PROVE StepOK
  <2>1. watch' \in BOOLEAN /\ (open' /\ bg' => watch')
    BY <1>0, <1>2, WatchFollows DEF Tcl_CreateChannelHandler, Running
  <2>2. FlagsTyped
    BY <1>0, <1>2, <2>1 DEF Tcl_CreateChannelHandler, FlagsTyped
  <2> QED
    BY <1>0, <1>2, <2>2, QuietStep DEF Tcl_CreateChannelHandler, Running
<1>3. ASSUME NEW i \in Interp, Tcl_DeleteChannelHandler(i) PROVE StepOK
  <2>1. watch' \in BOOLEAN /\ (open' /\ bg' => watch')
    BY <1>0, <1>3, WatchFollows DEF Tcl_DeleteChannelHandler, Running
  <2>2. FlagsTyped
    BY <1>0, <1>3, <2>1 DEF Tcl_DeleteChannelHandler, FlagsTyped
  <2> QED
    BY <1>0, <1>3, <2>2, QuietStep DEF Tcl_DeleteChannelHandler, Running
<1>4. ASSUME NEW i \in Interp, Detach(i), StaysOpen(i), closed' \in BOOLEAN,
             closed' => registered' = {} /\ (closed \/ bg)
      PROVE  StepOK
  <2>1. watch' \in BOOLEAN /\ (open' /\ bg' => watch')
    BY <1>0, <1>4, WatchFollows DEF Detach, StaysOpen, Running
  <2>2. FlagsTyped
    BY <1>0, <1>4, <2>1 DEF Detach, StaysOpen, FlagsTyped
  <2> QED
    BY <1>0, <1>4, <2>2, QuietStep DEF Detach, StaysOpen, Running
<1>5. ASSUME NEW bg0 \in BOOLEAN, NEW update, TclClose(bg0, update),
             open, bg0 => nonblocking' \/ RefusedEarlier, bg0 => watch,
             registered' = {},
             nonblocking' \in BOOLEAN, exiting' \in BOOLEAN,
             closedWrite' = closedWrite
      PROVE  StepOK
  <2>1. FlushReady(FALSE, cur, accepted, bg0)
    BY <1>5, ReadyAsItIs
  <2>2. FlushDone
    BY <1>5, <2>1, FlushKeeps DEF TclClose
  <2>3. watch' \in BOOLEAN /\ (open' /\ bg' => watch')
    BY <1>0, <1>5, <2>2, WatchFollows DEF TclClose, FlushDone
  <2>4. FlagsTyped
    BY <1>0, <1>5, <2>3 DEF TclClose, FlagsTyped
  <2> QED BY <2>2, <2>4, FlushStep
<1>6. ASSUME NEW i \in Interp, Tcl_UnregisterChannel(i) PROVE StepOK
  <2>1. Detach(i) /\ open /\ ~exiting
    BY <1>6 DEF Tcl_UnregisterChannel, Detach, Running
  <2>2. CASE registered' # {} /\ UNCHANGED closed /\ StaysOpen(i)
    BY <1>0, <1>4, <2>1, <2>2 DEF Detach
  <2>3. CASE registered' = {} /\ bg /\ closed' = TRUE /\ StaysOpen(i)
    BY <1>4, <2>1, <2>3
  <2>4. CASE registered' = {} /\ ~bg /\ TclClose(bg, i \in handlers)
    BY <1>0, <1>5, <2>1, <2>4 DEF Detach
  <2> QED BY <1>6, <2>2, <2>3, <2>4 DEF Tcl_UnregisterChannel
<1>7. ASSUME NEW i \in Interp, DeleteChannelTable(i) PROVE StepOK
  <2>1. Detach(i) /\ open /\ ~exiting
    BY <1>7 DEF DeleteChannelTable, Detach, Running
  <2>2. CASE UNCHANGED closed /\ StaysOpen(i)
    BY <1>0, <1>4, <2>1, <2>2 DEF Detach
  <2>3. CASE registered' = {} /\ ~bg /\ TclClose(bg, i \in handlers)
    BY <1>0, <1>5, <2>1, <2>3 DEF Detach
  <2> QED BY <1>7, <2>2, <2>3 DEF DeleteChannelTable
<1>8. CASE ReportError
  <2>1. FlagsTyped
    BY <1>0, <1>8 DEF ReportError, InScript, Running, FlagsTyped
  <2> QED BY <1>0, <1>8, <2>1, QuietStep DEF ReportError, InScript, Running
<1>9. ASSUME NEW flush \in BOOLEAN, Write(flush) PROVE StepOK
  <2> DEFINE c == Append(cur, accepted + 1)
  <2>1. /\ open /\ ~exiting /\ writable /\ ~unreported /\ accepted < MaxBytes
        /\ bg => watch
        /\ UNCHANGED flags
    BY <1>0, <1>9 DEF Write, InScript, Running, CheckChannelErrors
  <2>2. FlushReady(FALSE, c, accepted + 1, bg)
    BY <1>0, <2>1, ReadyWithByte DEF RefusedEarlier
  <2>3. CASE flush \/ Len(c) = BufSize
    <3>1. FlushDone
      BY <1>9, <2>2, <2>3, FlushKeeps DEF Write
    <3>2. watch' \in BOOLEAN /\ (open' /\ bg' => watch')
      BY <1>0, <1>9, <2>1, <3>1, WatchFollows DEF Write, FlushDone
    <3>3. FlagsTyped
      BY <1>0, <2>1, <3>2 DEF FlagsTyped
    <3> QED BY <3>1, <3>3, FlushStep
  <2>4. CASE ~(flush \/ Len(c) = BufSize)
    <3>1. /\ cur' = c /\ accepted' = accepted + 1
          /\ UNCHANGED <<queue, dev, unreported, refused, bg, writable, open>>
      BY <1>9, <2>4 DEF Write
    <3>2. watch' \in BOOLEAN /\ (open' /\ bg' => watch')
      BY <1>0, <1>9, <2>1, <3>1, WatchFollows DEF Write
    <3>3. FlagsTyped
      BY <1>0, <2>1, <3>2 DEF FlagsTyped
    <3>4. /\ c \in Seq(Nat) /\ Len(c) < BufSize /\ accepted + 1 \in 0 .. MaxBytes
          /\ dev \o queue \o c = Bytes(accepted + 1)
      <4>1. Len(c) \in Nat /\ BufSize \in Nat
        BY <2>2, OutputConstants DEF FlushReady
      <4>2. /\ c \in Seq(Nat) /\ Len(c) <= BufSize /\ accepted + 1 \in 0 .. MaxBytes
            /\ dev \o queue \o c = Bytes(accepted + 1)
        BY <2>2 DEF FlushReady
      <4> QED BY <2>4, <4>1, <4>2
    <3> HIDE DEF c
    <3>5. TypeOK'
      BY <1>0, <3>1, <3>3, <3>4 DEF FlagsTyped, TypeOK, IInv
    <3>6. OutputExact' /\ QueuedIsWatched' /\ FlagsInv'
      BY <1>0, <2>1, <3>1, <3>2, <3>4
      DEF OutputExact, Bytes, QueuedIsWatched, FlagsInv
    <3> QED BY <2>1, <3>1, <3>5, <3>6 DEF StepOK, IInv
  <2> QED BY <2>3, <2>4
<1>10. CASE Tcl_Flush
  <2>1. open /\ ~exiting /\ UNCHANGED flags
    BY <1>10 DEF Tcl_Flush, InScript, Running
  <2>2. FlushReady(FALSE, cur, accepted, bg)
    BY <1>0, <2>1, ReadyAsItIs DEF RefusedEarlier
  <2>3. FlushDone
    BY <1>10, <2>2, FlushKeeps DEF Tcl_Flush
  <2>4. watch' \in BOOLEAN /\ (open' /\ bg' => watch')
    BY <1>0, <1>10, <2>1, <2>3, WatchFollows DEF Tcl_Flush, FlushDone
  <2>5. FlagsTyped
    BY <1>0, <2>1, <2>4 DEF FlagsTyped
  <2> QED BY <2>3, <2>5, FlushStep
<1>11. CASE SetBlockMode
  <2>1. FlagsTyped
    BY <1>0, <1>11 DEF SetBlockMode, InScript, Running, FlagsTyped
  <2> QED
    BY <1>0, <1>11, <2>1, QuietStep DEF SetBlockMode, InScript, Running
<1>12. CASE HalfClose
  <2>1. /\ open /\ ~exiting /\ closedWrite' = TRUE
        /\ UNCHANGED <<registered, nonblocking, closed, exiting, handlers>>
    BY <1>12 DEF HalfClose, InScript, Running
  <2>2. CASE bg \/ closedWrite
    <3>1. UNCHANGED <<buffers, state>>
      BY <1>12, <2>2 DEF HalfClose
    <3>2. FlagsTyped
      BY <1>0, <2>1, <3>1 DEF FlagsTyped
    <3> QED BY <1>0, <2>1, <3>1, <3>2, QuietStep
  <2>3. CASE ~(bg \/ closedWrite)
    <3>1. FlushChannel(FALSE, cur, accepted, bg) /\ ChanWatch(bg, FALSE)
      BY <1>12, <2>3 DEF HalfClose
    <3>2. FlushReady(FALSE, cur, accepted, bg)
      BY <1>0, <2>1, ReadyAsItIs DEF RefusedEarlier
    <3>3. FlushDone
      BY <3>1, <3>2, FlushKeeps
    <3>4. watch' \in BOOLEAN /\ (open' /\ bg' => watch')
      BY <1>0, <2>1, <3>1, <3>3, WatchFollows DEF FlushDone
    <3>5. FlagsTyped
      BY <1>0, <2>1, <3>4 DEF FlagsTyped
    <3> QED BY <3>3, <3>5, FlushStep
  <2> QED BY <2>2, <2>3
<1>13. CASE Tcl_NotifyChannel
  <2>1. open /\ ~exiting /\ UNCHANGED flags
    BY <1>13 DEF Tcl_NotifyChannel, Running
  <2>2. CASE bg
    <3>1. FlushChannel(TRUE, cur, accepted, bg) /\ ChanWatch(bg, TRUE)
      BY <1>13, <2>2 DEF Tcl_NotifyChannel
    <3>2. FlushReady(TRUE, cur, accepted, bg)
      BY <1>0, <2>1, <2>2, ReadyAsItIs DEF RefusedEarlier
    <3>3. FlushDone
      BY <3>1, <3>2, FlushKeeps
    <3>4. watch' \in BOOLEAN /\ (open' /\ bg' => watch')
      BY <1>0, <2>1, <3>1, <3>3, WatchFollows DEF FlushDone
    <3>5. FlagsTyped
      BY <1>0, <2>1, <3>4 DEF FlagsTyped
    <3> QED BY <3>3, <3>5, FlushStep
  <2>3. CASE ~bg
    <3>1. UNCHANGED <<buffers, bg, writable, open>> /\ ChanWatch(bg, TRUE)
      BY <1>13, <2>3 DEF Tcl_NotifyChannel
    <3>2. watch' \in BOOLEAN /\ (open' /\ bg' => watch')
      BY <1>0, <2>1, <3>1, WatchFollows
    <3>3. FlagsTyped
      BY <1>0, <2>1, <3>2 DEF FlagsTyped
    <3> QED BY <1>0, <2>1, <3>1, <3>3, QuietStep
  <2> QED BY <2>2, <2>3
<1>14. CASE TclFinalizeIOSubsystem
  <2>1. /\ open /\ exiting' = TRUE /\ nonblocking' \in BOOLEAN
        /\ UNCHANGED <<registered, closedWrite>>
    BY <1>0, <1>14 DEF TclFinalizeIOSubsystem, Running
  <2>2. CASE /\ closed /\ ~bg /\ nonblocking' = nonblocking
             /\ UNCHANGED <<closed, handlers, buffers, state>>
    <3>1. FlagsTyped
      BY <1>0, <2>1, <2>2 DEF FlagsTyped
    <3> QED BY <1>0, <2>1, <2>2, <3>1, QuietStep
  <2>3. CASE registered = {} /\ TclClose(FALSE, FALSE)
    BY <1>0, <1>5, <2>1, <2>3
  <2>4. CASE /\ UNCHANGED <<closed, handlers>>
             /\ FlushChannel(FALSE, cur, accepted, FALSE)
             /\ ChanWatch(FALSE, FALSE)
    <3>1. FlushReady(FALSE, cur, accepted, FALSE)
      BY <2>1, ReadyAsItIs
    <3>2. FlushDone
      BY <2>4, <3>1, FlushKeeps
    <3>3. watch' \in BOOLEAN
      BY <1>0, <2>4, <3>2, WatchFollows DEF FlushDone
    <3>4. FlagsTyped
      BY <1>0, <2>1, <2>4, <3>3 DEF FlagsTyped
    <3> QED BY <3>2, <3>4, FlushStep
  <2>5. CASE /\ bg' = FALSE /\ unreported' = FALSE
             /\ UNCHANGED <<closed, handlers, cur, queue, dev, accepted,
                            refused, writable, open, watch>>
    <3>1. FlagsTyped
      BY <1>0, <2>1, <2>5 DEF FlagsTyped
    <3> QED BY <1>0, <2>1, <2>5, <3>1, QuietStep
  <2> QED BY <1>14, <2>2, <2>3, <2>4, <2>5 DEF TclFinalizeIOSubsystem
<1>15. CASE UNCHANGED vars
  <2>1. FlagsTyped
    BY <1>0, <1>15 DEF vars, FlagsTyped
  <2> QED BY <1>0, <1>15, <2>1, QuietStep DEF vars
<1> QED
  BY <1>1, <1>2, <1>3, <1>6, <1>7, <1>8, <1>9, <1>10, <1>11, <1>12, <1>13,
     <1>14, <1>15 DEF Next

(* A flush of a blocking channel, or at exit, leaves nothing unwritten that *)
(* the driver would not block on.                                           *)
LEMMA BlockingFlush ==
    ASSUME IInv, Tcl_Flush \/ TclFinalizeIOSubsystem,
           ~nonblocking', accepted' = accepted, ~refused'
    PROVE  dev' = Bytes(accepted)
<1> USE DEF flags, buffers, state
<1>0. /\ bg \in BOOLEAN /\ nonblocking \in BOOLEAN /\ dev \in Seq(Nat)
      /\ bg => nonblocking \/ refused
      /\ closed => registered = {}
      /\ refused \in BOOLEAN /\ exiting \in BOOLEAN
      /\ ~writable => queue = <<>> /\ cur = <<>>
      /\ unreported => queue = <<>> /\ cur = <<>>
      /\ closed /\ open /\ ~bg /\ ~exiting => nonblocking
      /\ dev \o queue \o cur = Bytes(accepted)
  BY DEF IInv, TypeOK, FlagsInv, QueuedIsWatched, OutputExact, Bytes
<1>1. ASSUME open, NEW bg0 \in BOOLEAN, bg0 => nonblocking' \/ RefusedEarlier,
             nonblocking' \in BOOLEAN, exiting' \in BOOLEAN,
             FlushChannel(FALSE, cur, accepted, bg0)
      PROVE  dev' = Bytes(accepted)
  <2>1. FlushReady(FALSE, cur, accepted, bg0)
    BY <1>1, ReadyAsItIs
  <2> QED BY <1>1, <2>1, FlushKeeps DEF AllIsOut
<1>2. CASE Tcl_Flush
  BY <1>0, <1>1, <1>2 DEF Tcl_Flush, InScript, Running, RefusedEarlier
<1>3. CASE TclFinalizeIOSubsystem
  <2>1. open /\ ~exiting /\ nonblocking' \in BOOLEAN /\ exiting' \in BOOLEAN
    BY <1>0, <1>3 DEF TclFinalizeIOSubsystem, Running
  <2>2. CASE closed /\ ~bg /\ nonblocking' = nonblocking
    BY <1>0, <2>1, <2>2
  <2>3. CASE FlushChannel(FALSE, cur, accepted, FALSE)
    BY <1>1, <2>1, <2>3
  <2>4. CASE /\ registered # {} /\ ~CheckChannelErrors
             /\ UNCHANGED dev
    <3>1. queue = <<>> /\ cur = <<>>
      BY <1>0, <2>4 DEF CheckChannelErrors
    <3>2. dev \o <<>> \o <<>> = dev
      BY <1>0
    <3> QED BY <1>0, <2>4, <3>1, <3>2
  <2> QED
    BY <1>3, <2>2, <2>3, <2>4 DEF TclFinalizeIOSubsystem, TclClose
<1> QED BY <1>2, <1>3

(* The inductive invariant holds.                                          *)
THEOREM Invariance == Spec => []IInv
<1>1. IInv /\ [Next]_vars => IInv'
  BY NextStep DEF StepOK
<1> QED BY InitIInv, <1>1, PTL DEF Spec

(* The device gets every byte once, in order, and a channel is closed only  *)
(* when all of them are out (FlushChannel and its callers).                 *)
THEOREM OutputIsExact == Spec => []OutputExact
<1>1. IInv => OutputExact
  BY DEF IInv
<1> QED BY Invariance, <1>1, PTL

(* A background flush is watched for until it ends, and leaves no output    *)
(* behind an error (UpdateInterest, FlushChannel).                          *)
THEOREM BackgroundFlushIsWatched == Spec => []QueuedIsWatched
<1>1. IInv => QueuedIsWatched
  BY DEF IInv
<1> QED BY Invariance, <1>1, PTL

(* Only SetBlockMode or the exit of the process stops a background flush    *)
(* with output left (SetBlockMode, TclFinalizeIOSubsystem).                 *)
THEOREM OnlyBlockingStrandsOutput == Spec => OnlyBlockingStrands
<1>1. IInv /\ [Next]_vars =>
        [(queue = <<>> \/ bg) /\ queue' # <<>> /\ ~bg'
             => SetBlockMode \/ exiting']_vars
  BY NextStep DEF StepOK
<1> QED BY Invariance, <1>1, PTL DEF Spec, OnlyBlockingStrands

(* A flush of a blocking channel, also after a background flush, and the    *)
(* flush at exit write everything, unless the driver would block in         *)
(* blocking mode (SetBlockMode, FlushChannel).                              *)
THEOREM BlockingFlushes == Spec => BlockingFlushWritesAll
<1>1. IInv =>
        [ (Tcl_Flush \/ TclFinalizeIOSubsystem) /\ ~nonblocking'
              /\ accepted' = accepted
          => dev' = [k \in 1 .. accepted |-> k] \/ refused' ]_vars
  BY BlockingFlush DEF Bytes
<1> QED BY Invariance, <1>1, PTL DEF Spec, BlockingFlushWritesAll

(* The driver is offered nothing once its write side is closed (CloseWrite, *)
(* CloseChannelPart).                                                       *)
THEOREM ClosedSideIsLeftAlone == Spec => NoWriteAfterHalfClose
<1>1. IInv /\ [Next]_vars => [dev' # dev => writable]_vars
  BY NextStep DEF StepOK
<1> QED BY Invariance, <1>1, PTL DEF Spec, NoWriteAfterHalfClose
=============================================================================
