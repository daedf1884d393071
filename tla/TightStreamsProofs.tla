------------------------- MODULE TightStreamsProofs -------------------------
(***************************************************************************)
(* Proofs about TightStreams, for any number of rectangles, any contents   *)
(* and any choice of the streams and filters.  The invariant says of each  *)
(* stream how far its reader is: nowhere, to be reset, or at the last      *)
(* block of the server.                                                    *)
(***************************************************************************)
EXTENDS TightStreams, SequenceTheorems, TLAPS

(* What is known of stream s between two rectangles.                       *)
StreamInv(s) ==
  /\ s \notin used => /\ streams[s] = NoReader /\ streamBufs[s] = <<>>
                      /\ compressed[s].blocks = 0
  /\ s \in used => streams[s].state = "reading"
  /\ s \in reset => compressed[s].blocks = 0
  /\ s \in used \ reset =>
       /\ compressed[s].blocks # 0
       /\ streams[s] = ReaderAt(compressed[s].epoch, compressed[s].blocks)

StreamsInv == failed = "none" => \A s \in Stream : StreamInv(s)

(* What was handed on is what was sent, in memory of its own.              *)
CopiesInv ==
  /\ Len(encoded) = Len(decoded) + (IF failed = "none" THEN 0 ELSE 1)
  /\ \A i \in 1..Len(decoded) : decoded[i] = CopyOf(encoded[i])

TightInv == TightTypeOK /\ StreamsInv /\ CopiesInv
-----------------------------------------------------------------------------
(* Sequences *)

(* What Tail leaves of a sequence that was put together from its head.     *)
LEMMA TakeFirst ==
  ASSUME NEW S, NEW a \in S, NEW t \in Seq(S)
  PROVE  /\ <<a>> \o t # <<>> /\ (<<a>> \o t)[1] = a
         /\ Tail(<<a>> \o t) = t
<1> DEFINE q == <<a>> \o t
<1>1. <<a>> \in Seq(S) /\ Len(<<a>>) = 1 /\ <<a>>[1] = a
  OBVIOUS
<1>2. /\ q \in Seq(S) /\ Len(q) = 1 + Len(t) /\ Len(t) \in Nat
      /\ \A i \in 1..(1 + Len(t)) : q[i] = IF i <= 1 THEN <<a>>[i] ELSE t[i - 1]
  BY <1>1, ConcatProperties, LenProperties
<1> HIDE DEF q
<1>3. q # <<>> /\ q[1] = a
  BY <1>1, <1>2, EmptySeq
<1>4. /\ Tail(q) \in Seq(S) /\ Len(Tail(q)) = Len(t)
      /\ \A i \in 1..Len(Tail(q)) : Tail(q)[i] = q[i + 1]
  BY <1>2, <1>3, HeadTailProperties
<1>5. \A i \in 1..Len(Tail(q)) : Tail(q)[i] = t[i]
  BY <1>2, <1>4
<1>6. Tail(q) = t
  BY <1>4, <1>5, SeqEqual
<1> QED
  BY <1>3, <1>6 DEF q

(* The data of a rectangle is a block and a flush, after a header if the   *)
(* stream has just been started (basicCompressionReader reads it whole).   *)
LEMMA DataOfRectangle ==
  ASSUME NEW e, NEW i, NEW px, NEW h
  PROVE  LET body == <<Block(e, i, px), Flushed>>
             data == <<h>> \o body
         IN  /\ body # <<>> /\ body[1] = Block(e, i, px) /\ Tail(body) = <<Flushed>>
             /\ data # <<>> /\ data[1] = h /\ Tail(data) = body
             /\ <<>> \o data = data /\ <<>> \o body = body
             /\ LET late == <<Flushed>> \o body
                IN  late # <<>> /\ late[1] = Flushed /\ Tail(late) = body
<1> DEFINE b == Block(e, i, px)
           S == {h, b, Flushed}
           body == <<b, Flushed>>
<1> HIDE DEF b
<1>1. body \in Seq(S) /\ <<Flushed>> \in Seq(S) /\ h \in S /\ b \in S /\ Flushed \in S
  OBVIOUS
<1>2. body = <<b>> \o <<Flushed>>
  OBVIOUS
<1> HIDE DEF S
<1>3. body # <<>> /\ body[1] = b /\ Tail(body) = <<Flushed>>
  BY <1>1, <1>2, TakeFirst
<1> HIDE DEF body
<1>4. <<h>> \o body # <<>> /\ (<<h>> \o body)[1] = h /\ Tail(<<h>> \o body) = body
  BY <1>1, TakeFirst
<1>5. <<Flushed>> \o body # <<>> /\ (<<Flushed>> \o body)[1] = Flushed
      /\ Tail(<<Flushed>> \o body) = body
  BY <1>1, TakeFirst
<1>6. <<h>> \in Seq(S)
  BY <1>1
<1>7. <<h>> \o body \in Seq(S)
  BY <1>1, <1>6, ConcatProperties
<1>8. <<>> \o (<<h>> \o body) = <<h>> \o body /\ <<>> \o body = body
  BY <1>1, <1>7, ConcatEmptySeq
<1> QED
  BY <1>3, <1>4, <1>5, <1>8 DEF body, b

(* Append keeps what was there and puts its argument at the end.           *)
LEMMA Appended ==
  ASSUME NEW S, NEW q \in Seq(S), NEW x \in S
  PROVE  /\ Append(q, x) \in Seq(S) /\ Len(q) \in Nat /\ Len(Append(q, x)) = Len(q) + 1
         /\ \A i \in 1..Len(q) : Append(q, x)[i] = q[i]
         /\ Append(q, x)[Len(q) + 1] = x
  OBVIOUS
-----------------------------------------------------------------------------
(* The data that a stream is given, behind what it still held and after a  *)
(* reset if one is due, begins with the block that its reader expects,     *)
(* unless the stream is reset before it was ever used.                     *)
LEMMA BlockIsNext ==
  ASSUME TightInv, NEW resets \in SUBSET Stream, NEW px,
         MaySend, NEW s \in Stream, s \in used \/ s \notin PendingResets(resets)
  PROVE  LET c == Restarted(resets)[s]
             o == Fed(resets, s, px)
         IN  /\ o.reader = ReaderAt(c.epoch, c.blocks)
             /\ SkipFlush(o.rest) = <<Block(c.epoch, c.blocks + 1, px), Flushed>>
<1> DEFINE c == Restarted(resets)[s]
           pending == PendingResets(resets)
           body == <<Block(c.epoch, c.blocks + 1, px), Flushed>>
           data == <<Header(c.epoch)>> \o body
           bytes == Unread(s, pending) \o ZlibData(c, px)
<1> USE DEF NoReader
<1>1. StreamInv(s) /\ failed = "none"
  BY DEF TightInv, StreamsInv, MaySend
<1>2. streamBufs[s] \in {<<>>, <<Flushed>>} /\ compressed[s].blocks \in Nat
  BY <1>1 DEF TightInv, TightTypeOK
<1>3. /\ c.blocks = IF s \in resets THEN 0 ELSE compressed[s].blocks
      /\ s \notin resets => c = compressed[s]
  BY DEF Restarted
<1> HIDE DEF c
<1>4. /\ body # <<>> /\ body[1] = Block(c.epoch, c.blocks + 1, px)
      /\ data # <<>> /\ data[1] = Header(c.epoch) /\ Tail(data) = body
      /\ <<>> \o data = data /\ <<>> \o body = body
      /\ <<Flushed>> \o body # <<>> /\ (<<Flushed>> \o body)[1] = Flushed
      /\ Tail(<<Flushed>> \o body) = body
  BY DataOfRectangle
<1>5. ZlibData(c, px) = IF c.blocks = 0 THEN data ELSE body
  BY DEF ZlibData
<1> HIDE DEF data, body
<1>6. AfterHeader(data) = [reader |-> ReaderAt(c.epoch, 0), rest |-> body]
  <2>1. data[1].kind = "header" /\ data[1].epoch = c.epoch
    BY <1>4 DEF Header
  <2> QED
    BY <2>1, <1>4 DEF AfterHeader
<1>7. SkipFlush(body) = body
  <2>1. body[1].kind = "block"
    BY <1>4 DEF Block
  <2> QED
    BY <2>1 DEF SkipFlush
<1>8. SkipFlush(<<Flushed>> \o body) = body
  <2>1. (<<Flushed>> \o body)[1].kind = "flush"
    BY <1>4 DEF Flushed
  <2> QED
    BY <2>1, <1>4 DEF SkipFlush
<1>9. Fed(resets, s, px) = ResetIf(Opened(streams[s], bytes), s, pending)
  BY DEF Fed, c
<1>10. CASE s \notin used
  <2>1. s \notin pending /\ c.blocks = 0 /\ streams[s].state = "nil" /\ streamBufs[s] = <<>>
    BY <1>1, <1>3, <1>10 DEF StreamInv, PendingResets
  <2>2. bytes = data
    BY <2>1, <1>4, <1>5 DEF Unread
  <2>3. Fed(resets, s, px) = AfterHeader(data)
    BY <1>9, <2>1, <2>2 DEF Opened, ResetIf
  <2> QED
    BY <2>1, <2>3, <1>6, <1>7 DEF body, c
<1>11. CASE s \in used /\ s \in pending
  <2>1. c.blocks = 0 /\ streams[s].state = "reading"
    BY <1>1, <1>3, <1>11 DEF StreamInv, PendingResets
  <2>2. bytes = data
    BY <2>1, <1>11, <1>4, <1>5 DEF Unread
  <2>3. Fed(resets, s, px) = AfterHeader(data)
    BY <1>9, <1>11, <2>1, <2>2 DEF Opened, ResetIf
  <2> QED
    BY <2>1, <2>3, <1>6, <1>7 DEF body, c
<1>12. CASE s \in used /\ s \notin pending
  <2>1. /\ c = compressed[s] /\ c.blocks # 0 /\ streams[s].state = "reading"
        /\ streams[s] = ReaderAt(c.epoch, c.blocks)
    BY <1>1, <1>3, <1>12 DEF StreamInv, PendingResets
  <2>2. bytes \in {body, <<Flushed>> \o body}
    BY <2>1, <1>2, <1>12, <1>4, <1>5 DEF Unread
  <2>3. Fed(resets, s, px) = [reader |-> streams[s], rest |-> bytes]
    BY <1>9, <1>12, <2>1 DEF Opened, ResetIf
  <2> HIDE DEF bytes
  <2>4. SkipFlush(bytes) = body
    BY <2>2, <1>7, <1>8
  <2> QED
    BY <2>1, <2>3, <2>4 DEF body, c
<1> QED
  BY <1>10, <1>11, <1>12
-----------------------------------------------------------------------------
(* A server that sends reset bits starts those streams, and no other.      *)
LEMMA RestartedStreams ==
  ASSUME TightInv, NEW resets \in SUBSET Stream
  PROVE  /\ Restarted(resets) \in [Stream -> [epoch : Nat, blocks : Nat]]
         /\ \A s \in Stream :
              /\ s \in resets => Restarted(resets)[s].blocks = 0
              /\ s \notin resets => Restarted(resets)[s] = compressed[s]
<1>1. \A s \in Stream : compressed[s] \in [epoch : Nat, blocks : Nat]
  BY DEF TightInv, TightTypeOK
<1> QED
  BY <1>1 DEF Restarted

(* A stream that a rectangle does not read keeps its place, or is to be    *)
(* reset.                                                                  *)
LEMMA OtherStream ==
  ASSUME TightInv, NEW resets \in SUBSET Stream,
         MaySend, NEW s \in Stream,
         s \in used' <=> s \in used, s \in reset' <=> s \in PendingResets(resets),
         compressed'[s] = Restarted(resets)[s],
         streams'[s] = streams[s], streamBufs'[s] = streamBufs[s]
  PROVE  StreamInv(s)'
<1>1. StreamInv(s)
  BY DEF TightInv, StreamsInv, MaySend
<1>2. /\ s \in resets => compressed'[s].blocks = 0
      /\ s \notin resets => compressed'[s] = compressed[s]
  BY RestartedStreams
<1>3. CASE s \in resets
  BY <1>1, <1>2, <1>3 DEF StreamInv, PendingResets
<1>4. CASE s \notin resets
  BY <1>1, <1>2, <1>4 DEF StreamInv, PendingResets, ReaderAt
<1> QED
  BY <1>3, <1>4

(* A decoded rectangle joins those before it.                              *)
LEMMA DecodesOne ==
  ASSUME TightInv, failed = "none", Len(encoded) < MaxRects,
         NEW px \in Pixels, Decodes(CopyOf(px), px)
  PROVE  /\ failed' = "none" /\ CopiesInv'
         /\ encoded' \in Seq(Pixels) /\ Len(encoded') <= MaxRects
         /\ decoded' \in Seq([own : BOOLEAN, pixels : Pixels])
<1>1. /\ encoded \in Seq(Pixels) /\ decoded \in Seq([own : BOOLEAN, pixels : Pixels])
      /\ Len(encoded) = Len(decoded)
      /\ \A i \in 1..Len(decoded) : decoded[i] = CopyOf(encoded[i])
  BY DEF TightInv, TightTypeOK, CopiesInv
<1>2. CopyOf(px) \in [own : BOOLEAN, pixels : Pixels]
  BY DEF CopyOf
<1>3. encoded' = Append(encoded, px) /\ decoded' = Append(decoded, CopyOf(px)) /\ failed' = "none"
  BY DEF Decodes
<1>4. /\ encoded' \in Seq(Pixels) /\ Len(encoded) \in Nat /\ Len(encoded') = Len(encoded) + 1
      /\ \A i \in 1..Len(encoded) : encoded'[i] = encoded[i]
      /\ encoded'[Len(encoded) + 1] = px
  BY <1>1, <1>3, Appended
<1>5. /\ decoded' \in Seq([own : BOOLEAN, pixels : Pixels]) /\ Len(decoded') = Len(decoded) + 1
      /\ \A i \in 1..Len(decoded) : decoded'[i] = decoded[i]
      /\ decoded'[Len(decoded) + 1] = CopyOf(px)
  BY <1>1, <1>2, <1>3, Appended
<1>6. ASSUME NEW i \in 1..Len(decoded') PROVE decoded'[i] = CopyOf(encoded'[i])
  <2>1. CASE i \in 1..Len(decoded)
    BY <2>1, <1>1, <1>4, <1>5
  <2>2. CASE i = Len(decoded) + 1
    BY <2>2, <1>1, <1>4, <1>5
  <2> QED
    BY <2>1, <2>2, <1>1, <1>4, <1>5
<1>7. CopiesInv'
  BY <1>1, <1>3, <1>4, <1>5, <1>6 DEF CopiesInv, CopyOf
<1>8. Len(encoded') <= MaxRects
  BY <1>4, TightAssumption DEF TightAssumption
<1> QED
  BY <1>3, <1>4, <1>5, <1>7, <1>8

(* A rectangle that is refused ends the decoding; what was decoded stays.  *)
LEMMA FailsOne ==
  ASSUME TightInv, failed = "none", Len(encoded) < MaxRects,
         NEW why, why # "none", NEW px \in Pixels, Fails(why, px)
  PROVE  /\ failed' = why /\ CopiesInv'
         /\ encoded' \in Seq(Pixels) /\ Len(encoded') <= MaxRects
         /\ decoded' \in Seq([own : BOOLEAN, pixels : Pixels])
<1>1. /\ encoded \in Seq(Pixels) /\ decoded \in Seq([own : BOOLEAN, pixels : Pixels])
      /\ Len(encoded) = Len(decoded)
      /\ \A i \in 1..Len(decoded) : decoded[i] = CopyOf(encoded[i])
  BY DEF TightInv, TightTypeOK, CopiesInv
<1>2. encoded' = Append(encoded, px) /\ decoded' = decoded /\ failed' = why
  BY DEF Fails
<1>3. /\ encoded' \in Seq(Pixels) /\ Len(encoded) \in Nat /\ Len(encoded') = Len(encoded) + 1
      /\ \A i \in 1..Len(encoded) : encoded'[i] = encoded[i]
  BY <1>1, <1>2, Appended
<1>4. CopiesInv'
  BY <1>1, <1>2, <1>3 DEF CopiesInv, CopyOf
<1>5. Len(encoded') <= MaxRects
  BY <1>3, TightAssumption DEF TightAssumption
<1> QED
  BY <1>1, <1>2, <1>3, <1>4, <1>5
-----------------------------------------------------------------------------
(* The conjuncts of the invariant about the rectangles handed on.          *)
OutcomeInv ==
  /\ CopiesInv /\ failed \in {"none", "filter", "stream"}
  /\ encoded \in Seq(Pixels) /\ Len(encoded) <= MaxRects
  /\ decoded \in Seq([own : BOOLEAN, pixels : Pixels])

(* The conjuncts about the streams.                                        *)
ReadersInv ==
  /\ StreamsInv
  /\ compressed \in [Stream -> [epoch : Nat, blocks : Nat]]
  /\ used \subseteq Stream /\ reset \subseteq Stream
  /\ streams \in [Stream -> Readers] /\ DOMAIN streamBufs = Stream
  /\ failed = "none" => \A s \in Stream : streamBufs[s] \in {<<>>, <<Flushed>>}

LEMMA InvParts == TightInv <=> OutcomeInv /\ ReadersInv /\ buf \in Pixels
BY DEF TightInv, OutcomeInv, ReadersInv, TightTypeOK

LEMMA InvPartsNext == TightInv' <=> OutcomeInv' /\ ReadersInv' /\ buf' \in Pixels
BY DEF TightInv, OutcomeInv, ReadersInv, TightTypeOK, Readers, Flushed

(* What a rectangle leads to whose bytes have arrived.                     *)
LEMMA DecodesOutcome ==
  ASSUME TightInv, failed = "none", Len(encoded) < MaxRects,
         NEW px \in Pixels, Decodes(CopyOf(px), px)
  PROVE  OutcomeInv' /\ failed' = "none"
BY DecodesOne DEF OutcomeInv

LEMMA FilteredOutcome ==
  ASSUME TightInv, failed = "none", Len(encoded) < MaxRects,
         NEW px \in Pixels, NEW filter \in Filters, Filtered(filter, px)
  PROVE  OutcomeInv'
<1>1. CASE filter = "gradient"
  BY <1>1, FailsOne DEF OutcomeInv, Filtered, AsksTooMuch
<1>2. CASE filter # "gradient"
  BY <1>2, DecodesOutcome DEF Filtered, AsksTooMuch
<1> QED
  BY <1>1, <1>2

(* Rectangles that use no stream leave every reader where it is.           *)
LEMMA NoStreamUsed ==
  ASSUME TightInv, NEW resets \in SUBSET Stream, SendReset(resets),
         reset' = PendingResets(resets), UNCHANGED <<used, readerVars>>
  PROVE  ReadersInv'
<1>1. MaySend /\ failed = "none" /\ compressed' = Restarted(resets)
  BY DEF SendReset, MaySend
<1>2. ReadersInv
  BY InvParts
<1>3. \A s \in Stream : StreamInv(s)'
  BY <1>1, OtherStream DEF readerVars
<1>4. compressed' \in [Stream -> [epoch : Nat, blocks : Nat]]
  BY <1>1, RestartedStreams
<1> QED
  BY <1>1, <1>2, <1>3, <1>4 DEF ReadersInv, StreamsInv, PendingResets, readerVars, Readers, Flushed

(* BasicCompression reads its block, and leaves no more than the flush.    *)
LEMMA StreamUsed ==
  ASSUME TightInv, NEW resets \in SUBSET Stream, NEW s \in Stream,
         s \in used \/ s \notin PendingResets(resets),
         NEW filter \in Filters, NEW px \in Pixels, Basic(resets, s, filter, px)
  PROVE  TightInv' /\ failed' # "stream"
<1> DEFINE c == Restarted(resets)
           o == Fed(resets, s, px)
           b == SkipFlush(o.rest)
<1>1. MaySend /\ failed = "none" /\ Len(encoded) < MaxRects
  BY DEF Basic, MaySend
<1>2. /\ compressed' = [c EXCEPT ![s].blocks = @ + 1]
      /\ used' = used \union {s}
      /\ reset' = PendingResets(resets) \ {s}
  BY DEF Basic, ResetDone
<1>3. /\ o.reader = ReaderAt(c[s].epoch, c[s].blocks)
      /\ b = <<Block(c[s].epoch, c[s].blocks + 1, px), Flushed>>
  BY <1>1, BlockIsNext
<1>4. /\ c \in [Stream -> [epoch : Nat, blocks : Nat]]
      /\ c[s].epoch \in Nat /\ c[s].blocks \in Nat
  BY RestartedStreams
<1>5. ReadersInv
  BY InvParts
<1> HIDE DEF c, o
<1>6. b # <<>> /\ b[1] = Block(c[s].epoch, c[s].blocks + 1, px) /\ Tail(b) = <<Flushed>>
  BY <1>3, DataOfRectangle
<1>7. CanInflate(o.reader, b)
  BY <1>3, <1>4, <1>6 DEF CanInflate, ReaderAt, Block
<1>8. Inflates(s, filter, o.reader, b, px)
  BY <1>7 DEF Basic, c, o
<1> HIDE DEF b
<1>9. b[1].pixels = px
  BY <1>6 DEF Block
<1>10. OutcomeInv' /\ buf' = px
  BY <1>1, <1>8, <1>9, FilteredOutcome DEF Inflates, Filtered
<1>11. /\ compressed' \in [Stream -> [epoch : Nat, blocks : Nat]]
       /\ compressed'[s] = [epoch |-> c[s].epoch, blocks |-> c[s].blocks + 1]
       /\ \A t \in Stream \ {s} : compressed'[t] = c[t]
  BY <1>2, <1>4
<1>12. used' \subseteq Stream /\ reset' \subseteq Stream
  BY <1>2, <1>5 DEF ReadersInv, PendingResets
<1>13. CASE filter = "gradient"
  <2>1. /\ failed' = "filter"
        /\ streams' = [streams EXCEPT ![s] = BrokenReader]
        /\ streamBufs' = [streamBufs EXCEPT ![s] = <<>>]
    BY <1>8, <1>13 DEF Inflates, AsksTooMuch, Fails
  <2>2. streams' \in [Stream -> Readers] /\ DOMAIN streamBufs' = Stream
    BY <2>1, <1>5 DEF ReadersInv, Readers, BrokenReader
  <2>3. ReadersInv'
    BY <2>1, <2>2, <1>11, <1>12 DEF ReadersInv, StreamsInv, Readers
  <2> QED
    BY <2>1, <2>3, <1>10, InvPartsNext
<1>14. CASE filter # "gradient"
  <2>1. /\ streams' = [streams EXCEPT ![s] = ReaderAt(c[s].epoch, c[s].blocks + 1)]
        /\ failed' = "none"
    BY <1>1, <1>3, <1>8, <1>14 DEF Inflates, AsksTooMuch, Decodes, ReaderAt
  <2>2. SkipFlush(<<Flushed>>) = <<>>
    BY DEF SkipFlush, Flushed
  <2>3. \/ streamBufs' = [streamBufs EXCEPT ![s] = <<Flushed>>]
        \/ streamBufs' = [streamBufs EXCEPT ![s] = <<>>]
    BY <1>6, <1>8, <1>14, <2>2 DEF Inflates, AsksTooMuch
  <2>4. streams' \in [Stream -> Readers]
    BY <2>1, <1>4, <1>5 DEF ReadersInv, Readers, ReaderAt
  <2>5. /\ DOMAIN streamBufs' = Stream
        /\ \A t \in Stream : streamBufs'[t] \in {<<>>, <<Flushed>>}
        /\ \A t \in Stream \ {s} : streamBufs'[t] = streamBufs[t]
    BY <2>3, <1>1, <1>5 DEF ReadersInv
  <2>6. streams'[s] = ReaderAt(c[s].epoch, c[s].blocks + 1)
    BY <2>1, <1>5 DEF ReadersInv
  <2>7. StreamInv(s)'
    BY <2>6, <1>2, <1>4, <1>11 DEF StreamInv, ReaderAt
  <2>8. ASSUME NEW t \in Stream \ {s} PROVE StreamInv(t)'
    <3>1. streams'[t] = streams[t] /\ streamBufs'[t] = streamBufs[t]
      BY <2>1, <2>5, <1>5 DEF ReadersInv
    <3>2. compressed'[t] = Restarted(resets)[t]
      BY <1>11 DEF c
    <3> QED
      BY <3>1, <3>2, <1>1, <1>2, OtherStream
  <2>9. ReadersInv'
    BY <2>4, <2>5, <2>7, <2>8, <1>11, <1>12 DEF ReadersInv, StreamsInv, Readers, Flushed
  <2> QED
    BY <2>1, <2>9, <1>10, InvPartsNext
<1> QED
  BY <1>13, <1>14

(* A stream that is to be reset before it was ever used has two headers    *)
(* read from it: its data cannot be inflated, and nothing changes but the  *)
(* stream.                                                                 *)
LEMMA FirstUseReset ==
  ASSUME TightInv, NEW resets \in SUBSET Stream, NEW s \in Stream,
         s \notin used, s \in PendingResets(resets),
         NEW filter \in Filters, NEW px \in Pixels, Basic(resets, s, filter, px)
  PROVE  TightInv' /\ failed' = "stream"
<1> DEFINE c == Restarted(resets)
           o == Fed(resets, s, px)
           b == SkipFlush(o.rest)
           body == <<Block(c[s].epoch, c[s].blocks + 1, px), Flushed>>
           data == <<Header(c[s].epoch)>> \o body
<1>1. MaySend /\ failed = "none" /\ Len(encoded) < MaxRects
  BY DEF Basic, MaySend
<1>2. StreamInv(s)
  BY <1>1 DEF TightInv, StreamsInv
<1>3. /\ c \in [Stream -> [epoch : Nat, blocks : Nat]]
      /\ c[s].blocks = 0
  <2>1. compressed[s].blocks = 0
    BY <1>2 DEF StreamInv
  <2> QED
    BY <2>1, RestartedStreams
<1>4. /\ body[1] = Block(c[s].epoch, c[s].blocks + 1, px)
      /\ data # <<>> /\ data[1] = Header(c[s].epoch) /\ Tail(data) = body
      /\ <<>> \o data = data
  BY DataOfRectangle
<1>5. ZlibData(c[s], px) = data
  BY <1>3 DEF ZlibData
<1>6. streams[s].state = "nil"
  BY <1>2 DEF StreamInv, NoReader
<1>7. o = ResetIf(Opened(streams[s], data), s, PendingResets(resets))
  BY <1>4, <1>5 DEF Fed, Unread
<1> HIDE DEF o, c, data, body
<1>8. o = AfterHeader(AfterHeader(data).rest)
  BY <1>6, <1>7 DEF Opened, ResetIf
<1>9. AfterHeader(data).rest = body
  <2>1. data[1].kind = "header"
    BY <1>4 DEF Header
  <2> QED
    BY <2>1, <1>4 DEF AfterHeader
<1>10. o.reader = BrokenReader
  <2>1. body[1].kind # "header"
    BY <1>4 DEF Block
  <2> QED
    BY <2>1, <1>8, <1>9 DEF AfterHeader
<1>11. ~CanInflate(o.reader, b)
  BY <1>10 DEF CanInflate, BrokenReader
<1>12. /\ compressed' = [c EXCEPT ![s].blocks = @ + 1]
       /\ used' = used \union {s}
       /\ reset' = PendingResets(resets) \ {s}
  BY DEF Basic, ResetDone, c
<1>13. /\ streams' = [streams EXCEPT ![s] = BrokenReader]
       /\ streamBufs' = [streamBufs EXCEPT ![s] = b]
       /\ Fails("stream", px) /\ buf' = buf
  BY <1>11 DEF Basic, o
<1>14. failed' = "stream" /\ OutcomeInv'
  BY <1>1, <1>13, FailsOne DEF OutcomeInv
<1>15. ReadersInv /\ buf \in Pixels
  BY InvParts
<1>16. compressed' \in [Stream -> [epoch : Nat, blocks : Nat]]
  BY <1>3, <1>12
<1>17. used' \subseteq Stream /\ reset' \subseteq Stream
  BY <1>12, <1>15 DEF ReadersInv, PendingResets
<1>18. streams' \in [Stream -> Readers] /\ DOMAIN streamBufs' = Stream
  BY <1>13, <1>15 DEF ReadersInv, Readers, BrokenReader
<1>19. ReadersInv'
  BY <1>14, <1>16, <1>17, <1>18 DEF ReadersInv, StreamsInv, Readers
<1> QED
  BY <1>13, <1>14, <1>15, <1>19, InvPartsNext
-----------------------------------------------------------------------------
(* The invariant holds when the decoder is made (TightEncoding.Read).      *)
LEMMA InitTight == TightInit => TightInv
<1> SUFFICES ASSUME TightInit PROVE TightInv
  OBVIOUS
<1>1. /\ encoded = <<>> /\ decoded = <<>> /\ failed = "none" /\ buf \in Pixels
      /\ used = {} /\ reset = {}
  BY DEF TightInit
<1>2. OutcomeInv
  BY <1>1, TightAssumption DEF OutcomeInv, CopiesInv, TightAssumption
<1>3. \A s \in Stream : StreamInv(s)
  BY DEF TightInit, StreamInv
<1>4. ReadersInv
  BY <1>1, <1>3 DEF ReadersInv, StreamsInv, TightInit, Readers, NoReader
<1> QED
  BY <1>1, <1>2, <1>4, InvParts

(* Every rectangle preserves it.                                           *)
LEMMA NextTight ==
  ASSUME TightInv, [TightNext]_tightVars
  PROVE  TightInv'
<1>1. CASE UNCHANGED tightVars
  BY <1>1 DEF tightVars, TightInv, TightTypeOK, StreamsInv, StreamInv, CopiesInv,
    Readers, NoReader, ReaderAt, CopyOf, Flushed
<1>2. ASSUME NEW resets \in SUBSET Stream, NEW px \in Pixels, Fill(resets, px)
      PROVE  TightInv'
  <2>1. ReadersInv'
    BY <1>2, NoStreamUsed DEF Fill
  <2>2. OutcomeInv' /\ buf' \in Pixels
    BY <1>2, DecodesOutcome DEF Fill, SendReset, MaySend
  <2> QED
    BY <2>1, <2>2, InvPartsNext
<1>3. ASSUME NEW resets \in SUBSET Stream, NEW px \in Pixels, Jpeg(resets, px)
      PROVE  TightInv'
  <2>1. ReadersInv'
    BY <1>3, NoStreamUsed DEF Jpeg
  <2>2. OutcomeInv' /\ buf' = buf
    BY <1>3, DecodesOutcome DEF Jpeg, SendReset, MaySend, CopyOf
  <2> QED
    BY <2>1, <2>2, InvParts, InvPartsNext
<1>4. ASSUME NEW resets \in SUBSET Stream, NEW px \in Pixels, NEW filter \in Filters,
             Small(resets, filter, px)
      PROVE  TightInv'
  <2>1. ReadersInv'
    BY <1>4, NoStreamUsed DEF Small
  <2>2. OutcomeInv' /\ buf' \in Pixels
    BY <1>4, FilteredOutcome DEF Small, SendReset, MaySend
  <2> QED
    BY <2>1, <2>2, InvPartsNext
<1>5. ASSUME NEW resets \in SUBSET Stream, NEW px \in Pixels, NEW filter \in Filters,
             NEW s \in Stream, Basic(resets, s, filter, px)
      PROVE  TightInv'
  <2>1. CASE s \in used \/ s \notin PendingResets(resets)
    BY <2>1, <1>5, StreamUsed
  <2>2. CASE s \notin used /\ s \in PendingResets(resets)
    BY <2>2, <1>5, FirstUseReset
  <2> QED
    BY <2>1, <2>2
<1> QED
  BY <1>1, <1>2, <1>3, <1>4, <1>5 DEF TightNext

LEMMA TightInvariant == TightSpec => []TightInv
<1>1. TightInv /\ [TightNext]_tightVars => TightInv'
  BY NextTight
<1> QED
  BY InitTight, <1>1, PTL DEF TightSpec
-----------------------------------------------------------------------------
(* Every variable of the Tight decoder keeps its type, and no more than a  *)
(* flush is left unread in a stream (TightEncoding).                       *)
THEOREM TightTypeCorrect == TightSpec => []TightTypeOK
<1>1. TightInv => TightTypeOK
  BY DEF TightInv
<1> QED
  BY <1>1, TightInvariant, PTL

(* What was handed on is what was encoded and stays so while t.buf is      *)
(* overwritten (the copies of readBasicCompression).                       *)
THEOREM DecodesFaithfully == TightSpec => []DecodedIsEncoded
<1>1. TightInv => DecodedIsEncoded
  <2>1. \A px : Seen(CopyOf(px)) = px
    BY DEF Seen, CopyOf
  <2> QED
    BY <2>1 DEF TightInv, CopiesInv, DecodedIsEncoded
<1> QED
  BY <1>1, TightInvariant, PTL

(* Readers stay in step with their streams through any resets              *)
(* (basicCompressionReader).                                               *)
THEOREM StayInStep == TightSpec => []ReadersInStep
<1>1. TightInv => ReadersInStep
  BY DEF TightInv, TightTypeOK, StreamsInv, StreamInv, ReadersInStep
<1> QED
  BY <1>1, TightInvariant, PTL

(* A rectangle whose bytes do not come from a stream is not refused for    *)
(* one.                                                                    *)
LEMMA FilteredReason ==
  ASSUME NEW filter, NEW px, failed = "none", Filtered(filter, px)
  PROVE  failed' # "stream"
BY DEF Filtered, Fails, Decodes

(* Only the first use of a stream that was to be reset is refused for its  *)
(* stream: no interleaving of resets and streams later puts a reader out   *)
(* of step (basicCompressionReader).                                       *)
THEOREM RefusesFirstUseOnly == TightSpec => RefusedAtFirstUse
<1>1. ASSUME TightInv, [TightNext]_tightVars
      PROVE  [failed' = "stream" =>
                \E s \in used' \ used :
                  s \in reset \/ compressed'[s].epoch # compressed[s].epoch]_tightVars
  <2> SUFFICES ASSUME TightNext, failed' = "stream"
               PROVE  \E s \in used' \ used :
                        s \in reset \/ compressed'[s].epoch # compressed[s].epoch
    BY <1>1
  <2>1. ASSUME NEW resets \in SUBSET Stream, NEW px \in Pixels, Fill(resets, px)
        PROVE  FALSE
    BY <2>1 DEF Fill, SendReset, MaySend, Decodes
  <2>2. ASSUME NEW resets \in SUBSET Stream, NEW px \in Pixels, Jpeg(resets, px)
        PROVE  FALSE
    BY <2>2 DEF Jpeg, SendReset, MaySend, Decodes
  <2>3. ASSUME NEW resets \in SUBSET Stream, NEW px \in Pixels, NEW filter \in Filters,
               Small(resets, filter, px)
        PROVE  FALSE
    BY <2>3, FilteredReason DEF Small, SendReset, MaySend
  <2>4. PICK resets \in SUBSET Stream, px \in Pixels, filter \in Filters, s \in Stream :
          Basic(resets, s, filter, px)
    BY <2>1, <2>2, <2>3 DEF TightNext
  <2>5. s \notin used /\ s \in PendingResets(resets)
    BY <1>1, <2>4, StreamUsed
  <2>6. s \in used' /\ compressed' = [Restarted(resets) EXCEPT ![s].blocks = @ + 1]
    BY <2>4 DEF Basic
  <2>7. CASE s \in reset
    BY <2>5, <2>6, <2>7
  <2>8. CASE s \in resets
    <3>1. Restarted(resets) \in [Stream -> [epoch : Nat, blocks : Nat]]
      BY <1>1, RestartedStreams
    <3>2. compressed[s].epoch \in Nat
      BY <1>1 DEF TightInv, TightTypeOK
    <3>3. Restarted(resets)[s].epoch = compressed[s].epoch + 1
      BY <2>8 DEF Restarted
    <3>4. compressed'[s].epoch = Restarted(resets)[s].epoch
      BY <3>1, <2>6
    <3>5. compressed'[s].epoch # compressed[s].epoch
      BY <3>2, <3>3, <3>4
    <3> QED
      BY <3>5, <2>5, <2>6
  <2> QED
    BY <2>5, <2>7, <2>8 DEF PendingResets
<1> QED
  BY <1>1, TightInvariant, PTL DEF TightSpec, RefusedAtFirstUse
=============================================================================
