---------------------------- MODULE TightStreams ----------------------------
(***************************************************************************)
(* The Tight decoder (vncclient/encoding.go) and its zlib streams.  The    *)
(* server compresses rectangles into one of several streams and may start  *)
(* any of them afresh with any rectangle, whatever that one is made of;    *)
(* the decoder keeps for each stream a reader and the bytes which it has   *)
(* not read, and a bitmap of the streams to be reset before their next     *)
(* use.  A rectangle, sent and decoded, is one action: there is one        *)
(* decoder, which reads rectangles one after the other.                    *)
(*                                                                         *)
(* The bytes of a stream are abstracted to tokens: the header, one block   *)
(* for the data of a rectangle, and the flush after it.  A block can only  *)
(* be inflated by a reader that has read the same stream up to it.         *)
(***************************************************************************)
EXTENDS Integers, Sequences

CONSTANTS
  Stream,      \* the zlib streams that are used
  Filters,     \* the filters that are used
  Pixels,      \* contents of a rectangle
  MaxRects     \* bound: rectangles

ASSUME TightAssumption ==
  /\ Stream \subseteq 0..3 /\ Filters \subseteq {"copy", "palette", "gradient"}
  /\ MaxRects \in Nat

VARIABLES
  compressed,  \* server: how often each stream was started, and blocks since
  used,        \* server: streams that were written to
  encoded,     \* what was sent (history)
  streams,     \* readers: what they have read
  streamBufs,  \* what they have not read
  reset,       \* streams to be reset before their next use
  buf,         \* t.buf, shared by all the rectangles
  decoded,     \* the rectangles handed on
  failed       \* "none", or what refused a rectangle: its "filter", or its
               \* "stream", which could not be inflated

serverVars == <<compressed, used, encoded>>
readerVars == <<streams, streamBufs>>
tightVars == <<compressed, used, encoded, streams, streamBufs, reset, buf, decoded, failed>>

Header(e) == [kind |-> "header", epoch |-> e, index |-> 0]
Block(e, i, px) == [kind |-> "block", epoch |-> e, index |-> i, pixels |-> px]
Flushed == [kind |-> "flush"]

NoReader == [state |-> "nil", epoch |-> 0, index |-> 0]
BrokenReader == [state |-> "broken", epoch |-> 0, index |-> 0]
ReaderAt(e, i) == [state |-> "reading", epoch |-> e, index |-> i]

TightInit ==
  /\ compressed = [s \in Stream |-> [epoch |-> 1, blocks |-> 0]]
  /\ used = {} /\ encoded = <<>>
  /\ streams = [s \in Stream |-> NoReader]
  /\ streamBufs = [s \in Stream |-> <<>>]
  /\ reset = {} /\ buf \in Pixels
  /\ decoded = <<>> /\ failed = "none"
-----------------------------------------------------------------------------
(* The server.  It may ask for any stream to be reset, whether it has used *)
(* it or not, and starts its own side of that stream afresh.               *)

MaySend == failed = "none" /\ Len(encoded) < MaxRects

Restarted(resets) ==
  [s \in Stream |-> IF s \in resets
                    THEN [epoch |-> compressed[s].epoch + 1, blocks |-> 0]
                    ELSE compressed[s]]

ZlibData(c, px) ==
  LET data == <<Block(c.epoch, c.blocks + 1, px), Flushed>>
  IN  IF c.blocks = 0 THEN <<Header(c.epoch)>> \o data ELSE data
-----------------------------------------------------------------------------
(* The decoder *)

(* A reset bit counts until its stream is used, whatever rectangle it came *)
(* with; the other bits of the control byte say what that rectangle is.    *)
MutantOnlyTheseBits(resets) == resets
PendingResets(resets) == reset \union resets

(* What a stream that is about to be read still holds. *)
Unread(s, pending) == IF s \in pending THEN <<>> ELSE streamBufs[s]

(* zlib.NewReader and Reset read a header, or fail. *)
AfterHeader(b) ==
  IF b # <<>> /\ b[1].kind = "header"
  THEN [reader |-> ReaderAt(b[1].epoch, 0), rest |-> Tail(b)]
  ELSE [reader |-> BrokenReader, rest |-> b]

Opened(r, b) ==
  IF r.state = "nil" THEN AfterHeader(b) ELSE [reader |-> r, rest |-> b]

(* The error of Reset is dropped; the reader returns it when it is read. *)
ResetIf(o, s, pending) ==
  IF s \in pending THEN AfterHeader(o.rest) ELSE o

MutantStillPending(s, pending) == pending
ResetDone(s, pending) == pending \ {s}

(* Stream s, given the data of a rectangle and made ready to be read.      *)
Fed(resets, s, px) ==
  LET pending == PendingResets(resets)
      bytes   == Unread(s, pending) \o ZlibData(Restarted(resets)[s], px)
  IN  ResetIf(Opened(streams[s], bytes), s, pending)

SkipFlush(b) == IF b # <<>> /\ b[1].kind = "flush" THEN Tail(b) ELSE b

CanInflate(r, b) ==
  /\ r.state = "reading" /\ b # <<>> /\ b[1].kind = "block"
  /\ b[1].epoch = r.epoch /\ b[1].index = r.index + 1

(* The colours of a rectangle, as they are when they are looked at: its    *)
(* own memory, or that of t.buf.                                           *)
MutantAlias(px) == [own |-> FALSE, pixels |-> px]
CopyOf(px) == [own |-> TRUE, pixels |-> px]
Seen(colors) == IF colors.own THEN colors.pixels ELSE buf

Decodes(colors, px) ==
  /\ decoded' = Append(decoded, colors)
  /\ encoded' = Append(encoded, px)
  /\ UNCHANGED failed

(* The error ends the main loop of the connection. *)
Fails(why, px) ==
  /\ failed' = why
  /\ encoded' = Append(encoded, px)
  /\ UNCHANGED decoded

(* A filter is given the bytes there are.  GradientFilter asks for three   *)
(* times as many: the end of the data is an error for it.                  *)
AsksTooMuch(filter) == filter = "gradient"

Filtered(filter, px) ==
  IF AsksTooMuch(filter) THEN Fails("filter", px) ELSE Decodes(CopyOf(px), px)

SendReset(resets) ==
  /\ MaySend
  /\ compressed' = Restarted(resets)
-----------------------------------------------------------------------------
(* FillCompression: one colour, read into t.buf and copied from there.     *)
Fill(resets, px) ==
  /\ SendReset(resets)
  /\ reset' = PendingResets(resets)
  /\ buf' = px /\ Decodes(CopyOf(px), px)
  /\ UNCHANGED <<used, readerVars>>

(* JpegCompression: the colours are the memory of the image.               *)
Jpeg(resets, px) ==
  /\ SendReset(resets)
  /\ reset' = PendingResets(resets)
  /\ Decodes([own |-> TRUE, pixels |-> px], px)
  /\ UNCHANGED <<used, readerVars, buf>>

(* BasicCompression of less than twelve bytes: nothing is compressed, and  *)
(* no stream is used.                                                      *)
Small(resets, filter, px) ==
  /\ SendReset(resets)
  /\ reset' = PendingResets(resets)
  /\ buf' = px /\ Filtered(filter, px)
  /\ UNCHANGED <<used, readerVars>>

(* The reader returns the pixels of the block before it.  It may or may    *)
(* not have read the flush after that; who asks for more gets an error.    *)
Inflates(s, filter, reader, b, px) ==
  /\ buf' = b[1].pixels
  /\ IF AsksTooMuch(filter)
     THEN /\ streams' = [streams EXCEPT ![s] = BrokenReader]
          /\ streamBufs' = [streamBufs EXCEPT ![s] = <<>>]
          /\ Fails("filter", px)
     ELSE /\ streams' = [streams EXCEPT ![s] = ReaderAt(reader.epoch, reader.index + 1)]
          /\ streamBufs' \in {[streamBufs EXCEPT ![s] = Tail(b)],
                              [streamBufs EXCEPT ![s] = SkipFlush(Tail(b))]}
          /\ Decodes(CopyOf(b[1].pixels), px)

(* BasicCompression through stream s. *)
Basic(resets, s, filter, px) ==
  /\ MaySend
  /\ LET o == Fed(resets, s, px)
         b == SkipFlush(o.rest)
     IN  /\ compressed' = [Restarted(resets) EXCEPT ![s].blocks = @ + 1]
         /\ used' = used \union {s}
         /\ reset' = ResetDone(s, PendingResets(resets))
         /\ IF CanInflate(o.reader, b)
            THEN Inflates(s, filter, o.reader, b, px)
            ELSE /\ streams' = [streams EXCEPT ![s] = BrokenReader]
                 /\ streamBufs' = [streamBufs EXCEPT ![s] = b]
                 /\ Fails("stream", px)
                 /\ UNCHANGED buf

TightNext ==
  \E resets \in SUBSET Stream, px \in Pixels :
    \/ Fill(resets, px)
    \/ Jpeg(resets, px)
    \/ \E filter \in Filters :
         \/ Small(resets, filter, px)
         \/ \E s \in Stream : Basic(resets, s, filter, px)

TightSpec == TightInit /\ [][TightNext]_tightVars
-----------------------------------------------------------------------------
Readers ==
  [state : {"nil", "broken", "reading"}, epoch : Nat, index : Nat]

(* Type invariant.  Between two rectangles no more than a flush is left    *)
(* unread (TightEncoding).                                                 *)
TightTypeOK ==
  /\ compressed \in [Stream -> [epoch : Nat, blocks : Nat]]
  /\ used \subseteq Stream /\ reset \subseteq Stream
  /\ encoded \in Seq(Pixels) /\ Len(encoded) <= MaxRects
  /\ streams \in [Stream -> Readers]
  /\ DOMAIN streamBufs = Stream
  /\ failed = "none" => \A s \in Stream : streamBufs[s] \in {<<>>, <<Flushed>>}
  /\ buf \in Pixels
  /\ decoded \in Seq([own : BOOLEAN, pixels : Pixels])
  /\ failed \in {"none", "filter", "stream"}

(* Every rectangle that was handed on shows what was encoded, also after   *)
(* later rectangles have been read into the same buffer (the copies that   *)
(* readBasicCompression makes).                                            *)
DecodedIsEncoded ==
  /\ Len(encoded) = Len(decoded) + (IF failed = "none" THEN 0 ELSE 1)
  /\ \A i \in 1..Len(decoded) : Seen(decoded[i]) = encoded[i]

(* A reader whose stream is not to be reset has read that stream up to its *)
(* last block, however resets, rectangles without a stream and other       *)
(* streams came between (Read, basicCompressionReader).                    *)
ReadersInStep ==
  failed = "none" =>
    \A s \in used \ reset :
      streams[s] = ReaderAt(compressed[s].epoch, compressed[s].blocks)

(* Once a stream has been used it is never refused again: a rectangle can  *)
(* be refused for its stream only at the first use of one that the server  *)
(* asked to reset, with this rectangle or before (basicCompressionReader). *)
RefusedAtFirstUse ==
  [][failed' = "stream" =>
       \E s \in used' \ used :
         s \in reset \/ compressed'[s].epoch # compressed[s].epoch]_tightVars

(* A stream that the server asks to be reset is reset and then read (NOTE1 *)
(* of basicCompressionReader): it is never refused.                        *)
ResetsAreHeeded == failed # "stream"

(* Every filter finds the pixels that it asks for (the description of      *)
(* GradientFilter in readBasicCompression).                                *)
FiltersReadTheirPixels == failed # "filter"
=============================================================================
