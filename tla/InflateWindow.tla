---------------------------- MODULE InflateWindow ---------------------------
(***************************************************************************)
(* The resumable inflator of the ZRLE decoder: Inflator and Reader of      *)
(* flexzlib over the decompressor of flexflate.  Each call of Inflate      *)
(* swaps in the next piece of one endless zlib stream and reads until it   *)
(* is used up.  The decompressor goes on where it stopped, in the middle   *)
(* of a block or of a copy if need be, and hands out its output as a slice *)
(* of the ring buffer hist that the next step writes on.                   *)
(*                                                                         *)
(* at is the function being executed, "caller" when Inflate is not         *)
(* running; a loop turn of that function is one action.  step is the       *)
(* function to resume with, which is not always the one that was running.  *)
(*                                                                         *)
(* The stream is made up as it is read: an action that reads a symbol      *)
(* chooses one a correct encoder could have written, and appends to plain  *)
(* what the symbol stands for.  Huffman codes and bits are abstracted: a   *)
(* symbol is there or not.  As in RFB, a piece ends with an empty stored   *)
(* block (a sync flush) and nowhere else.                                  *)
(***************************************************************************)
EXTENDS MemoryCopy, Sequences, FiniteSetsExt

CONSTANTS
  Byte,        \* plain bytes
  HistLen,     \* length of hist, 32768 in the code
  MaxCopy,     \* longest copy and longest stored block, 258 and 65535
  MaxPlain     \* bound: bytes in the stream

ASSUME WindowAssumption ==
  /\ HistLen \in Nat \ {0} /\ MaxCopy \in Nat \ {0} /\ MaxPlain \in Nat
  /\ Byte # {}

VARIABLES
  hist,        \* the last bytes produced, as a ring
  hp,          \* current output position in hist
  hw,          \* hist[0:hw] was given to toRead already
  hfull,       \* hist was full once
  readLo,
  readHi,      \* toRead is the slice hist[readLo:readHi]
  step,        \* what to resume with
  at,          \* what is being executed
  final,       \* the current block is the last one
  err,         \* f.err
  copyLen, copyDist,
  plain,       \* what the encoder has compressed (history)
  delivered,   \* what the calls of Inflate have read (history)
  synced       \* the last symbol read was a sync flush (history)

ring == <<hist, hp, hw, hfull, readLo, readHi>>
vars == <<hist, hp, hw, hfull, readLo, readHi, step, at, final, err, copyLen,
          copyDist, plain, delivered, synced>>

Slice(lo, hi) == [i \in 1..(hi - lo) |-> hist[lo + (i - 1)]]

Init ==
  /\ hist \in {[i \in 0..HistLen-1 |-> b] : b \in Byte}
  /\ hp = 0 /\ hw = 0 /\ hfull = FALSE /\ readLo = 0 /\ readHi = 0
  /\ step = "nextBlock" /\ at = "caller" /\ final = FALSE /\ err = "none"
  /\ copyLen = 0 /\ copyDist = 0
  /\ plain = <<>> /\ delivered = <<>> /\ synced = TRUE
-----------------------------------------------------------------------------
(* The caller: Inflator.Inflate, ioutil.ReadAll, Reader.Read, Read *)

(* SwapReader forgets the error the last piece ended with. *)
Inflate ==
  /\ at = "caller"
  /\ at' = "Read" /\ err' = "none"
  /\ UNCHANGED <<ring, step, final, copyLen, copyDist, plain, delivered, synced>>

(* As many bytes as the caller has room for. *)
ReadSome ==
  /\ at = "Read" /\ readLo < readHi
  /\ \E k \in 1..(readHi - readLo) :
       /\ delivered' = delivered \o Slice(readLo, readLo + k)
       /\ readLo' = readLo + k
  /\ UNCHANGED <<hist, hp, hw, hfull, readHi, step, at, final, err, copyLen,
                 copyDist, plain, synced>>

MutantFromTheStart == "nextBlock"
ResumeWith == step

DoStep ==
  /\ at = "Read" /\ readLo = readHi /\ err = "none"
  /\ at' = ResumeWith
  /\ UNCHANGED <<ring, step, final, err, copyLen, copyDist, plain, delivered, synced>>

(* An unexpected end of the input is the end of this piece. *)
InflateReturns ==
  /\ at = "Read" /\ readLo = readHi /\ err \in {"EOF", "unexpectedEOF"}
  /\ at' = "caller"
  /\ UNCHANGED <<ring, step, final, err, copyLen, copyDist, plain, delivered, synced>>

Caller == Inflate \/ ReadSome \/ DoStep \/ InflateReturns
-----------------------------------------------------------------------------
(* flush, with f.hp = h, to resume with s *)

MutantNotFull(h) ==
  IF h = HistLen
  THEN hp' = 0 /\ hw' = 0 /\ UNCHANGED hfull
  ELSE hp' = h /\ hw' = h /\ UNCHANGED hfull
MutantFlushedAgain(h) ==
  IF h = HistLen
  THEN hp' = 0 /\ hw' = 0 /\ hfull' = TRUE
  ELSE hp' = h /\ UNCHANGED <<hw, hfull>>
Wrap(h) ==
  IF h = HistLen
  THEN hp' = 0 /\ hw' = 0 /\ hfull' = TRUE
  ELSE hp' = h /\ hw' = h /\ UNCHANGED hfull

Flush(h, s) ==
  /\ readLo' = hw /\ readHi' = h
  /\ Wrap(h)
  /\ step' = s /\ at' = "Read"

(* Output was written up to h: resume with s if that fills hist. *)
Produced(h, s, next) ==
  IF h = HistLen
  THEN Flush(h, s)
  ELSE hp' = h /\ at' = next /\ UNCHANGED <<hw, hfull, readLo, readHi, step>>
-----------------------------------------------------------------------------
(* nextBlock *)

LastBlockOver ==
  /\ at = "nextBlock" /\ final
  /\ IF hw # hp
     THEN Flush(hp, "nextBlock") /\ UNCHANGED <<hist, err>>
     ELSE at' = "Read" /\ err' = "EOF" /\ UNCHANGED <<ring, step>>
  /\ UNCHANGED <<final, copyLen, copyDist, plain, delivered, synced>>

(* moreBits finds nothing: the piece is used up. *)
PieceOver ==
  /\ at = "nextBlock" /\ ~final /\ synced
  /\ at' = "Read" /\ err' = "unexpectedEOF"
  /\ UNCHANGED <<ring, step, final, copyLen, copyDist, plain, delivered, synced>>

HuffmanHeader ==
  /\ at = "nextBlock" /\ ~final
  /\ final' \in BOOLEAN
  /\ at' = "huffmanBlock" /\ synced' = FALSE
  /\ UNCHANGED <<ring, step, err, copyLen, copyDist, plain, delivered>>

(* dataBlock: a block of length zero is a sync flush. *)
MutantEmptyBlockIsData(len) == FALSE
IsSync(len) == len = 0

StoredHeader ==
  /\ at = "nextBlock" /\ ~final
  /\ final' \in BOOLEAN
  /\ \E len \in 0..MaxCopy :
       /\ Len(plain) + len <= MaxPlain
       /\ synced' = (len = 0)
       /\ IF IsSync(len)
          THEN Flush(hp, "nextBlock") /\ UNCHANGED <<hist, copyLen>>
          ELSE copyLen' = len /\ at' = "copyData" /\ UNCHANGED <<ring, step>>
  /\ UNCHANGED <<err, copyDist, plain, delivered>>

NextBlock == LastBlockOver \/ PieceOver \/ HuffmanHeader \/ StoredHeader
-----------------------------------------------------------------------------
(* huffmanBlock, copyHuff, copyHist *)

Literal ==
  /\ at = "huffmanBlock" /\ Len(plain) < MaxPlain
  /\ \E b \in Byte :
       /\ hist' = [hist EXCEPT ![hp] = b]
       /\ plain' = Append(plain, b)
  /\ Produced(hp + 1, "huffmanBlock", at)
  /\ UNCHANGED <<final, err, copyLen, copyDist, delivered, synced>>

EndOfBlock ==
  /\ at = "huffmanBlock"
  /\ step' = "nextBlock" /\ at' = "Read"
  /\ UNCHANGED <<ring, final, err, copyLen, copyDist, plain, delivered, synced>>

(* What a copy of len bytes from dist bytes ago appends. *)
Repeated(len, dist) ==
  [j \in 1..len |-> plain[Len(plain) - dist + 1 + ((j - 1) % dist)]]

MutantTooFarByOne(dist) == ~hfull /\ dist >= hp
TooFar(dist) == ~hfull /\ dist > hp

CopySymbol ==
  /\ at = "huffmanBlock"
  /\ \E len \in 1..MaxCopy, dist \in 1..HistLen :
       /\ dist <= Len(plain) /\ Len(plain) + len <= MaxPlain
       /\ plain' = plain \o Repeated(len, dist)
       /\ IF TooFar(dist)
          THEN at' = "Read" /\ err' = "corrupt" /\ UNCHANGED <<copyLen, copyDist>>
          ELSE /\ copyLen' = len /\ copyDist' = dist /\ at' = "copyHuff"
               /\ UNCHANGED err
  /\ UNCHANGED <<ring, step, final, delivered, synced>>

MutantUnwrapped == IF hp < copyDist THEN HistLen - copyDist ELSE hp - copyDist
CopySource == IF hp < copyDist THEN hp - copyDist + HistLen ELSE hp - copyDist

(* As much as lies in one piece before the end of hist.  The source        *)
(* follows hp at the distance copyDist round the ring.                     *)
CopyHist ==
  /\ at = "copyHuff" /\ copyLen > 0
  /\ LET n == Min({copyLen, HistLen - hp, HistLen - CopySource})
     IN  /\ hist' = Forward(hist, hp, CopySource, n)
         /\ copyLen' = copyLen - n
         /\ Produced(hp + n, "copyHuff",
                     IF n = copyLen THEN "huffmanBlock" ELSE at)
  /\ UNCHANGED <<final, err, copyDist, plain, delivered, synced>>

CopyOver ==
  /\ at = "copyHuff" /\ copyLen = 0
  /\ at' = "huffmanBlock"
  /\ UNCHANGED <<ring, step, final, err, copyLen, copyDist, plain, delivered, synced>>

HuffmanBlock == Literal \/ EndOfBlock \/ CopySymbol \/ CopyHist \/ CopyOver
-----------------------------------------------------------------------------
(* copyData: copyLen is only brought up to date when hist is full. *)
CopyData ==
  /\ at = "copyData" /\ copyLen > 0
  /\ LET n == Min({copyLen, HistLen - hp})
     IN  /\ \E data \in [1..n -> Byte] :
              /\ hist' = [i \in DOMAIN hist |->
                            IF hp <= i /\ i < hp + n THEN data[i - hp + 1] ELSE hist[i]]
              /\ plain' = plain \o data
         /\ IF hp + n = HistLen
            THEN Flush(HistLen, "copyData") /\ copyLen' = copyLen - n
            ELSE /\ hp' = hp + n /\ step' = "nextBlock" /\ at' = "Read"
                 /\ UNCHANGED <<hw, hfull, readLo, readHi, copyLen>>
  /\ UNCHANGED <<final, err, copyDist, delivered, synced>>

DataOver ==
  /\ at = "copyData" /\ copyLen = 0
  /\ step' = "nextBlock" /\ at' = "Read"
  /\ UNCHANGED <<ring, final, err, copyLen, copyDist, plain, delivered, synced>>

Next == Caller \/ NextBlock \/ HuffmanBlock \/ CopyData \/ DataOver

Spec == Init /\ [][Next]_vars
-----------------------------------------------------------------------------
(* A copy of which a part is still to be made. *)
Pending ==
  IF at = "copyHuff" \/ (at = "Read" /\ step = "copyHuff") THEN copyLen ELSE 0

produced == Len(plain) - Pending

WindowTypeOK ==
  /\ hist \in [0..HistLen-1 -> Byte]
  /\ hp \in 0..HistLen-1 /\ hw \in 0..HistLen-1 /\ hw <= hp
  /\ hfull \in BOOLEAN
  /\ readLo \in 0..HistLen /\ readHi \in 0..HistLen /\ readLo <= readHi
  /\ step \in {"nextBlock", "huffmanBlock", "copyHuff", "copyData"}
  /\ at \in {"caller", "Read", "nextBlock", "huffmanBlock", "copyHuff", "copyData"}
  /\ final \in BOOLEAN /\ synced \in BOOLEAN
  /\ err \in {"none", "EOF", "unexpectedEOF", "corrupt"}
  /\ copyLen \in 0..MaxCopy /\ copyDist \in 0..HistLen
  /\ plain \in Seq(Byte)
  /\ delivered \in Seq(Byte)

(* Wherever the decoding was interrupted, the ring holds the last HistLen  *)
(* bytes of what was produced, so that a copy finds what the encoder       *)
(* referred to (inflate.go:532-559, 681-691).                              *)
WindowIsHistory ==
  /\ ~hfull => produced = hp
  /\ \A i \in 0..hp-1 : hist[i] = plain[produced - hp + i + 1]
  /\ hfull => \A i \in hp..HistLen-1 :
                hist[i] = plain[produced - hp - HistLen + i + 1]

(* What was read, what can be read, and what was not flushed yet make up   *)
(* the stream: the slice handed out is read before the ring is written     *)
(* over it (inflate.go:285-297, 681-691).                                  *)
NothingSkipped ==
  /\ Len(delivered) + (readHi - readLo) + (hp - hw) = produced
  /\ \A i \in 1..Len(delivered) : delivered[i] = plain[i]
  /\ \A i \in readLo..readHi-1 :
       hist[i] = plain[Len(delivered) + (i - readLo) + 1]

(* Inflate returns with everything the piece stands for, however it was    *)
(* cut into blocks, and not with a part that the next call would return    *)
(* (inflator.go:16-32, reader.go:82-101).                                  *)
InflatedAll == at = "caller" => delivered = plain

(* A stream that refers only to what it contains is never refused as       *)
(* corrupt (inflate.go:516-526).                                           *)
NeverCorrupt == err # "corrupt"
=============================================================================
