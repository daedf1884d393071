------------------------- MODULE InflateWindowProofs ------------------------
(***************************************************************************)
(* Whatever the size of the ring, the bytes, and the way a stream is cut   *)
(* into pieces, blocks and copies, Inflate returns what was compressed.    *)
(***************************************************************************)
EXTENDS InflateWindow, DataLemmas

(* Where the decoder is, and what has then been handed out. *)
ControlInv ==
  /\ at # "Read" => readLo = readHi
  /\ at \notin {"Read", "caller"} => err = "none"
  /\ at = "nextBlock" => step = "nextBlock"
  /\ at = "caller" => step = "nextBlock" /\ hw = hp
  /\ err # "none" => step = "nextBlock" /\ hw = hp
  /\ synced => step = "nextBlock" /\ hw = hp /\ at \in {"caller", "Read", "nextBlock"}

(* The rest of a copy repeats the copyDist bytes before it, and the ring   *)
(* holds these.                                                            *)
PendingInv ==
  /\ Pending <= Len(plain)
  /\ Pending > 0 =>
       /\ copyDist > 0 /\ (~hfull => copyDist <= hp)
       /\ \A j \in 0..copyLen-1 :
            plain[produced + j + 1] = plain[produced - copyDist + (j % copyDist) + 1]

FullInv == hfull => produced >= HistLen + hp

(* The sizes involved are numbers, in these ranges. *)
Sizes ==
  /\ produced \in Nat /\ produced <= Len(plain) /\ Len(plain) \in Nat
  /\ Pending \in Nat /\ HistLen \in Nat \ {0} /\ MaxCopy \in Nat
  /\ copyLen \in Nat /\ copyDist \in Nat /\ copyDist <= HistLen
  /\ hp \in Nat /\ hw \in Nat /\ hp < HistLen /\ hw <= hp
  /\ readLo \in Nat /\ readHi \in Nat /\ readLo <= readHi
  /\ Len(delivered) \in Nat

WindowInv == WindowIsHistory /\ NothingSkipped /\ FullInv

IInv == WindowTypeOK /\ WindowInv /\ ControlInv /\ PendingInv /\ NeverCorrupt

LEMMA SizesOK ==
  ASSUME WindowTypeOK, PendingInv
  PROVE  Sizes
<1>1. Len(plain) \in Nat /\ Len(delivered) \in Nat /\ HistLen \in Nat \ {0} /\ MaxCopy \in Nat
  BY WindowAssumption DEF WindowTypeOK
<1>2. copyLen \in Nat /\ copyDist \in Nat /\ copyDist <= HistLen
  BY <1>1 DEF WindowTypeOK
<1>3. Pending \in Nat /\ Pending <= Len(plain)
  BY <1>2 DEF Pending, PendingInv
<1>4. produced \in Nat /\ produced <= Len(plain)
  BY <1>1, <1>3 DEF produced
<1>5. hp \in Nat /\ hw \in Nat /\ hp < HistLen /\ hw <= hp
  BY <1>1 DEF WindowTypeOK
<1>6. readLo \in Nat /\ readHi \in Nat /\ readLo <= readHi
  BY <1>1 DEF WindowTypeOK
<1> QED  BY <1>1, <1>2, <1>3, <1>4, <1>5, <1>6 DEF Sizes

(* n bytes more were written at hp, as they stand in the stream. *)
LEMMA ProducedKeeps ==
  ASSUME Sizes, WindowInv, readLo = readHi,
         NEW n \in 1..(HistLen - hp),
         hp + n = HistLen =>
           hp' = 0 /\ hw' = 0 /\ hfull' = TRUE /\ readLo' = hw /\ readHi' = HistLen,
         hp + n # HistLen =>
           hp' = hp + n /\ hw' = hw /\ hfull' = hfull /\ readLo' = readLo /\ readHi' = readHi,
         delivered' = delivered, produced' = produced + n,
         \A i \in 1..produced : plain'[i] = plain[i],
         \A i \in 0..HistLen-1 : i < hp \/ i >= hp + n => hist'[i] = hist[i],
         \A i \in hp..hp+n-1 : hist'[i] = plain'[produced + (i - hp) + 1]
  PROVE  WindowInv'
<1>0. /\ produced \in Nat /\ HistLen \in Nat /\ hp \in Nat /\ hw \in Nat /\ hw <= hp
      /\ n \in Nat /\ n >= 1 /\ hp + n <= HistLen /\ Len(delivered) \in Nat
      /\ readLo \in Nat /\ readHi \in Nat
  BY DEF Sizes
<1>1. produced >= hp
  BY <1>0 DEF WindowInv, WindowIsHistory, FullInv
<1>2. ASSUME NEW i \in 0..hp-1
      PROVE  hist'[i] = plain'[produced - hp + i + 1]
  <2>1. i \in 0..HistLen-1 /\ i < hp /\ produced - hp + i + 1 \in 1..produced
    BY <1>0, <1>1
  <2>2. hist[i] = plain[produced - hp + i + 1]
    BY DEF WindowInv, WindowIsHistory
  <2> QED  BY <2>1, <2>2
<1>3. ASSUME hfull, NEW i \in hp+n..HistLen-1
      PROVE  hist'[i] = plain'[produced - hp - HistLen + i + 1]
  <2>1. produced >= HistLen + hp
    BY <1>3 DEF WindowInv, FullInv
  <2>2. i \in 0..HistLen-1 /\ i >= hp + n /\ i \in hp..HistLen-1
        /\ produced - hp - HistLen + i + 1 \in 1..produced
    BY <1>0, <2>1
  <2>3. hist[i] = plain[produced - hp - HistLen + i + 1]
    BY <1>3, <2>2 DEF WindowInv, WindowIsHistory
  <2> QED  BY <2>2, <2>3
<1>4. ASSUME NEW i \in 0..hp+n-1
      PROVE  hist'[i] = plain'[produced - hp + i + 1]
  <2>1. CASE i \in 0..hp-1
    BY <1>2, <2>1
  <2>2. CASE i \in hp..hp+n-1
    <3>1. produced + (i - hp) + 1 = produced - hp + i + 1
      BY <1>0
    <3> QED  BY <2>2, <3>1
  <2> QED  BY <1>0, <2>1, <2>2
<1>5. Len(delivered) + (hp - hw) = produced
  BY <1>0 DEF WindowInv, NothingSkipped
<1>6. \A i \in 1..Len(delivered) : delivered[i] = plain'[i]
  BY <1>0, <1>5 DEF WindowInv, NothingSkipped
<1>7. CASE hp + n = HistLen
  <2>0. /\ hp' = 0 /\ hw' = 0 /\ hfull' = TRUE /\ readLo' = hw /\ readHi' = HistLen
    BY <1>7
  <2>1. \A i \in 0..HistLen-1 : hist'[i] = plain'[produced' - hp' - HistLen + i + 1]
    <3>1. ASSUME NEW i \in 0..HistLen-1
          PROVE  hist'[i] = plain'[produced' - hp' - HistLen + i + 1]
      <4>1. produced' - hp' - HistLen + i + 1 = produced - hp + i + 1
        BY <1>0, <1>7, <2>0
      <4>2. i \in 0..hp+n-1
        BY <1>0, <1>7
      <4> QED  BY <1>4, <4>1, <4>2
    <3> QED  BY <3>1
  <2>2. WindowIsHistory'
    BY <2>0, <2>1 DEF WindowIsHistory
  <2>3. FullInv'
    BY <1>0, <1>1, <1>7, <2>0 DEF FullInv
  <2>4. \A i \in hw..HistLen-1 : hist'[i] = plain'[Len(delivered) + (i - hw) + 1]
    <3>1. ASSUME NEW i \in hw..HistLen-1
          PROVE  hist'[i] = plain'[Len(delivered) + (i - hw) + 1]
      <4>1. Len(delivered) + (i - hw) + 1 = produced - hp + i + 1 /\ i \in 0..hp+n-1
        BY <1>0, <1>5, <1>7
      <4> QED  BY <1>4, <4>1
    <3> QED  BY <3>1
  <2>5. Len(delivered) + (HistLen - hw) + (0 - 0) = produced + n
    BY <1>0, <1>5, <1>7
  <2>6. NothingSkipped'
    BY <1>6, <2>0, <2>4, <2>5 DEF NothingSkipped
  <2> QED  BY <2>2, <2>3, <2>6 DEF WindowInv
<1>8. CASE hp + n # HistLen
  <2>0. hp' = hp + n /\ hw' = hw /\ hfull' = hfull /\ readLo' = readLo /\ readHi' = readHi
    BY <1>8
  <2>1. ~hfull => produced' = hp'
    BY <1>0, <2>0 DEF WindowInv, WindowIsHistory
  <2>2. ASSUME NEW i \in 0..hp'-1
        PROVE  hist'[i] = plain'[produced' - hp' + i + 1]
    <3>1. i \in 0..hp+n-1 /\ produced' - hp' + i + 1 = produced - hp + i + 1
      BY <1>0, <2>0
    <3> QED  BY <1>4, <3>1
  <2>3. ASSUME hfull, NEW i \in hp'..HistLen-1
        PROVE  hist'[i] = plain'[produced' - hp' - HistLen + i + 1]
    <3>1. i \in hp+n..HistLen-1
          /\ produced' - hp' - HistLen + i + 1 = produced - hp - HistLen + i + 1
      BY <1>0, <2>0
    <3> QED  BY <1>3, <2>3, <3>1
  <2>4. WindowIsHistory'
    BY <2>0, <2>1, <2>2, <2>3 DEF WindowIsHistory
  <2>5. FullInv'
    BY <1>0, <2>0 DEF FullInv, WindowInv
  <2>6. \A i \in readLo'..readHi'-1 :
          hist'[i] = plain'[Len(delivered') + (i - readLo') + 1]
    BY <1>0, <2>0
  <2>7. Len(delivered') + (readHi' - readLo') + (hp' - hw') = produced'
    <3>1. readHi - readLo = 0 /\ Len(delivered) + ((hp + n) - hw) = produced + n
      BY <1>0, <1>5
    <3>2. Len(delivered) + 0 + ((hp + n) - hw) = produced + n
      BY <1>0, <3>1
    <3> QED  BY <2>0, <3>1, <3>2
  <2>8. \A i \in 1..Len(delivered') : delivered'[i] = plain'[i]
    BY <1>6
  <2>9. NothingSkipped'
    BY <2>6, <2>7, <2>8 DEF NothingSkipped
  <2> QED  BY <2>4, <2>5, <2>9 DEF WindowInv
<1> QED  BY <1>7, <1>8

(* Nothing is produced, flushed or read. *)
LEMMA RingKeeps ==
  ASSUME Sizes, WindowInv, UNCHANGED ring, delivered' = delivered, produced' = produced,
         \A i \in 1..produced : plain'[i] = plain[i]
  PROVE  WindowInv'
<1>0. /\ hist' = hist /\ hp' = hp /\ hw' = hw /\ hfull' = hfull /\ readLo' = readLo /\ readHi' = readHi
      /\ produced \in Nat /\ HistLen \in Nat /\ hp \in Nat /\ hw \in Nat /\ hw <= hp
      /\ hp < HistLen /\ Len(delivered) \in Nat
      /\ readLo \in Nat /\ readHi \in Nat /\ readLo <= readHi
  BY DEF ring, Sizes
<1>1. produced >= hp /\ (hfull => produced >= HistLen + hp)
  BY <1>0 DEF WindowInv, WindowIsHistory, FullInv
<1>2. ASSUME NEW i \in 0..hp-1
      PROVE  hist[i] = plain'[produced - hp + i + 1]
  <2>1. produced - hp + i + 1 \in 1..produced
    BY <1>0, <1>1
  <2> QED  BY <2>1 DEF WindowInv, WindowIsHistory
<1>3. ASSUME hfull, NEW i \in hp..HistLen-1
      PROVE  hist[i] = plain'[produced - hp - HistLen + i + 1]
  <2>1. produced - hp - HistLen + i + 1 \in 1..produced
    BY <1>0, <1>1, <1>3
  <2> QED  BY <1>3, <2>1 DEF WindowInv, WindowIsHistory
<1>4. WindowIsHistory'
  BY <1>0, <1>2, <1>3 DEF WindowInv, WindowIsHistory
<1>5. FullInv'
  BY <1>0 DEF WindowInv, FullInv
<1>6. Len(delivered) + (readHi - readLo) + (hp - hw) = produced
  BY DEF WindowInv, NothingSkipped
<1>7. ASSUME NEW i \in 1..Len(delivered)
      PROVE  delivered[i] = plain'[i]
  <2>1. i \in 1..produced
    BY <1>0, <1>6
  <2> QED  BY <2>1 DEF WindowInv, NothingSkipped
<1>8. ASSUME NEW i \in readLo..readHi-1
      PROVE  hist[i] = plain'[Len(delivered) + (i - readLo) + 1]
  <2>1. Len(delivered) + (i - readLo) + 1 \in 1..produced
    BY <1>0, <1>6
  <2> QED  BY <2>1 DEF WindowInv, NothingSkipped
<1>9. NothingSkipped'
  BY <1>0, <1>6, <1>7, <1>8 DEF NothingSkipped
<1> QED  BY <1>4, <1>5, <1>9 DEF WindowInv

(* What was produced is flushed, and hist is not full. *)
LEMMA FlushKeeps ==
  ASSUME Sizes, WindowInv, readLo = readHi,
         Flush(hp, "nextBlock"), UNCHANGED <<hist, plain, delivered>>,
         produced' = produced
  PROVE  /\ WindowInv' /\ hp' = hp /\ hw' = hp /\ hfull' = hfull
         /\ readLo' = hw /\ readHi' = hp
<1>0. /\ produced \in Nat /\ HistLen \in Nat /\ hp \in Nat /\ hw \in Nat /\ hw <= hp
      /\ hp < HistLen /\ Len(delivered) \in Nat /\ readLo \in Nat /\ readHi \in Nat
  BY DEF Sizes
<1>1. hp' = hp /\ hw' = hp /\ hfull' = hfull /\ readLo' = hw /\ readHi' = hp
  BY <1>0 DEF Flush, Wrap
<1>2. WindowIsHistory' /\ FullInv'
  BY <1>1 DEF WindowInv, WindowIsHistory, FullInv
<1>3. Len(delivered) + (hp - hw) = produced
  BY <1>0 DEF WindowInv, NothingSkipped
<1>4. ASSUME NEW i \in hw..hp-1
      PROVE  hist[i] = plain[Len(delivered) + (i - hw) + 1]
  <2>1. i \in 0..hp-1 /\ Len(delivered) + (i - hw) + 1 = produced - hp + i + 1
    BY <1>0, <1>3
  <2> QED  BY <2>1 DEF WindowInv, WindowIsHistory
<1>5. Len(delivered) + (hp - hw) + (hp - hp) = produced
  BY <1>0, <1>3
<1>6. NothingSkipped'
  BY <1>1, <1>4, <1>5 DEF NothingSkipped, WindowInv
<1> QED  BY <1>1, <1>2, <1>6 DEF WindowInv

-----------------------------------------------------------------------------
LEMMA Least2 ==
  \A a, b \in Int : /\ Min({a, b}) \in {a, b}
                    /\ Min({a, b}) <= a /\ Min({a, b}) <= b
<1> SUFFICES ASSUME NEW a \in Int, NEW b \in Int
             PROVE  /\ Min({a, b}) \in {a, b}
                    /\ Min({a, b}) <= a /\ Min({a, b}) <= b
  OBVIOUS
<1>1. \E x \in {a, b} : \A y \in {a, b} : x =< y
  OBVIOUS
<1> QED  BY <1>1 DEF Min

LEMMA Least3 ==
  \A a, b, c \in Int :
    /\ Min({a, b, c}) \in {a, b, c}
    /\ Min({a, b, c}) <= a /\ Min({a, b, c}) <= b /\ Min({a, b, c}) <= c
<1> SUFFICES ASSUME NEW a \in Int, NEW b \in Int, NEW c \in Int
             PROVE  /\ Min({a, b, c}) \in {a, b, c}
                    /\ Min({a, b, c}) <= a /\ Min({a, b, c}) <= b /\ Min({a, b, c}) <= c
  OBVIOUS
<1>1. \E x \in {a, b, c} : \A y \in {a, b, c} : x =< y
  <2>1. CASE a <= b /\ a <= c
    BY <2>1
  <2>2. CASE b <= a /\ b <= c
    BY <2>2
  <2>3. CASE c <= a /\ c <= b
    BY <2>3
  <2> QED  BY <2>1, <2>2, <2>3
<1> QED  BY <1>1 DEF Min

(* A step between two functions: no byte moves. *)
LEMMA QuietKeeps ==
  ASSUME Sizes, WindowInv, PendingInv, UNCHANGED <<ring, plain, delivered>>,
         Pending' = Pending, Pending > 0 => UNCHANGED <<copyLen, copyDist>>
  PROVE  WindowInv' /\ PendingInv'
<1>1. produced' = produced /\ plain' = plain
  BY DEF produced
<1>2. WindowInv'
  BY <1>1, RingKeeps
<1>3. PendingInv'
  BY <1>1 DEF PendingInv, ring
<1> QED  BY <1>2, <1>3

LEMMA FlushedBlock ==
  ASSUME Sizes, WindowInv, PendingInv, readLo = readHi, at = "nextBlock",
         Flush(hp, "nextBlock"), UNCHANGED <<hist, plain, delivered>>
  PROVE  WindowInv' /\ PendingInv' /\ hp' = hp /\ hw' = hp
<1>1. Pending = 0 /\ Pending' = 0
  BY DEF Pending, Flush
<1>2. produced' = produced
  BY <1>1 DEF produced
<1>3. WindowInv' /\ hp' = hp /\ hw' = hp
  BY <1>2, FlushKeeps
<1>4. PendingInv'
  BY <1>1 DEF PendingInv, Sizes
<1> QED  BY <1>3, <1>4

LEMMA Joined ==
  \A s, t \in Seq(Byte) :
    /\ s \o t \in Seq(Byte) /\ Len(s \o t) = Len(s) + Len(t)
    /\ \A i \in 1..Len(s) : (s \o t)[i] = s[i]
    /\ \A i \in 1..Len(t) : (s \o t)[Len(s) + i] = t[i]
OBVIOUS

LEMMA StepReadSome ==
  ASSUME Sizes, WindowInv, PendingInv, WindowTypeOK, ReadSome
  PROVE  /\ WindowInv' /\ PendingInv'
         /\ delivered' \in Seq(Byte) /\ readLo' \in 0..HistLen /\ readLo' <= readHi
<1>1. PICK k \in 1..(readHi - readLo) :
        /\ delivered' = delivered \o Slice(readLo, readLo + k)
        /\ readLo' = readLo + k
  BY DEF ReadSome
<1>2. /\ UNCHANGED <<hist, hp, hw, hfull, readHi, step, at, copyLen, copyDist, plain>>
      /\ k \in Nat /\ readLo \in Nat /\ readHi \in Nat /\ readLo + k <= readHi
      /\ readHi <= HistLen /\ HistLen \in Nat
  BY WindowAssumption DEF ReadSome, Sizes, WindowTypeOK
<1>3. Pending' = Pending /\ produced' = produced
  BY <1>2 DEF Pending, produced
<1>4. PendingInv'
  BY <1>2, <1>3 DEF PendingInv
<1>5. WindowIsHistory' /\ FullInv'
  BY <1>2, <1>3 DEF WindowInv, WindowIsHistory, FullInv
<1> DEFINE piece == Slice(readLo, readLo + k)
<1>6. /\ piece \in Seq(Byte) /\ Len(piece) = k
      /\ \A i \in 1..k : piece[i] = hist[readLo + (i - 1)]
  <2>1. (readLo + k) - readLo = k
    BY <1>2
  <2>2. piece = [i \in 1..k |-> hist[readLo + (i - 1)]]
    BY <2>1 DEF Slice
  <2>3. \A i \in 1..k : hist[readLo + (i - 1)] \in Byte
    BY <1>2 DEF WindowTypeOK
  <2> HIDE DEF piece
  <2> QED  BY <1>2, <2>2, <2>3
<1> HIDE DEF piece
<1>7. /\ delivered' = delivered \o piece /\ Len(delivered) \in Nat
      /\ delivered \in Seq(Byte)
  BY <1>1 DEF piece, Sizes, WindowTypeOK
<1>8. Len(delivered') = Len(delivered) + k
  BY <1>6, <1>7, Joined
<1>9. Len(delivered') + (readHi' - readLo') + (hp' - hw') = produced'
  <2>1. Len(delivered) + (readHi - readLo) + (hp - hw) = produced
    BY DEF WindowInv, NothingSkipped
  <2>2. hp \in Nat /\ hw \in Nat /\ readLo' = readLo + k
    BY <1>1 DEF Sizes
  <2> QED  BY <1>2, <1>3, <1>7, <1>8, <2>1, <2>2
<1>10. ASSUME NEW i \in 1..Len(delivered')
       PROVE  delivered'[i] = plain'[i]
  <2>1. CASE i <= Len(delivered)
    BY <1>2, <1>6, <1>7, <1>8, <2>1 DEF WindowInv, NothingSkipped
  <2>2. CASE i > Len(delivered)
    <3> DEFINE x == readLo + (i - Len(delivered) - 1)
    <3>1. i - Len(delivered) \in 1..k /\ x \in readLo..readHi-1
      BY <1>2, <1>7, <1>8, <2>2
    <3>2. delivered'[i] = piece[i - Len(delivered)]
      BY <1>6, <1>7, <1>8, <2>2, <3>1
    <3>3. piece[i - Len(delivered)] = hist[x]
      BY <1>6, <3>1
    <3>4. hist[x] = plain[Len(delivered) + (x - readLo) + 1]
      BY <3>1 DEF WindowInv, NothingSkipped
    <3>5. Len(delivered) + (x - readLo) + 1 = i
      BY <1>2, <1>7, <3>1
    <3> QED  BY <1>2, <3>2, <3>3, <3>4, <3>5
  <2> QED  BY <1>7, <1>8, <2>1, <2>2
<1>11. ASSUME NEW i \in readLo'..readHi'-1
       PROVE  hist'[i] = plain'[Len(delivered') + (i - readLo') + 1]
  <2>0. readLo' = readLo + k /\ readHi' = readHi
    BY <1>1, <1>2
  <2>1. i \in readLo..readHi-1
        /\ Len(delivered') + (i - readLo') + 1 = Len(delivered) + (i - readLo) + 1
    BY <1>2, <1>7, <1>8, <2>0
  <2> QED  BY <1>2, <2>1 DEF WindowInv, NothingSkipped
<1>12. NothingSkipped'
  BY <1>9, <1>10, <1>11 DEF NothingSkipped
<1>13. delivered' \in Seq(Byte)
  BY <1>6, <1>7, Joined
<1>14. readLo' \in 0..HistLen /\ readLo' <= readHi
  BY <1>1, <1>2
<1> QED  BY <1>4, <1>5, <1>12, <1>13, <1>14 DEF WindowInv

(* Produced and copyData's turn say this of the ring when n bytes were added. *)
RingAdvances(n) ==
  /\ hp + n = HistLen =>
       hp' = 0 /\ hw' = 0 /\ hfull' = TRUE /\ readLo' = hw /\ readHi' = HistLen
  /\ hp + n # HistLen =>
       hp' = hp + n /\ hw' = hw /\ hfull' = hfull /\ readLo' = readLo /\ readHi' = readHi

LEMMA StepLiteral ==
  ASSUME Sizes, WindowTypeOK, WindowInv, PendingInv, readLo = readHi, Literal
  PROVE  /\ WindowInv' /\ PendingInv'
         /\ hist' \in [0..HistLen-1 -> Byte] /\ plain' \in Seq(Byte)
         /\ \E m \in 1..(HistLen - hp) : RingAdvances(m)
<1>1. PICK b \in Byte : hist' = [hist EXCEPT ![hp] = b] /\ plain' = Append(plain, b)
  BY DEF Literal
<1>2. at = "huffmanBlock" /\ Produced(hp + 1, "huffmanBlock", at)
      /\ copyLen' = copyLen /\ delivered' = delivered
  BY DEF Literal
<1>3. Pending = 0 /\ Pending' = 0
  BY <1>2 DEF Pending, Produced, Flush
<1>4. plain \in Seq(Byte) /\ hist \in [0..HistLen-1 -> Byte]
  BY DEF WindowTypeOK
<1>5. /\ Len(plain') = Len(plain) + 1 /\ plain'[Len(plain) + 1] = b
      /\ \A i \in 1..Len(plain) : plain'[i] = plain[i]
  BY <1>1, <1>4
<1>6. produced = Len(plain) /\ produced' = produced + 1
  BY <1>3, <1>5 DEF produced, Sizes
<1>7. RingAdvances(1)
  BY <1>2 DEF RingAdvances, Produced, Flush, Wrap
<1>8. 1 \in 1..(HistLen - hp) /\ hp \in 0..HistLen-1
  BY DEF Sizes
<1>9. \A i \in 0..HistLen-1 : i < hp \/ i >= hp + 1 => hist'[i] = hist[i]
  BY <1>1, <1>4, <1>8
<1>10. \A i \in hp..hp+1-1 : hist'[i] = plain'[produced + (i - hp) + 1]
  <2>1. ASSUME NEW i \in hp..hp+1-1
        PROVE  hist'[i] = plain'[produced + (i - hp) + 1]
    <3>1. i = hp /\ produced + (i - hp) + 1 = Len(plain) + 1
      BY <1>6, <1>8 DEF Sizes
    <3>2. hist'[hp] = b
      BY <1>1, <1>4, <1>8
    <3> QED  BY <1>5, <3>1, <3>2
  <2> QED  BY <2>1
<1>11. \A i \in 1..produced : plain'[i] = plain[i]
  BY <1>5, <1>6
<1>12. WindowInv'
  BY <1>2, <1>6, <1>7, <1>8, <1>9, <1>10, <1>11, ProducedKeeps DEF RingAdvances
<1>13. PendingInv'
  BY <1>3, <1>5 DEF PendingInv, Sizes
<1>14. hist' \in [0..HistLen-1 -> Byte] /\ plain' \in Seq(Byte)
  <2>1. hist' \in [0..HistLen-1 -> Byte]
    BY <1>1, <1>4
  <2>2. plain' \in Seq(Byte)
    BY <1>1, <1>4
  <2> QED  BY <2>1, <2>2
<1> QED  BY <1>7, <1>8, <1>12, <1>13, <1>14

LEMMA StepCopyData ==
  ASSUME Sizes, WindowTypeOK, WindowInv, PendingInv, readLo = readHi, CopyData
  PROVE  /\ WindowInv' /\ PendingInv'
         /\ hist' \in [0..HistLen-1 -> Byte] /\ plain' \in Seq(Byte)
         /\ copyLen' \in 0..MaxCopy
         /\ \E m \in 1..(HistLen - hp) : RingAdvances(m)
<1> DEFINE n == Min({copyLen, HistLen - hp})
<1>1. n \in 1..(HistLen - hp) /\ hp \in Nat /\ HistLen \in Nat /\ n <= copyLen
  <2>1. copyLen \in Int /\ HistLen - hp \in Int /\ copyLen > 0 /\ HistLen - hp > 0
    BY DEF CopyData, Sizes
  <2>2. n \in {copyLen, HistLen - hp} /\ n <= HistLen - hp /\ n <= copyLen
    BY <2>1, Least2
  <2> HIDE DEF n
  <2> QED  BY <2>1, <2>2 DEF Sizes
<1>2. PICK data \in [1..n -> Byte] :
        /\ hist' = [i \in DOMAIN hist |->
                      IF hp <= i /\ i < hp + n THEN data[i - hp + 1] ELSE hist[i]]
        /\ plain' = plain \o data
  BY DEF CopyData
<1>3. /\ at = "copyData" /\ delivered' = delivered
      /\ IF hp + n = HistLen
         THEN Flush(HistLen, "copyData") /\ copyLen' = copyLen - n
         ELSE /\ hp' = hp + n /\ step' = "nextBlock" /\ at' = "Read"
              /\ UNCHANGED <<hw, hfull, readLo, readHi, copyLen>>
  BY DEF CopyData
<1> HIDE DEF n
<1>4. Pending = 0 /\ Pending' = 0
  BY <1>3 DEF Pending, Flush
<1>5. plain \in Seq(Byte) /\ hist \in [0..HistLen-1 -> Byte]
  BY DEF WindowTypeOK
<1>6. n \in Nat /\ n >= 1 /\ hp + n <= HistLen
  BY <1>1
<1>7. data \in Seq(Byte) /\ Len(data) = n
  BY <1>6
<1>8. /\ Len(plain') = Len(plain) + n
      /\ \A i \in 1..Len(plain) : plain'[i] = plain[i]
      /\ \A i \in 1..n : plain'[Len(plain) + i] = data[i]
  BY <1>2, <1>5, <1>7, Joined
<1>9. produced = Len(plain) /\ produced' = produced + n
  BY <1>4, <1>6, <1>8 DEF produced, Sizes
<1>10. RingAdvances(n)
  BY <1>3 DEF RingAdvances, Flush, Wrap
<1>11. \A i \in 0..HistLen-1 : i < hp \/ i >= hp + n => hist'[i] = hist[i]
  BY <1>1, <1>2, <1>5, <1>6
<1>12. \A i \in hp..hp+n-1 : hist'[i] = plain'[produced + (i - hp) + 1]
  <2>1. ASSUME NEW i \in hp..hp+n-1
        PROVE  hist'[i] = plain'[produced + (i - hp) + 1]
    <3>1. /\ i \in DOMAIN hist /\ hp <= i /\ i < hp + n /\ i - hp + 1 \in 1..n
          /\ produced + (i - hp) + 1 = Len(plain) + (i - hp + 1)
      BY <1>1, <1>5, <1>6, <1>9 DEF Sizes
    <3>2. hist'[i] = data[i - hp + 1]
      BY <1>2, <3>1
    <3> QED  BY <1>8, <3>1, <3>2
  <2> QED  BY <2>1
<1>13. \A i \in 1..produced : plain'[i] = plain[i]
  BY <1>8, <1>9
<1>14. WindowInv'
  BY <1>1, <1>3, <1>9, <1>10, <1>11, <1>12, <1>13, ProducedKeeps DEF RingAdvances
<1>15. PendingInv'
  BY <1>4, <1>6, <1>8 DEF PendingInv, Sizes
<1>16. hist' \in [0..HistLen-1 -> Byte]
  <2>1. \A i \in 0..HistLen-1 : hp <= i /\ i < hp + n => i - hp + 1 \in 1..n
    BY <1>1, <1>6
  <2> QED  BY <1>2, <1>5, <2>1
<1>17. plain' \in Seq(Byte)
  BY <1>2, <1>5, <1>7, Joined
<1>18. copyLen' \in 0..MaxCopy
  <2>1. copyLen \in 0..MaxCopy /\ MaxCopy \in Nat
    BY WindowAssumption DEF WindowTypeOK
  <2>2. copyLen' = copyLen \/ copyLen' = copyLen - n
    BY <1>3
  <2> QED  BY <1>1, <1>6, <2>1, <2>2
<1> QED  BY <1>1, <1>10, <1>14, <1>15, <1>16, <1>17, <1>18

(* A copy can only refer to what the ring holds: no stream is corrupt. *)
LEMMA StepCopySymbol ==
  ASSUME Sizes, WindowTypeOK, WindowInv, PendingInv, NeverCorrupt, CopySymbol
  PROVE  WindowInv' /\ PendingInv' /\ at' = "copyHuff" /\ err' = err
         /\ copyLen' \in 0..MaxCopy /\ copyDist' \in 0..HistLen
         /\ plain' \in Seq(Byte)
<1>1. PICK len \in 1..MaxCopy, dist \in 1..HistLen :
        /\ dist <= Len(plain) /\ Len(plain) + len <= MaxPlain
        /\ plain' = plain \o Repeated(len, dist)
        /\ IF TooFar(dist)
           THEN at' = "Read" /\ err' = "corrupt" /\ UNCHANGED <<copyLen, copyDist>>
           ELSE /\ copyLen' = len /\ copyDist' = dist /\ at' = "copyHuff"
                /\ UNCHANGED err
  BY DEF CopySymbol
<1>2. at = "huffmanBlock" /\ UNCHANGED ring /\ UNCHANGED <<step, delivered>>
  BY DEF CopySymbol
<1>3. len \in Nat /\ dist \in Nat \ {0} /\ Len(plain) \in Nat /\ dist <= HistLen
  BY <1>1 DEF Sizes
<1>4. Pending = 0 /\ produced = Len(plain)
  BY <1>2 DEF Pending, produced, Sizes
<1>5. ~TooFar(dist) /\ (~hfull => dist <= hp)
  BY <1>1, <1>3, <1>4 DEF TooFar, WindowInv, WindowIsHistory, Sizes
<1>6. copyLen' = len /\ copyDist' = dist /\ at' = "copyHuff" /\ err' = err
  BY <1>1, <1>5
<1> DEFINE more == Repeated(len, dist)
<1>7. ASSUME NEW j \in 1..len
      PROVE  (j - 1) % dist \in 0..dist-1
  <2>1. j - 1 \in Nat
    BY <1>3
  <2> QED  BY <1>3, <2>1, ModRange
<1>8. /\ more \in Seq(Byte) /\ Len(more) = len
      /\ \A j \in 1..len : more[j] = plain[Len(plain) - dist + 1 + ((j - 1) % dist)]
  <2>1. \A j \in 1..len : plain[Len(plain) - dist + 1 + ((j - 1) % dist)] \in Byte
    <3>1. ASSUME NEW j \in 1..len
          PROVE  plain[Len(plain) - dist + 1 + ((j - 1) % dist)] \in Byte
      <4>1. PICK r \in 0..dist-1 : r = (j - 1) % dist
        BY <1>7
      <4>2. Len(plain) - dist + 1 + r \in 1..Len(plain)
        BY <1>1, <1>3
      <4> QED  BY <4>1, <4>2 DEF WindowTypeOK
    <3> QED  BY <3>1
  <2> QED  BY <1>3, <2>1 DEF Repeated
<1> HIDE DEF more
<1>9. plain' = plain \o more /\ plain \in Seq(Byte)
  BY <1>1 DEF more, WindowTypeOK
<1>10. /\ Len(plain') = Len(plain) + len
       /\ \A i \in 1..Len(plain) : plain'[i] = plain[i]
       /\ \A i \in 1..len : plain'[Len(plain) + i] = more[i]
  BY <1>8, <1>9, Joined
<1>11. Pending' = len /\ produced' = produced
  BY <1>3, <1>4, <1>6, <1>10 DEF Pending, produced
<1>12. WindowInv'
  BY <1>2, <1>4, <1>10, <1>11, RingKeeps
<1>13. \A j \in 0..len-1 :
         plain'[produced + j + 1] = plain'[produced - dist + (j % dist) + 1]
  <2>1. ASSUME NEW j \in 0..len-1
        PROVE  plain'[produced + j + 1] = plain'[produced - dist + (j % dist) + 1]
    <3>1. j + 1 \in 1..len /\ (j + 1) - 1 = j /\ j \in Nat
          /\ produced + j + 1 = Len(plain) + (j + 1)
      BY <1>3, <1>4
    <3>2. PICK r \in 0..dist-1 : r = j % dist
      BY <1>3, <3>1, ModRange
    <3>3. plain'[produced + j + 1] = plain[Len(plain) - dist + 1 + r]
      <4>1. plain'[produced + j + 1] = more[j + 1]
        BY <1>10, <3>1
      <4>2. more[j + 1] = plain[Len(plain) - dist + 1 + (((j + 1) - 1) % dist)]
        BY <1>8, <3>1
      <4> QED  BY <3>1, <3>2, <4>1, <4>2
    <3>4. Len(plain) - dist + 1 + r \in 1..Len(plain)
          /\ produced - dist + r + 1 = Len(plain) - dist + 1 + r
      BY <1>1, <1>3, <1>4
    <3> QED  BY <1>10, <3>2, <3>3, <3>4
  <2> QED  BY <2>1
<1>14. PendingInv'
  <2>1. hfull' = hfull /\ hp' = hp
    BY <1>2 DEF ring
  <2> QED  BY <1>3, <1>5, <1>6, <1>10, <1>11, <1>13, <2>1 DEF PendingInv
<1>15. plain' \in Seq(Byte)
  BY <1>8, <1>9, <1>10, Joined
<1> QED  BY <1>1, <1>3, <1>6, <1>12, <1>14, <1>15 DEF Sizes

(* Where hist is written, the ring holds what is copyDist bytes back. *)
LEMMA StepCopyHist ==
  ASSUME Sizes, WindowTypeOK, WindowInv, PendingInv, readLo = readHi, CopyHist
  PROVE  /\ WindowInv' /\ PendingInv'
         /\ copyLen' \in 0..MaxCopy /\ hist' \in [0..HistLen-1 -> Byte]
         /\ \E m \in 1..(HistLen - hp) : RingAdvances(m)
<1> DEFINE n == Min({copyLen, HistLen - hp, HistLen - CopySource})
           src == CopySource
<1>0. /\ produced \in Nat /\ HistLen \in Nat /\ hp \in Nat /\ hp < HistLen
      /\ copyLen \in Nat /\ copyLen > 0 /\ Len(plain) \in Nat
      /\ copyDist \in Nat /\ copyDist <= HistLen
  BY DEF Sizes, CopyHist
<1>1. at = "copyHuff" /\ Pending = copyLen /\ produced = Len(plain) - copyLen
  BY DEF CopyHist, Pending, produced
<1>2. /\ copyDist > 0 /\ (~hfull => copyDist <= hp)
      /\ \A j \in 0..copyLen-1 :
           plain[produced + j + 1] = plain[produced - copyDist + (j % copyDist) + 1]
  BY <1>0, <1>1 DEF PendingInv
<1>3. /\ src \in Nat /\ src < HistLen
      /\ (copyDist <= hp => src = hp - copyDist)
      /\ (copyDist > hp => src = hp - copyDist + HistLen)
  BY <1>0, <1>2 DEF CopySource
<1>4. /\ hist' = Forward(hist, hp, src, n) /\ copyLen' = copyLen - n
      /\ Produced(hp + n, "copyHuff", IF n = copyLen THEN "huffmanBlock" ELSE at)
      /\ UNCHANGED <<copyDist, plain, delivered>>
  BY DEF CopyHist
<1>5. n \in Nat /\ n >= 1 /\ n <= copyLen /\ hp + n <= HistLen /\ src + n <= HistLen
  <2> HIDE DEF src
  <2>1. copyLen \in Int /\ HistLen - hp \in Int /\ HistLen - src \in Int
        /\ HistLen - hp >= 1 /\ HistLen - src >= 1
    BY <1>0, <1>3
  <2>2. /\ n \in {copyLen, HistLen - hp, HistLen - src}
        /\ n <= copyLen /\ n <= HistLen - hp /\ n <= HistLen - src
    BY <2>1, Least3 DEF src
  <2> HIDE DEF n
  <2> QED  BY <1>0, <1>3, <2>1, <2>2
<1> HIDE DEF n, src
<1>6. Pending' = copyLen - n
  BY <1>1, <1>4, <1>5, <1>0 DEF Pending, Produced, Flush
<1>7. produced' = produced + n
  BY <1>0, <1>1, <1>4, <1>5, <1>6 DEF produced
<1>8. RingAdvances(n)
  BY <1>4 DEF RingAdvances, Produced, Flush, Wrap
<1>9. hist \in [0..HistLen-1 -> Byte]
  BY DEF WindowTypeOK
<1>10. \A i \in 0..HistLen-1 : i < hp \/ i >= hp + n => hist'[i] = hist[i]
  BY <1>0, <1>4, <1>5, <1>9 DEF Forward
<1>11. produced >= hp /\ (hfull => produced >= HistLen + hp)
  BY <1>0 DEF WindowInv, WindowIsHistory, FullInv
<1>12. ASSUME NEW i \in hp..hp+n-1
       PROVE  hist'[i] = plain'[produced + (i - hp) + 1]
  <2>1. PICK j \in 0..n-1 : i = hp + j
    <3>1. i - hp \in 0..n-1 /\ i = hp + (i - hp)
      BY <1>0, <1>5
    <3> QED  BY <3>1
  <2>2. j \in Nat /\ j < n /\ j \in 0..copyLen-1 /\ i - hp = j /\ i \in DOMAIN hist
        /\ hp <= i /\ i < hp + n
    BY <1>0, <1>5, <1>9, <2>1
  <2>9. copyDist \in Nat \ {0}
    BY <1>0, <1>2
  <2>3. PICK r \in 0..copyDist-1 : r = j % copyDist
    BY <2>2, <2>9, ModRange
  <2>4. plain[produced + j + 1] = plain[produced - copyDist + r + 1]
    BY <1>2, <2>2, <2>3
  <2>5. CASE copyDist <= hp
    <3>1. src = hp - copyDist /\ ~(hp <= src) /\ hp - src = copyDist
      BY <1>0, <1>2, <1>3, <2>5
    <3>2. hist'[i] = hist[src + r]
      BY <1>4, <2>2, <2>3, <3>1 DEF Forward
    <3>3. src + r \in 0..hp-1
          /\ produced - hp + (src + r) + 1 = produced - copyDist + r + 1
      BY <1>0, <1>2, <2>3, <2>5, <3>1
    <3>4. hist[src + r] = plain[produced - hp + (src + r) + 1]
      BY <3>3 DEF WindowInv, WindowIsHistory
    <3> QED  BY <1>4, <2>2, <2>4, <3>2, <3>3, <3>4
  <2>6. CASE copyDist > hp
    <3>1. src = hp - copyDist + HistLen /\ hp <= src /\ hfull
      BY <1>0, <1>2, <1>3, <2>6
    <3>2. hist'[i] = hist[src + j]
      BY <1>4, <2>2, <3>1 DEF Forward
    <3>3. j < copyDist
      BY <1>0, <1>5, <2>2, <3>1
    <3>4. r = j
      BY <1>0, <2>2, <2>3, <3>3, ModSmall
    <3>5. src + j \in hp..HistLen-1
          /\ produced - hp - HistLen + (src + j) + 1 = produced - copyDist + j + 1
      BY <1>0, <1>3, <1>5, <2>2, <3>1
    <3>6. hist[src + j] = plain[produced - hp - HistLen + (src + j) + 1]
      BY <3>1, <3>5 DEF WindowInv, WindowIsHistory
    <3> QED  BY <1>4, <2>2, <2>4, <3>2, <3>4, <3>5, <3>6
  <2> QED  BY <1>0, <2>5, <2>6
<1>13. \A i \in 1..produced : plain'[i] = plain[i]
  BY <1>4
<1>14. n \in 1..(HistLen - hp)
  BY <1>0, <1>5
<1>15. WindowInv'
  BY <1>4, <1>7, <1>8, <1>10, <1>12, <1>13, <1>14, ProducedKeeps DEF RingAdvances
<1>16. ASSUME NEW j \in 0..copyLen-n-1
       PROVE  plain[(produced + n) + j + 1]
              = plain[(produced + n) - copyDist + (j % copyDist) + 1]
  <2>1. j \in Nat /\ n + j \in 0..copyLen-1 /\ n + j \in Nat
        /\ (produced + n) + j + 1 = produced + (n + j) + 1
        /\ copyDist \in Nat \ {0}
    BY <1>0, <1>2, <1>5, <1>16
  <2>2. PICK r \in 0..copyDist-1 : r = j % copyDist
    BY <2>1, ModRange
  <2>3. PICK q \in 0..copyDist-1 : q = (n + j) % copyDist
    BY <2>1, ModRange
  <2>4. plain[(produced + n) + j + 1] = plain[produced - copyDist + q + 1]
    BY <1>2, <2>1, <2>3
  <2>5. n + r \in Nat /\ (n + r) % copyDist = q /\ r \in Nat
    <3>1. n + r \in Nat /\ r \in Nat /\ n \in Nat
      BY <1>0, <1>2, <1>5, <2>1, <2>2
    <3>2. (n + (j % copyDist)) % copyDist = (n + j) % copyDist
      BY <2>1, <3>1, ModAdd
    <3> QED  BY <2>2, <2>3, <3>1, <3>2
  <2>8. r <= j
    <3>1. CASE j < copyDist
      <4>1. j % copyDist = j
        BY <2>1, <3>1, ModSmall
      <4> QED  BY <2>1, <2>2, <4>1
    <3>2. CASE j >= copyDist
      BY <2>1, <2>2, <3>2
    <3> QED  BY <2>1, <3>1, <3>2
  <2>6. CASE n + r < copyDist
    <3>1. q = n + r
      BY <1>0, <1>2, <2>5, <2>6, ModSmall
    <3>2. produced - copyDist + q + 1 = (produced + n) - copyDist + r + 1
      BY <1>0, <1>5, <2>5, <3>1
    <3> QED  BY <2>2, <2>4, <3>2
  <2>7. CASE n + r >= copyDist
    <3>1. PICK t \in Nat : t = (n + r) - copyDist
      BY <1>0, <1>5, <2>5, <2>7
    <3>2. t % copyDist = q
      <4>1. (n + r) % copyDist = ((n + r) - copyDist) % copyDist
        BY <2>1, <2>5, <2>7, ModPeriod
      <4> QED  BY <2>5, <3>1, <4>1
    <3>3. t \in 0..copyLen-1
      BY <1>0, <1>2, <1>5, <2>1, <2>2, <2>5, <2>8, <3>1
    <3>4. plain[produced + t + 1] = plain[produced - copyDist + q + 1]
      BY <1>2, <2>3, <3>2, <3>3
    <3>5. produced + t + 1 = (produced + n) - copyDist + r + 1
      BY <1>0, <1>5, <2>5, <3>1
    <3> QED  BY <2>2, <2>4, <3>4, <3>5
  <2> QED  BY <1>0, <1>5, <2>5, <2>6, <2>7
<1>17. PendingInv'
  <2>1. copyLen' = copyLen - n /\ copyDist' = copyDist /\ plain' = plain
    BY <1>4
  <2>2. Pending' = copyLen' /\ Pending' <= Len(plain')
    BY <1>0, <1>1, <1>5, <1>6, <2>1
  <2>3. ~hfull' => copyDist' <= hp'
    <3>1. CASE hp + n = HistLen
      BY <1>8, <3>1 DEF RingAdvances
    <3>2. CASE hp + n # HistLen
      <4>1. hfull' = hfull /\ hp' = hp + n
        BY <1>8, <3>2 DEF RingAdvances
      <4> QED  BY <1>0, <1>2, <1>5, <2>1, <4>1
    <3> QED  BY <3>1, <3>2
  <2>4. \A j \in 0..copyLen'-1 :
          plain'[produced' + j + 1] = plain'[produced' - copyDist' + (j % copyDist') + 1]
    <3>1. ASSUME NEW j \in 0..copyLen-n-1
          PROVE  plain[(produced + n) + j + 1]
                 = plain[(produced + n) - copyDist + (j % copyDist) + 1]
      BY <1>16
    <3> QED  BY <1>7, <2>1, <3>1
  <2> QED  BY <1>2, <2>1, <2>2, <2>3, <2>4 DEF PendingInv
<1>18. copyLen' \in 0..MaxCopy
  <2>1. copyLen \in 0..MaxCopy /\ MaxCopy \in Nat
    BY WindowAssumption DEF WindowTypeOK
  <2> QED  BY <1>0, <1>4, <1>5, <2>1
<1>19. hist' \in [0..HistLen-1 -> Byte]
  <2>1. ASSUME NEW i \in 0..HistLen-1
        PROVE  hist'[i] \in Byte
    <3>1. CASE i < hp \/ i >= hp + n
      BY <1>9, <1>10, <3>1
    <3>2. CASE i \in hp..hp+n-1
      <4>1. produced + (i - hp) + 1 \in 1..Len(plain)
        BY <1>0, <1>1, <1>5, <3>2
      <4>2. plain' = plain /\ plain \in Seq(Byte)
        BY <1>4 DEF WindowTypeOK
      <4> QED  BY <1>12, <3>2, <4>1, <4>2
    <3> QED  BY <1>0, <1>5, <3>1, <3>2
  <2>2. hist' = [i \in 0..HistLen-1 |-> hist'[i]]
    BY <1>4, <1>9 DEF Forward
  <2> QED  BY <2>1, <2>2
<1> QED  BY <1>8, <1>14, <1>15, <1>17, <1>18, <1>19

-----------------------------------------------------------------------------
RingTypeOK ==
  /\ hp \in 0..HistLen-1 /\ hw \in 0..HistLen-1 /\ hw <= hp
  /\ hfull \in BOOLEAN
  /\ readLo \in 0..HistLen /\ readHi \in 0..HistLen /\ readLo <= readHi

LEMMA RingTypeAdvances ==
  ASSUME Sizes, WindowTypeOK, NEW n \in 1..(HistLen - hp), RingAdvances(n)
  PROVE  RingTypeOK'
<1>0. /\ HistLen \in Nat /\ hp \in Nat /\ hw \in Nat /\ hw <= hp /\ hp < HistLen
      /\ n \in Nat /\ n >= 1 /\ hp + n <= HistLen
  BY DEF Sizes
<1>1. hfull \in BOOLEAN /\ readLo \in 0..HistLen /\ readHi \in 0..HistLen /\ readLo <= readHi
  BY DEF WindowTypeOK
<1>2. CASE hp + n = HistLen
  <2>1. hp' = 0 /\ hw' = 0 /\ hfull' = TRUE /\ readLo' = hw /\ readHi' = HistLen
    BY <1>2 DEF RingAdvances
  <2>2. hfull' \in BOOLEAN
    BY <2>1, Zenon
  <2> QED  BY <1>0, <2>1, <2>2 DEF RingTypeOK
<1>3. CASE hp + n # HistLen
  <2>1. hp' = hp + n /\ hw' = hw /\ hfull' = hfull /\ readLo' = readLo /\ readHi' = readHi
    BY <1>3 DEF RingAdvances
  <2> QED  BY <1>0, <1>1, <1>3, <2>1 DEF RingTypeOK
<1> QED  BY <1>2, <1>3

LEMMA RingTypeFlushed ==
  ASSUME Sizes, WindowTypeOK, NEW s, Flush(hp, s)
  PROVE  RingTypeOK'
<1>1. hp' = hp /\ hw' = hp /\ hfull' = hfull /\ readLo' = hw /\ readHi' = hp
  BY DEF Flush, Wrap, Sizes
<1> QED  BY <1>1 DEF Sizes, WindowTypeOK, RingTypeOK

Steps == {"nextBlock", "huffmanBlock", "copyHuff", "copyData"}

(* Every step leaves the variables in their ranges. *)
LEMMA TypeKept ==
  ASSUME IInv, Sizes, [Next]_vars
  PROVE  WindowTypeOK'
<1>0. WindowTypeOK /\ WindowInv /\ PendingInv /\ NeverCorrupt /\ ControlInv
  BY DEF IInv
<1>a. /\ RingTypeOK /\ hist \in [0..HistLen-1 -> Byte]
      /\ step \in Steps /\ at \in Steps \union {"caller", "Read"}
      /\ final \in BOOLEAN /\ synced \in BOOLEAN
      /\ err \in {"none", "EOF", "unexpectedEOF", "corrupt"}
      /\ copyLen \in 0..MaxCopy /\ copyDist \in 0..HistLen
      /\ plain \in Seq(Byte) /\ delivered \in Seq(Byte)
  BY <1>0 DEF WindowTypeOK, RingTypeOK, Steps
<1> DEFINE Goal == /\ RingTypeOK /\ hist \in [0..HistLen-1 -> Byte]
                   /\ step \in Steps /\ at \in Steps \union {"caller", "Read"}
                   /\ final \in BOOLEAN /\ synced \in BOOLEAN
                   /\ err \in {"none", "EOF", "unexpectedEOF", "corrupt"}
                   /\ copyLen \in 0..MaxCopy /\ copyDist \in 0..HistLen
                   /\ plain \in Seq(Byte) /\ delivered \in Seq(Byte)
<1> SUFFICES Goal'
  BY DEF WindowTypeOK, RingTypeOK, Steps
<1>b. UNCHANGED ring => RingTypeOK' /\ hist' \in [0..HistLen-1 -> Byte]
  BY <1>a DEF ring, RingTypeOK
<1>c. at # "Read" => readLo = readHi
  BY <1>0 DEF ControlInv
<1>1. CASE Inflate
  BY <1>1, <1>a, <1>b DEF Inflate
<1>2. CASE ReadSome
  <2>1. delivered' \in Seq(Byte) /\ readLo' \in 0..HistLen /\ readLo' <= readHi
    BY <1>0, <1>2, StepReadSome
  <2>2. RingTypeOK'
    BY <1>2, <1>a, <2>1 DEF ReadSome, RingTypeOK
  <2> QED  BY <1>2, <1>a, <2>1, <2>2 DEF ReadSome
<1>3. CASE DoStep
  BY <1>3, <1>a, <1>b DEF DoStep, ResumeWith
<1>4. CASE InflateReturns
  BY <1>4, <1>a, <1>b DEF InflateReturns
<1>5. CASE LastBlockOver
  <2>1. RingTypeOK' /\ hist' \in [0..HistLen-1 -> Byte]
    BY <1>5, <1>0, <1>a, <1>b, RingTypeFlushed DEF LastBlockOver
  <2> QED  BY <1>5, <1>a, <2>1 DEF LastBlockOver, Flush, Steps
<1>6. CASE PieceOver
  BY <1>6, <1>a, <1>b DEF PieceOver
<1>7. CASE HuffmanHeader
  BY <1>7, <1>a, <1>b DEF HuffmanHeader, Steps
<1>8. CASE StoredHeader
  <2>1. PICK len \in 0..MaxCopy :
          /\ synced' = (len = 0)
          /\ IF IsSync(len)
             THEN Flush(hp, "nextBlock") /\ UNCHANGED <<hist, copyLen>>
             ELSE copyLen' = len /\ at' = "copyData" /\ UNCHANGED <<ring, step>>
    BY <1>8 DEF StoredHeader
  <2>2. final' \in BOOLEAN /\ UNCHANGED <<err, copyDist, plain, delivered>>
    BY <1>8 DEF StoredHeader
  <2>3. RingTypeOK' /\ hist' \in [0..HistLen-1 -> Byte]
    BY <1>0, <1>a, <1>b, <2>1, RingTypeFlushed
  <2>4. synced' \in BOOLEAN
    BY <2>1, Zenon
  <2> QED  BY <1>a, <2>1, <2>2, <2>3, <2>4 DEF Flush, Steps
<1>9. CASE Literal
  <2>1. PICK m \in 1..(HistLen - hp) : RingAdvances(m)
    BY <1>9, <1>0, <1>c, StepLiteral DEF Literal
  <2>2. RingTypeOK'
    BY <1>0, <2>1, RingTypeAdvances
  <2>3. hist' \in [0..HistLen-1 -> Byte] /\ plain' \in Seq(Byte)
    BY <1>9, <1>0, <1>c, StepLiteral DEF Literal
  <2> QED  BY <1>9, <1>a, <2>2, <2>3 DEF Literal, Produced, Flush, Steps
<1>10. CASE EndOfBlock
  BY <1>10, <1>a, <1>b DEF EndOfBlock, Steps
<1>11. CASE CopySymbol
  <2>1. /\ at' = "copyHuff" /\ err' = err /\ copyLen' \in 0..MaxCopy
        /\ copyDist' \in 0..HistLen /\ plain' \in Seq(Byte)
    BY <1>11, <1>0, StepCopySymbol
  <2> QED  BY <1>11, <1>a, <1>b, <2>1 DEF CopySymbol, Steps
<1>12. CASE CopyHist
  <2>1. PICK m \in 1..(HistLen - hp) : RingAdvances(m)
    BY <1>12, <1>0, <1>c, StepCopyHist DEF CopyHist
  <2>2. RingTypeOK'
    BY <1>0, <2>1, RingTypeAdvances
  <2>3. hist' \in [0..HistLen-1 -> Byte] /\ copyLen' \in 0..MaxCopy
    BY <1>12, <1>0, <1>c, StepCopyHist DEF CopyHist
  <2> QED  BY <1>12, <1>a, <2>2, <2>3 DEF CopyHist, Produced, Flush, Steps
<1>13. CASE CopyOver
  BY <1>13, <1>a, <1>b DEF CopyOver, Steps
<1>14. CASE CopyData
  <2>1. PICK m \in 1..(HistLen - hp) : RingAdvances(m)
    BY <1>14, <1>0, <1>c, StepCopyData DEF CopyData
  <2>2. RingTypeOK'
    BY <1>0, <2>1, RingTypeAdvances
  <2>3. /\ hist' \in [0..HistLen-1 -> Byte] /\ copyLen' \in 0..MaxCopy
        /\ plain' \in Seq(Byte)
    BY <1>14, <1>0, <1>c, StepCopyData DEF CopyData
  <2> QED  BY <1>14, <1>a, <2>2, <2>3 DEF CopyData, Flush, Steps
<1>15. CASE DataOver
  BY <1>15, <1>a, <1>b DEF DataOver, Steps
<1>16. CASE UNCHANGED vars
  BY <1>16, <1>a DEF vars, RingTypeOK
<1> QED  BY <1>1, <1>2, <1>3, <1>4, <1>5, <1>6, <1>7, <1>8, <1>9, <1>10, <1>11,
            <1>12, <1>13, <1>14, <1>15, <1>16 DEF Next, Caller, NextBlock, HuffmanBlock

(* Where the decoder may be interrupted, and what it then has handed out. *)
LEMMA ControlKept ==
  ASSUME IInv, Sizes, [Next]_vars
  PROVE  ControlInv'
<1>0. WindowTypeOK /\ WindowInv /\ PendingInv /\ NeverCorrupt /\ ControlInv
  BY DEF IInv
<1>1. CASE Inflate
  BY <1>1, <1>0 DEF Inflate, ControlInv, ring
<1>2. CASE ReadSome
  BY <1>2, <1>0 DEF ReadSome, ControlInv
<1>3. CASE DoStep
  BY <1>3, <1>0 DEF DoStep, ResumeWith, ControlInv, ring, WindowTypeOK
<1>4. CASE InflateReturns
  BY <1>4, <1>0 DEF InflateReturns, ControlInv, ring
<1>5. CASE LastBlockOver
  <2>1. CASE hw # hp
    <3>1. Flush(hp, "nextBlock") /\ UNCHANGED err /\ UNCHANGED synced /\ at = "nextBlock"
      BY <1>5, <2>1 DEF LastBlockOver
    <3>2. hp' = hp /\ hw' = hp /\ at' = "Read" /\ step' = "nextBlock"
      BY <3>1 DEF Flush, Wrap, Sizes
    <3> QED  BY <1>0, <3>1, <3>2 DEF ControlInv
  <2>2. CASE hw = hp
    BY <1>5, <1>0, <2>2 DEF LastBlockOver, ControlInv, ring
  <2> QED  BY <2>1, <2>2
<1>6. CASE PieceOver
  BY <1>6, <1>0 DEF PieceOver, ControlInv, ring
<1>7. CASE HuffmanHeader
  BY <1>7, <1>0 DEF HuffmanHeader, ControlInv, ring
<1>8. CASE StoredHeader
  <2>1. PICK len \in 0..MaxCopy :
          /\ synced' = (len = 0)
          /\ IF IsSync(len)
             THEN Flush(hp, "nextBlock") /\ UNCHANGED <<hist, copyLen>>
             ELSE copyLen' = len /\ at' = "copyData" /\ UNCHANGED <<ring, step>>
    BY <1>8 DEF StoredHeader
  <2>2. at = "nextBlock" /\ UNCHANGED err
    BY <1>8 DEF StoredHeader
  <2>3. CASE len = 0
    <3>1. Flush(hp, "nextBlock")
      BY <2>1, <2>3 DEF IsSync
    <3>2. hp' = hp /\ hw' = hp /\ at' = "Read" /\ step' = "nextBlock"
      BY <3>1 DEF Flush, Wrap, Sizes
    <3> QED  BY <1>0, <2>2, <3>2 DEF ControlInv
  <2>4. CASE len # 0
    <3>1. ~synced' /\ at' = "copyData" /\ UNCHANGED <<ring, step>>
      BY <2>1, <2>4 DEF IsSync
    <3> QED  BY <1>0, <2>2, <3>1 DEF ControlInv, ring
  <2> QED  BY <2>3, <2>4
<1>9. CASE Literal
  BY <1>9, <1>0 DEF Literal, Produced, Flush, ControlInv
<1>10. CASE EndOfBlock
  BY <1>10, <1>0 DEF EndOfBlock, ControlInv, ring
<1>11. CASE CopySymbol
  <2>1. at' = "copyHuff" /\ err' = err
    BY <1>11, <1>0, StepCopySymbol
  <2> QED  BY <1>11, <1>0, <2>1 DEF CopySymbol, ControlInv, ring
<1>12. CASE CopyHist
  <2>1. PICK n : Produced(hp + n, "copyHuff", IF n = copyLen THEN "huffmanBlock" ELSE at)
    BY <1>12 DEF CopyHist
  <2>2. at = "copyHuff" /\ UNCHANGED <<err, synced>>
    BY <1>12 DEF CopyHist
  <2> QED  BY <1>0, <2>1, <2>2 DEF Produced, Flush, ControlInv
<1>13. CASE CopyOver
  BY <1>13, <1>0 DEF CopyOver, ControlInv, ring
<1>14. CASE CopyData
  BY <1>14, <1>0 DEF CopyData, Flush, ControlInv
<1>15. CASE DataOver
  BY <1>15, <1>0 DEF DataOver, ControlInv, ring
<1>16. CASE UNCHANGED vars
  BY <1>16, <1>0 DEF vars, ControlInv
<1> QED  BY <1>1, <1>2, <1>3, <1>4, <1>5, <1>6, <1>7, <1>8, <1>9, <1>10, <1>11,
            <1>12, <1>13, <1>14, <1>15, <1>16 DEF Next, Caller, NextBlock, HuffmanBlock

(* The ring and the rest of a copy stay in step with the stream. *)
LEMMA WindowKept ==
  ASSUME IInv, Sizes, [Next]_vars
  PROVE  WindowInv' /\ PendingInv' /\ NeverCorrupt'
<1>0. WindowTypeOK /\ WindowInv /\ PendingInv /\ NeverCorrupt /\ ControlInv
  BY DEF IInv
<1>c. at # "Read" => readLo = readHi
  BY <1>0 DEF ControlInv
<1>1. CASE Inflate
  <2>1. Pending' = Pending /\ UNCHANGED <<ring, plain, delivered, copyLen, copyDist>>
    BY <1>1, <1>0 DEF Inflate, Pending, ControlInv
  <2>2. WindowInv' /\ PendingInv'
    BY <1>0, <2>1, QuietKeeps
  <2> QED  BY <1>1, <2>2 DEF Inflate, NeverCorrupt
<1>2. CASE ReadSome
  BY <1>2, <1>0, StepReadSome DEF ReadSome, NeverCorrupt
<1>3. CASE DoStep
  <2>1. Pending' = Pending /\ UNCHANGED <<ring, plain, delivered, copyLen, copyDist>>
    BY <1>3, <1>0 DEF DoStep, ResumeWith, Pending, WindowTypeOK
  <2>2. WindowInv' /\ PendingInv'
    BY <1>0, <2>1, QuietKeeps
  <2> QED  BY <1>0, <1>3, <2>2 DEF DoStep, NeverCorrupt
<1>4. CASE InflateReturns
  <2>1. Pending' = Pending /\ UNCHANGED <<ring, plain, delivered, copyLen, copyDist>>
    BY <1>4, <1>0 DEF InflateReturns, Pending, ControlInv
  <2>2. WindowInv' /\ PendingInv'
    BY <1>0, <2>1, QuietKeeps
  <2> QED  BY <1>0, <1>4, <2>2 DEF InflateReturns, NeverCorrupt
<1>5. CASE LastBlockOver
  <2>1. CASE hw # hp
    <3>1. /\ Flush(hp, "nextBlock") /\ UNCHANGED <<hist, plain, delivered, err>>
          /\ at = "nextBlock"
      BY <1>5, <2>1 DEF LastBlockOver
    <3>2. WindowInv' /\ PendingInv'
      BY <1>0, <1>c, <3>1, FlushedBlock
    <3> QED  BY <1>0, <3>1, <3>2 DEF NeverCorrupt
  <2>2. CASE hw = hp
    <3>1. /\ at = "nextBlock" /\ at' = "Read" /\ err' = "EOF"
          /\ UNCHANGED <<ring, step, plain, delivered, copyLen, copyDist>>
      BY <1>5, <2>2 DEF LastBlockOver
    <3>2. Pending' = Pending
      BY <1>0, <3>1 DEF Pending, ControlInv
    <3>3. WindowInv' /\ PendingInv'
      BY <1>0, <3>1, <3>2, QuietKeeps
    <3> QED  BY <3>1, <3>3 DEF NeverCorrupt
  <2> QED  BY <2>1, <2>2
<1>6. CASE PieceOver
  <2>1. Pending' = Pending /\ UNCHANGED <<ring, plain, delivered, copyLen, copyDist>>
    BY <1>6, <1>0 DEF PieceOver, Pending, ControlInv
  <2>2. WindowInv' /\ PendingInv'
    BY <1>0, <2>1, QuietKeeps
  <2> QED  BY <1>6, <2>2 DEF PieceOver, NeverCorrupt
<1>7. CASE HuffmanHeader
  <2>1. Pending' = Pending /\ UNCHANGED <<ring, plain, delivered, copyLen, copyDist>>
    BY <1>7 DEF HuffmanHeader, Pending
  <2>2. WindowInv' /\ PendingInv'
    BY <1>0, <2>1, QuietKeeps
  <2> QED  BY <1>0, <1>7, <2>2 DEF HuffmanHeader, NeverCorrupt
<1>8. CASE StoredHeader
  <2>1. PICK len \in 0..MaxCopy :
          IF IsSync(len)
          THEN Flush(hp, "nextBlock") /\ UNCHANGED <<hist, copyLen>>
          ELSE copyLen' = len /\ at' = "copyData" /\ UNCHANGED <<ring, step>>
    BY <1>8 DEF StoredHeader
  <2>2. at = "nextBlock" /\ UNCHANGED <<err, copyDist, plain, delivered>>
    BY <1>8 DEF StoredHeader
  <2>3. WindowInv' /\ PendingInv'
    <3>1. CASE IsSync(len)
      BY <1>0, <1>c, <2>1, <2>2, <3>1, FlushedBlock
    <3>2. CASE ~IsSync(len)
      <4>1. UNCHANGED ring /\ Pending = 0 /\ Pending' = 0
        BY <2>1, <2>2, <3>2 DEF Pending
      <4> QED  BY <1>0, <2>2, <4>1, QuietKeeps
    <3> QED  BY <3>1, <3>2
  <2> QED  BY <1>0, <2>2, <2>3 DEF NeverCorrupt
<1>9. CASE Literal
  <2>1. WindowInv' /\ PendingInv'
    BY <1>9, <1>0, <1>c, StepLiteral DEF Literal
  <2> QED  BY <1>9, <1>0, <2>1 DEF Literal, NeverCorrupt
<1>10. CASE EndOfBlock
  <2>1. Pending' = Pending /\ UNCHANGED <<ring, plain, delivered, copyLen, copyDist>>
    BY <1>10 DEF EndOfBlock, Pending
  <2>2. WindowInv' /\ PendingInv'
    BY <1>0, <2>1, QuietKeeps
  <2> QED  BY <1>0, <1>10, <2>2 DEF EndOfBlock, NeverCorrupt
<1>11. CASE CopySymbol
  <2>1. WindowInv' /\ PendingInv' /\ err' = err
    BY <1>11, <1>0, StepCopySymbol
  <2> QED  BY <1>0, <2>1 DEF NeverCorrupt
<1>12. CASE CopyHist
  <2>1. WindowInv' /\ PendingInv'
    BY <1>12, <1>0, <1>c, StepCopyHist DEF CopyHist
  <2> QED  BY <1>12, <1>0, <2>1 DEF CopyHist, NeverCorrupt
<1>13. CASE CopyOver
  <2>1. Pending' = Pending /\ UNCHANGED <<ring, plain, delivered, copyLen, copyDist>>
    BY <1>13 DEF CopyOver, Pending
  <2>2. WindowInv' /\ PendingInv'
    BY <1>0, <2>1, QuietKeeps
  <2> QED  BY <1>0, <1>13, <2>2 DEF CopyOver, NeverCorrupt
<1>14. CASE CopyData
  <2>1. WindowInv' /\ PendingInv'
    BY <1>14, <1>0, <1>c, StepCopyData DEF CopyData
  <2> QED  BY <1>14, <1>0, <2>1 DEF CopyData, NeverCorrupt
<1>15. CASE DataOver
  <2>1. Pending' = Pending /\ UNCHANGED <<ring, plain, delivered, copyLen, copyDist>>
    BY <1>15 DEF DataOver, Pending
  <2>2. WindowInv' /\ PendingInv'
    BY <1>0, <2>1, QuietKeeps
  <2> QED  BY <1>0, <1>15, <2>2 DEF DataOver, NeverCorrupt
<1>16. CASE UNCHANGED vars
  <2>1. Pending' = Pending /\ UNCHANGED <<ring, plain, delivered, copyLen, copyDist>>
    BY <1>16 DEF vars, ring, Pending
  <2>2. WindowInv' /\ PendingInv'
    BY <1>0, <2>1, QuietKeeps
  <2> QED  BY <1>0, <1>16, <2>2 DEF vars, NeverCorrupt
<1> QED  BY <1>1, <1>2, <1>3, <1>4, <1>5, <1>6, <1>7, <1>8, <1>9, <1>10, <1>11,
            <1>12, <1>13, <1>14, <1>15, <1>16 DEF Next, Caller, NextBlock, HuffmanBlock
-----------------------------------------------------------------------------
LEMMA InitHolds == Init => IInv
<1> SUFFICES ASSUME Init PROVE IInv
  OBVIOUS
<1>1. HistLen \in Nat \ {0} /\ MaxCopy \in Nat
  BY WindowAssumption
<1>2. PICK b \in Byte : hist = [i \in 0..HistLen-1 |-> b]
  BY DEF Init
<1>3. plain = <<>> /\ delivered = <<>> /\ Len(plain) = 0 /\ Len(delivered) = 0
  BY DEF Init
<1>4. Pending = 0 /\ produced = 0
  BY <1>3 DEF Init, Pending, produced
<1>5. plain \in Seq(Byte) /\ delivered \in Seq(Byte)
  BY <1>3
<1>6. WindowTypeOK
  BY <1>1, <1>2, <1>5 DEF Init, WindowTypeOK
<1>7. WindowInv
  BY <1>3, <1>4 DEF Init, WindowInv, WindowIsHistory, NothingSkipped, FullInv
<1>8. ControlInv /\ PendingInv /\ NeverCorrupt
  BY <1>3, <1>4 DEF Init, ControlInv, PendingInv, NeverCorrupt
<1> QED  BY <1>6, <1>7, <1>8 DEF IInv

LEMMA StepHolds == IInv /\ [Next]_vars => IInv'
<1> SUFFICES ASSUME IInv, [Next]_vars PROVE IInv'
  OBVIOUS
<1>1. Sizes
  BY SizesOK DEF IInv
<1> QED  BY <1>1, TypeKept, ControlKept, WindowKept DEF IInv

(* Between pieces nothing is left to read, to flush or to copy. *)
LEMMA ReturnedAll == IInv => InflatedAll
<1> SUFFICES ASSUME IInv, at = "caller" PROVE delivered = plain
  BY DEF InflatedAll
<1>1. readLo = readHi /\ step = "nextBlock" /\ hw = hp
  BY DEF IInv, ControlInv
<1>2. Sizes
  BY SizesOK DEF IInv
<1>3. Pending = 0 /\ produced = Len(plain)
  BY <1>1, <1>2 DEF Pending, produced, Sizes
<1>4. /\ Len(delivered) + (readHi - readLo) + (hp - hw) = produced
      /\ \A i \in 1..Len(delivered) : delivered[i] = plain[i]
  BY DEF IInv, WindowInv, NothingSkipped
<1>5. Len(delivered) = Len(plain)
  BY <1>1, <1>2, <1>3, <1>4 DEF Sizes
<1>6. plain \in Seq(Byte) /\ delivered \in Seq(Byte)
  BY DEF IInv, WindowTypeOK
<1> QED  BY <1>4, <1>5, <1>6

THEOREM WindowInvariant == Spec => []IInv
<1>1. Init => IInv
  BY InitHolds
<1>2. IInv /\ [Next]_vars => IInv'
  BY StepHolds
<1> QED  BY <1>1, <1>2, PTL DEF Spec

(* The variables stay in their ranges: no index leaves hist. *)
THEOREM WindowTypeCorrect == Spec => []WindowTypeOK
<1>1. IInv => WindowTypeOK
  BY DEF IInv
<1> QED  BY <1>1, WindowInvariant, PTL

(* The ring holds the last HistLen bytes of the stream, across the wrap    *)
(* and wherever the decoding was interrupted.                              *)
THEOREM RingHoldsHistory == Spec => []WindowIsHistory
<1>1. IInv => WindowIsHistory
  BY DEF IInv, WindowInv
<1> QED  BY <1>1, WindowInvariant, PTL

(* Every byte is handed out once and in order, before it is overwritten. *)
THEOREM NoByteSkipped == Spec => []NothingSkipped
<1>1. IInv => NothingSkipped
  BY DEF IInv, WindowInv
<1> QED  BY <1>1, WindowInvariant, PTL

(* Each call of Inflate returns all that its piece stands for. *)
THEOREM InflateReturnsAll == Spec => []InflatedAll
  BY ReturnedAll, WindowInvariant, PTL

(* A stream that refers to what it contains is never refused. *)
THEOREM StreamAccepted == Spec => []NeverCorrupt
<1>1. IInv => NeverCorrupt
  BY DEF IInv
<1> QED  BY <1>1, WindowInvariant, PTL
=============================================================================
