---------------------------- MODULE RectangleData ---------------------------
(***************************************************************************)
(* How a rectangle's bytes become colours (vncclient/encoding.go): raw     *)
(* pixels, the tiles of ZRLE, and the CopyFilter and PaletteFilter of      *)
(* Tight.  One goroutine reads a rectangle from its first byte to its      *)
(* last; an action is one part of it, a run of a tile say.  The server     *)
(* writes that part when the client is about to read it, in any way the    *)
(* protocol allows.  What zlib does in between is the subject of other     *)
(* modules.                                                                *)
(*                                                                         *)
(* Bytes are numbers.  So is a colour, which stands for one of its three   *)
(* components and takes one byte, except in raw pixels.                    *)
(***************************************************************************)
EXTENDS Integers, SequencesExt

CONSTANTS
  Pictures,     \* what the server may show: [x, y, width, height, at]
  Formats,      \* of its pixels: [bytes, depth, BigEndian, TrueColor, shift, max]
  Palettes,     \* sequences of colours; the empty one stands for no palette
  Tile,         \* 64, the side of a tile
  Wrap,         \* 2^16, where uint16 wraps
  MaxWidth,     \* 5120, the limit on x and width
  MaxHeight,    \* 2880, the limit on y and height
  TightWidth,   \* 2048, the limit on the width of a Tight rectangle
  MaxByte,      \* 255, the byte of a length that is continued
  Group,        \* 2^7, what a byte of a compact length holds
  Lengths,      \* compact lengths that occur
  Uncompressed  \* 12, the size from which Tight compresses

(* 1 << n *)
TwoTo[n \in Nat] == IF n = 0 THEN 1 ELSE 2 * TwoTo[n - 1]

(* The sum of the numbers of a sequence.                                   *)
Total(s) ==
  LET sum[i \in 0..Len(s)] == IF i = 0 THEN 0 ELSE sum[i - 1] + s[i] IN sum[Len(s)]

Area(p) == p.width * p.height

(* A mask has its ones in the lowest bits, and a pixel has room for it.    *)
Shown(p) ==
  /\ p.x \in Nat /\ p.y \in Nat /\ p.width \in Nat /\ p.height \in Nat
  /\ p.at \in [0..Area(p) - 1 -> 0..255]
Usable(f) ==
  /\ f.bytes \in {1, 2, 4} /\ f.depth \in Nat
  /\ f.BigEndian \in BOOLEAN /\ f.TrueColor \in BOOLEAN
  /\ f.TrueColor => /\ f.max \in Nat
                     /\ \E k \in 0..8 : /\ f.max + 1 = TwoTo[k]
                                        /\ f.shift \in 0..8 * f.bytes - k

ASSUME DataAssumption ==
  /\ \A p \in Pictures : Shown(p)
  /\ \A f \in Formats : Usable(f)
  /\ Palettes \subseteq Seq(0..255)
  /\ Tile \in Nat \ {0} /\ Wrap \in Nat /\ TightWidth \in Nat
  /\ MaxWidth \in Nat /\ MaxHeight \in Nat
  /\ MaxWidth + Tile <= Wrap /\ MaxHeight + Tile <= Wrap
  /\ MaxByte \in Nat \ {0} /\ Group \in Nat \ {0} /\ Uncompressed \in Nat
  /\ Lengths \subseteq 0..(2 * Group * Group * Group - 1)

VARIABLES
  picture,       \* what the server shows
  format,        \* that of its pixels
  encoding,      \* the one it chose
  stage,         \* what is read next
  colors,        \* what the client has of it
  tileX, tileY,  \* the tile
  scratch, pos,  \* its colours, and how many of them were read
  palette,
  byte, bits,    \* a byte of indices, and its bits that were not read
  announced, length,  \* the compact length, as written and as read
  unread         \* bytes that were written but not read

chosen == <<format, encoding>>
tileVars == <<tileX, tileY, scratch, pos>>
byteVars == <<byte, bits>>
lengthVars == <<announced, length>>
dataVars == <<picture, chosen, stage, colors, tileVars, palette, byteVars, lengthVars, unread>>

Black == 0
Least(a, b) == IF a < b THEN a ELSE b

(* The colours of a picture are some that the format has.                  *)
Holds(f, p) == f.TrueColor => \A k \in 0..Area(p) - 1 : p.at[k] <= f.max

DataInit ==
  /\ picture \in Pictures /\ format \in Formats /\ Holds(format, picture)
  /\ encoding = "none" /\ stage = "rectangle"
  /\ colors = [i \in 0..Area(picture) - 1 |-> Black]
  /\ tileX = 0 /\ tileY = 0 /\ pos = 0
  /\ scratch = [i \in 0..Tile * Tile - 1 |-> Black]
  /\ palette = <<>> /\ byte = 0 /\ bits = 0 /\ announced = 0 /\ length = 0 /\ unread = <<>>

Rest(bytes, count) == SubSeq(bytes, count + 1, Len(bytes))

(***************************************************************************)
(* FramebufferUpdateMessage.Read: the limits, and the decoder that the     *)
(* server chose, which may not support the format.  ZRLE in other formats  *)
(* of four bytes, which it reads as if they were the simplest one, is left *)
(* out.                                                                    *)
(***************************************************************************)
MutantNoLimit(p) == FALSE
Excessive(p) ==
  p.x > MaxWidth \/ p.y > MaxHeight \/ p.width > MaxWidth \/ p.height > MaxHeight

SimplestCase(f) == f.bytes = 4 /\ f.depth = 24 /\ f.TrueColor /\ f.max = 255

Unsupported(e) ==
  \/ e = "ZRLE" /\ 8 * format.bytes < 24
  \/ e = "Tight" /\ (picture.width > TightWidth \/ ~SimplestCase(format))

NextTileIn(x, y) ==
  IF y >= picture.height THEN "end" ELSE IF x < picture.width THEN "tile" ELSE "row"

FirstStage(e) ==
  IF e = "Raw" THEN {"raw pixels"}
  ELSE IF e = "ZRLE" THEN {NextTileIn(0, 0)} ELSE {"pixels", "palette"}

ReadRectangle ==
  /\ stage = "rectangle"
  /\ encoding' \in {"Raw", "ZRLE", "Tight"}
  /\ encoding' = "ZRLE" => SimplestCase(format) \/ 8 * format.bytes < 24
  /\ IF Excessive(picture) \/ Unsupported(encoding') THEN stage' = "failed"
     ELSE stage' \in FirstStage(encoding')
  /\ UNCHANGED <<picture, format, colors, tileVars, palette, byteVars, lengthVars, unread>>

(***************************************************************************)
(* RawEncoding.Read.  The other components of a pixel are all zero or all  *)
(* ones.  Without true colour a pixel is an entry of the colour map, where *)
(* the server has put colour c at c + 1, or, in a larger map, 256 entries  *)
(* behind; the client's map has 256 of them.                               *)
(***************************************************************************)
RawPixel(c, f, others) ==
  IF ~f.TrueColor THEN ((c + 1) % 256) + IF others /\ f.bytes > 1 THEN 256 ELSE 0
  ELSE c * TwoTo[f.shift] + IF others THEN TwoTo[f.shift] - 1 ELSE 0

(* Byte i of a pixel, counted from 1: the weight it has.                   *)
MutantLittleEndian(i, f) == TwoTo[8 * (i - 1)]
Weight(i, f) == TwoTo[8 * IF f.BigEndian THEN f.bytes - i ELSE i - 1]

PixelBytes(pixel, f) ==
  LET little == [i \in 1..f.bytes |-> (pixel \div TwoTo[8 * (i - 1)]) % 256]
  IN  IF f.BigEndian THEN Reverse(little) ELSE little

(* The pixel that the bytes after the first skip ones make.                *)
Joined(bytes, skip, f) == Total([i \in 1..f.bytes |-> bytes[skip + i] * Weight(i, f)])

InColorMap(pixel) == pixel < 256

RawColor(pixel, f) ==
  IF f.TrueColor THEN ((pixel \div TwoTo[f.shift]) % (f.max + 1)) % 256 ELSE (pixel + 255) % 256

RawBytes(p, f, others) ==
  [j \in 1..Area(p) * f.bytes |->
     LET pixel == RawPixel(p.at[(j - 1) \div f.bytes], f, others)
     IN  PixelBytes(pixel, f)[1 + ((j - 1) % f.bytes)]]

ReadRawPixels ==
  /\ stage = "raw pixels"
  /\ \E sent \in {RawBytes(picture, format, others) : others \in BOOLEAN} :
       LET bytes    == unread \o sent
           pixel(i) == Joined(bytes, i * format.bytes, format)
       IN  /\ IF format.TrueColor \/ \A i \in DOMAIN colors : InColorMap(pixel(i))
              THEN /\ stage' = "done"
                   /\ colors' = [i \in DOMAIN colors |-> RawColor(pixel(i), format)]
              ELSE stage' = "panic" /\ UNCHANGED colors
           /\ unread' = Rest(bytes, Area(picture) * format.bytes)
  /\ UNCHANGED <<picture, chosen, tileVars, palette, byteVars, lengthVars>>

(***************************************************************************)
(* ZRLE: parse and parseTile.                                              *)
(***************************************************************************)
Clipped(side, at) == Least(Tile, side - at)
TileWidth == Clipped(picture.width, tileX)
TileHeight == Clipped(picture.height, tileY)
TileArea == TileWidth * TileHeight

(* Colour k of the tile as the server sees it, row by row.                 *)
Pixel(k) ==
  LET width == Least(Tile, picture.width - tileX) IN
    picture.at[(tileY + (k \div width)) * picture.width + tileX + (k % width)]
Colours == {Pixel(k) : k \in 0..TileArea - 1}

(* The first byte says what follows: whether there are runs, and the size  *)
(* of the palette, which is read at once.  129 is unhandled, and unused.   *)
Kind(b) ==
  IF b = 0 THEN "raw" ELSE IF b = 1 THEN "solid" ELSE IF b < 128 THEN "packed"
  ELSE IF b = 128 THEN "runs" ELSE IF b = 129 THEN "failed" ELSE "palette runs"

ReadSubencoding ==
  /\ stage = "tile"
  /\ \E p \in Palettes, runs \in BOOLEAN :
       /\ p = <<>> \/ \A c \in Colours : \E i \in 1..Len(p) : p[i] = c
       /\ Len(p) < 128 /\ (runs => Len(p) # 1)
       /\ LET bytes == unread \o <<Len(p) + IF runs THEN 128 ELSE 0>> \o p
              size  == bytes[1] % 128
          IN  /\ stage' = Kind(bytes[1])
              /\ palette' = SubSeq(bytes, 2, size + 1)
              /\ unread' = Rest(bytes, size + 1)
  /\ pos' = 0
  /\ UNCHANGED <<picture, chosen, colors, tileX, tileY, scratch, byteVars, lengthVars>>

(* fillColor copies the bp colours that are there behind themselves, and   *)
(* doubles bp, until count are there: a colour is written by the copy   *)
(* that reaches it.  fillColor2 leaves the same.                           *)
MutantTimesThree(turn) == 3^turn
Bp(turn) == TwoTo[turn]

FillColor(s, from, count, c) ==
  LET Copies(i) == {turn \in 0..i : i \in Bp(turn)..2 * Bp(turn) - 1}
      filled[i \in 0..count - 1] ==
        IF i = 0 THEN c
        ELSE IF Copies(i) = {} THEN s[from + i]
        ELSE filled[i - Bp(CHOOSE turn \in Copies(i) : TRUE)]
  IN  [i \in DOMAIN s |->
         IF i \in from..from + count - 1 THEN filled[i - from] ELSE s[i]]

(* The colours of the tile are there; the next action copies them.         *)
TileRead(s, rest) ==
  /\ stage' = "copy" /\ scratch' = s /\ unread' = rest
  /\ UNCHANGED <<picture, chosen, colors, tileX, tileY, pos, palette, byteVars, lengthVars>>

ReadRaw ==
  /\ stage = "raw"
  /\ LET bytes == unread \o [k \in 1..TileArea |-> Pixel(k - 1)] IN
       TileRead([i \in DOMAIN scratch |->
                   IF i < TileArea THEN bytes[i + 1] ELSE scratch[i]], Rest(bytes, TileArea))

ReadSolid ==
  /\ stage = "solid"
  /\ TileRead(FillColor(scratch, 0, TileArea, palette[1]), unread)

(***************************************************************************)
(* Indices of several bits, the first one in the highest bits of a byte,   *)
(* and every row of them starting with a byte.  The loops of parseTile and *)
(* of the PaletteFilter read them alike.                                   *)
(***************************************************************************)
BitsPerPackedPixel(size) ==
  IF size > 16 THEN 8 ELSE IF size > 4 THEN 4 ELSE IF size > 2 THEN 2 ELSE 1

(* The index the server chooses for a colour. *)
IndexOf(c, p) == CHOOSE i \in 0..Len(p) - 1 : p[i + 1] = c

(* The byte the server writes for index k and those after it in its row.   *)
PackedByte(k, width, size, indices) ==
  Total([f \in 1..8 \div size |->
           IF (k % width) + f <= width THEN indices[k + f - 1] * TwoTo[8 - size * f] ELSE 0])

MutantRowsJoined(left, k, width) == left = 0
NewByte(left, k, width) == left = 0 \/ k % width = 0

(* Bits of the byte are left after index k, which IndexRead yields.          *)
ReadIndex(k, width, size, indices) ==
  LET new   == NewByte(bits, k, width)
      bytes == IF new THEN unread \o <<PackedByte(k, width, size, indices)>> ELSE unread
  IN  /\ byte' = IF new THEN bytes[1] ELSE byte
      /\ bits' = (IF new THEN 8 ELSE bits) - size
      /\ unread' = IF new THEN Tail(bytes) ELSE bytes
IndexRead(size) == (byte' \div TwoTo[bits']) % TwoTo[size]

ReadPacked ==
  /\ stage = "packed"
  /\ LET size == BitsPerPackedPixel(Len(palette)) IN
       /\ ReadIndex(pos, TileWidth, size, [k \in 0..TileArea - 1 |-> IndexOf(Pixel(k), palette)])
       /\ scratch' = [scratch EXCEPT ![pos] = palette[IndexRead(size) + 1]]
  /\ pos' = pos + 1 /\ stage' = IF pos' < TileArea THEN "packed" ELSE "copy"
  /\ UNCHANGED <<picture, chosen, colors, tileX, tileY, palette, lengthVars>>

(***************************************************************************)
(* Runs.  A length is one more than the sum of its bytes, the last of      *)
(* which is the first one that is not MaxByte.                             *)
(***************************************************************************)
RunBytes(count) ==
  [i \in 1..(count - 1) \div MaxByte |-> MaxByte] \o <<(count - 1) % MaxByte>>

LastOfRun(b) == b # MaxByte

(* The byte that ends the length that starts at byte i.                    *)
LastFrom(bytes, i) == CHOOSE k \in i..Len(bytes) :
                        LastOfRun(bytes[k]) /\ \A j \in i..k - 1 : ~LastOfRun(bytes[j])

(* The run whose length starts at byte i: its length and what follows.     *)
MutantOneMore(bytes, i) ==
  LET last == LastFrom(bytes, i)
  IN  [count |-> 2 + Total(SubSeq(bytes, i, last)), rest |-> Rest(bytes, last)]
RunFrom(bytes, i) ==
  LET last == LastFrom(bytes, i)
  IN  [count |-> 1 + Total(SubSeq(bytes, i, last)), rest |-> Rest(bytes, last)]

(* As many colours, from pos on, as the server may make one run of.        *)
RunsAt == {count \in 1..TileArea - pos : \A k \in pos..pos + count - 1 : Pixel(k) = Pixel(pos)}

RunRead(count, c, rest) ==
  /\ scratch' = FillColor(scratch, pos, count, c)
  /\ pos' = pos + count
  /\ stage' = IF pos' < TileArea THEN stage ELSE "copy"
  /\ unread' = rest
  /\ UNCHANGED <<picture, chosen, colors, tileX, tileY, palette, byteVars, lengthVars>>

ReadRun ==
  /\ stage = "runs"
  /\ \E count \in RunsAt :
       LET bytes == unread \o <<Pixel(pos)>> \o RunBytes(count)
           r     == RunFrom(bytes, 2)
       IN  RunRead(r.count, bytes[1], r.rest)

(* A run of one may be written as an index alone.                          *)
ReadPaletteRun ==
  /\ stage = "palette runs"
  /\ \E count \in RunsAt, long \in BOOLEAN :
       /\ count > 1 => long
       /\ LET index == IndexOf(Pixel(pos), palette)
              bytes == unread \o IF long THEN <<index + 128>> \o RunBytes(count) ELSE <<index>>
              r     == IF bytes[1] >= 128 THEN RunFrom(bytes, 2)
                       ELSE [count |-> 1, rest |-> Tail(bytes)]
          IN  RunRead(r.count, palette[(bytes[1] % 128) + 1], r.rest)

(* The end of parseTile, and the loops of parse; bytes left are an error.  *)
CopyTile ==
  /\ stage = "copy"
  /\ colors' = [i \in DOMAIN colors |->
                  LET x == (i % picture.width) - tileX
                      y == (i \div picture.width) - tileY
                  IN  IF x \in 0..TileWidth - 1 /\ y \in 0..TileHeight - 1
                      THEN scratch[y * TileWidth + x] ELSE colors[i]]
  /\ tileX' = (tileX + Tile) % Wrap
  /\ stage' = NextTileIn(tileX', tileY)
  /\ pos' = 0 /\ palette' = <<>> /\ byte' = 0 /\ bits' = 0
  /\ UNCHANGED <<picture, chosen, tileY, scratch, lengthVars, unread>>

EndRow ==
  /\ stage = "row" /\ tileX' = 0 /\ tileY' = (tileY + Tile) % Wrap
  /\ stage' = NextTileIn(0, tileY')
  /\ UNCHANGED <<picture, chosen, colors, scratch, pos, palette, byteVars, lengthVars, unread>>

EndOfData ==
  /\ stage = "end" /\ stage' = IF unread = <<>> THEN "done" ELSE "failed"
  /\ UNCHANGED <<picture, chosen, colors, tileVars, palette, byteVars, lengthVars, unread>>

(***************************************************************************)
(* Tight: readBasicCompression.                                            *)
(***************************************************************************)

(* readCompactLength: seven bits a byte, and eight of the third.           *)
CompactBytes(l) ==
  IF l < Group THEN <<l>>
  ELSE IF l < Group * Group THEN <<Group + (l % Group), l \div Group>>
  ELSE <<Group + (l % Group), Group + ((l \div Group) % Group), l \div (Group * Group)>>

MutantTwoBytes(b, i) == b < Group \/ i = 2
LastOfLength(b, i) == b < Group \/ i = 3

CompactLength(bytes) ==
  LET last == CHOOSE i \in 1..3 : LastOfLength(bytes[i], i) /\
                                  \A j \in 1..i - 1 : ~LastOfLength(bytes[j], j)
      weight == <<1, Group, Group * Group>>
  IN  [length |-> Total([i \in 1..last |->
                           weight[i] * IF i = last THEN bytes[i] ELSE bytes[i] % Group]),
       rest |-> Rest(bytes, last)]

(* basicCompressionReader: data of a few bytes comes without a length.     *)
IsCompressed(size) == size >= Uncompressed

IndicesSize(p) ==
  IF Len(p) = 2 THEN ((picture.width + 7) \div 8) * picture.height ELSE Area(picture)

ReadCompactLength ==
  /\ stage = "length"
  /\ \E l \in Lengths :
       LET r == CompactLength(unread \o CompactBytes(l)) IN
         announced' = l /\ length' = r.length /\ unread' = r.rest
  /\ stage' = "indices"
  /\ UNCHANGED <<picture, chosen, colors, tileVars, palette, byteVars>>

(* CopyFilter: readTPixels of all the pixels.                              *)
ReadPixels ==
  /\ stage = "pixels"
  /\ LET bytes == unread \o [k \in 1..Area(picture) |-> picture.at[k - 1]] IN
       /\ stage' = IF bytes = <<>> THEN "panic" ELSE "done"
       /\ colors' = [i \in DOMAIN colors |-> bytes[i + 1]]
       /\ unread' = Rest(bytes, Area(picture))
  /\ UNCHANGED <<picture, chosen, tileVars, palette, byteVars, lengthVars>>

(* PaletteFilter: the size of the palette less one, and the palette.       *)
ReadPalette ==
  /\ stage = "palette"
  /\ \E p \in Palettes :
       /\ Len(p) \in 2..256
       /\ \A k \in DOMAIN colors : \E i \in 1..Len(p) : p[i] = picture.at[k]
       /\ LET bytes == unread \o <<Len(p) - 1>> \o p IN
            /\ palette' = SubSeq(bytes, 2, bytes[1] + 2)
            /\ unread' = Rest(bytes, bytes[1] + 2)
  /\ stage' = IF IsCompressed(IndicesSize(palette')) THEN "length" ELSE "indices"
  /\ UNCHANGED <<picture, chosen, colors, tileVars, byteVars, lengthVars>>

(* Two colours take a bit a pixel, more of them a byte.                    *)
ReadIndices ==
  /\ stage = "indices"
  /\ IF pos = Area(picture) THEN stage' = "done" /\ UNCHANGED <<colors, pos, byteVars, unread>>
     ELSE LET size == IF Len(palette) = 2 THEN 1 ELSE 8 IN
            /\ ReadIndex(pos, picture.width, size,
                         [k \in DOMAIN colors |-> IndexOf(picture.at[k], palette)])
            /\ colors' = [colors EXCEPT ![pos] = palette[IndexRead(size) + 1]]
            /\ pos' = pos + 1 /\ UNCHANGED stage
  /\ UNCHANGED <<picture, chosen, tileX, tileY, scratch, palette, lengthVars>>

(* The connection breaks while bytes are awaited.  The end of the data is  *)
(* no error of readToBuf, but it is one of readTPixels and of zlib; the    *)
(* data of ZRLE was read as a whole before.                                *)
MutantAllUnchecked(size) == TRUE
EndUnchecked(size) == ~IsCompressed(size)

ConnectionBreaks ==
  /\ stage \in {"rectangle", "raw pixels", "pixels", "palette", "length", "indices"}
  /\ stage \in {"raw pixels", "pixels", "indices"} => DOMAIN colors # {} /\ pos = 0
  /\ stage' = IF stage = "indices" /\ EndUnchecked(IndicesSize(palette)) THEN "panic" ELSE "broken"
  /\ UNCHANGED <<picture, chosen, colors, tileVars, palette, byteVars, lengthVars, unread>>
-----------------------------------------------------------------------------
ZRLE ==
  \/ ReadSubencoding \/ ReadRaw \/ ReadSolid \/ ReadPacked \/ ReadRun \/ ReadPaletteRun
  \/ CopyTile \/ EndRow \/ EndOfData

Tight == ReadPixels \/ ReadPalette \/ ReadCompactLength \/ ReadIndices

DataNext == ReadRectangle \/ ReadRawPixels \/ ZRLE \/ Tight \/ ConnectionBreaks

(* The goroutine goes on as long as there is something to read.            *)
DataFairness == WF_dataVars(ReadRectangle \/ ReadRawPixels \/ ZRLE \/ Tight)

DataSpec == DataInit /\ [][DataNext]_dataVars /\ DataFairness
-----------------------------------------------------------------------------
Ended == {"done", "failed", "broken", "panic"}

(* Every index stays inside what it indexes: no run goes beyond its tile.  *)
DataTypeOK ==
  /\ stage \in Ended \cup
       {"rectangle", "raw pixels", "tile", "row", "end", "raw", "solid", "packed", "runs",
        "palette runs", "copy", "pixels", "palette", "length", "indices"}
  /\ tileX \in 0..Wrap - 1 /\ tileY \in 0..Wrap - 1
  /\ stage \in {"packed", "runs", "palette runs", "copy"} => pos \in 0..TileArea
  /\ stage \in {"indices", "done"} => pos \in 0..Area(picture)
  /\ byte \in 0..255 /\ bits \in 0..7 /\ DOMAIN scratch = 0..Tile * Tile - 1
  /\ DOMAIN colors = 0..Area(picture) - 1
  /\ announced \in Lengths \cup {0} /\ length \in Nat

(* Tile by tile, and run by run within a tile, what was read is what the   *)
(* server shows, in every way it may be written; and in the end all of it  *)
(* is there, whichever encoding it came in (parse, readBasicCompression).  *)
ShownSoFar ==
  /\ stage \in {"packed", "runs", "palette runs"} => \A k \in 0..pos - 1 : scratch[k] = Pixel(k)
  /\ stage = "copy" => \A k \in 0..TileArea - 1 : scratch[k] = Pixel(k)
  /\ stage = "indices" => \A k \in 0..pos - 1 : colors[k] = picture.at[k]
  /\ stage = "done" => colors = picture.at

(* Each part reads exactly the bytes that were written for it; were one    *)
(* left or missing, all that follows would be misread.                     *)
ReadsExactly == unread = <<>> /\ length = announced

(* Nothing that a server may send is an error but a rectangle that starts  *)
(* or ends too far off, a Tight one that is too wide or not in the         *)
(* simplest format, and ZRLE in less than 24 bits.  And nothing makes the  *)
(* client panic but a raw pixel of more than a byte that is an entry of a  *)
(* colour map, a connection that breaks within a few indices, and pixels   *)
(* of which there are none (RawEncoding.Read, readToBuf, ReadColors).      *)
FailsOnlyFor ==
  /\ stage = "failed" =>
       \/ picture.x > MaxWidth \/ picture.width > MaxWidth
       \/ picture.y > MaxHeight \/ picture.height > MaxHeight
       \/ encoding = "Tight" /\ (picture.width > TightWidth \/ ~SimplestCase(format))
       \/ encoding = "ZRLE" /\ format.bytes < 3
  /\ stage = "panic" =>
       \/ encoding = "Raw" /\ ~format.TrueColor /\ format.bytes > 1 /\ Area(picture) > 0
       \/ encoding = "Tight" /\ palette = <<>> /\ Area(picture) = 0
       \/ encoding = "Tight" /\ palette # <<>> /\ IndicesSize(palette) < Uncompressed

(* The loops over tiles end: uint16 does not wrap below the limit          *)
(* (parse, FramebufferUpdateMessage.Read).                                 *)
DataEnds == <>(stage \in Ended)
=============================================================================
