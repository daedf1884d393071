------------------------------ MODULE MCDecoders -----------------------------
(***************************************************************************)
(* RectangleData and ForwardCopy for TLC, one of them at a time: they are  *)
(* loops of their own, and share nothing.                                  *)
(* With tiles of three by three, the pictures are all those of two tiles   *)
(* and two colours, a few of four tiles, some without a pixel, and some    *)
(* at the limit and beyond it.                                             *)
(***************************************************************************)
EXTENDS RectangleData, ForwardCopy

MCPictureAt(x, y, w, h, Colour(_)) ==
  [x |-> x, y |-> y, width |-> w, height |-> h, at |-> [i \in 0..w * h - 1 |-> Colour(i)]]
MCPicture(w, h, Colour(_)) == MCPictureAt(0, 0, w, h, Colour)
MCAll(w, h) ==
  {[x |-> 0, y |-> 0, width |-> w, height |-> h, at |-> at] :
     at \in [0..w * h - 1 -> {3, 200}]}

MCPictures ==
  MCAll(4, 2) \cup MCAll(2, 4) \cup MCAll(0, 2) \cup MCAll(2, 0)
  \cup {MCPicture(4, 4, LAMBDA i : IF i % m < 2 THEN 3 ELSE 200) : m \in 2..7}
  \cup {MCPicture(w, 1, LAMBDA i : 3) : w \in 5..7}
  \cup {MCPicture(1, h, LAMBDA i : 200) : h \in {5, 7}}
  \cup {MCPictureAt(x, y, 1, 2, LAMBDA i : 3) : x \in 6..7, y \in 4..5}

(* Of every size that changes the number of bits. *)
MCPalettes ==
  {<<>>, <<3>>, <<200>>, <<200, 3>>, <<3, 9, 200>>, <<9, 3, 9, 9, 200>>,
   [i \in 1..17 |-> IF i = 2 THEN 3 ELSE IF i = 17 THEN 200 ELSE 9]}

(* The first one is the simplest case.                                     *)
MCFormats ==
  [bytes : {4}, depth : {24}, BigEndian : {FALSE}, TrueColor : {TRUE},
   shift : {16}, max : {255}]
  \cup [bytes : {4}, depth : {32}, BigEndian : BOOLEAN, TrueColor : {TRUE},
        shift : {0, 5, 16}, max : {255}]
  \cup [bytes : {2}, depth : {16}, BigEndian : BOOLEAN, TrueColor : {TRUE},
        shift : {0, 5}, max : {255}]
  \cup [bytes : {1, 2}, depth : {8}, BigEndian : BOOLEAN, TrueColor : {FALSE},
        shift : {0}, max : {0}]

MCNothingToDecode ==
  /\ picture = MCPicture(0, 0, LAMBDA i : Black) /\ format = CHOOSE f \in Formats : SimplestCase(f)
  /\ encoding = "none" /\ stage = "done"
  /\ colors = picture.at /\ tileX = 0 /\ tileY = 0 /\ pos = 0
  /\ scratch = [i \in 0..Tile * Tile - 1 |-> Black]
  /\ palette = <<>> /\ byte = 0 /\ bits = 0 /\ announced = 0 /\ length = 0 /\ unread = <<>>

MCNothingToCopy ==
  /\ pc = "done" /\ mem = [i \in 0..Size - 1 |-> CHOOSE b \in Byte : TRUE] /\ mem0 = mem
  /\ src = 0 /\ dst = 0 /\ n = 0 /\ dst0 = 0 /\ n0 = 0

MCInit == (DataInit /\ MCNothingToCopy) \/ (Init /\ MCNothingToDecode)

MCNext == (DataNext /\ UNCHANGED copyVars) \/ (Next /\ UNCHANGED dataVars)

MCSpec ==
  /\ MCInit /\ [][MCNext]_<<dataVars, copyVars>>
  /\ DataFairness /\ WF_copyVars(Next)
=============================================================================
