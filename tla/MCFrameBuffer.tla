--------------------------- MODULE MCFrameBuffer ----------------------------
(* FrameBuffer for TLC.  Four updates with a limit of two deferred ones are *)
(* enough to be paused, flipped while paused, flipped again before the      *)
(* first resumer runs, and paused again.  Nothing else needs a bound: every *)
(* update is received once, and a flip spawns a resumer only after an       *)
(* update or another resumer has repainted the back screen.                 *)
EXTENDS FrameBuffer
=============================================================================
