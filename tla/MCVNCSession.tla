---------------------------- MODULE MCVNCSession ----------------------------
(* VNCSession for TLC. *)
EXTENDS VNCSession
=============================================================================
