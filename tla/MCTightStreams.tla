--------------------------- MODULE MCTightStreams ---------------------------
(* Instances of TightStreams for TLC. *)
EXTENDS TightStreams
=============================================================================
