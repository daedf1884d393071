--------------------------- MODULE MCDriverBridge ---------------------------
(* DriverBridge for TLC. *)
EXTENDS DriverBridge, TLC

Symmetry == Permutations(Name)
=============================================================================
