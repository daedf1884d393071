---------------------------- MODULE MCZlibStreams ---------------------------
(***************************************************************************)
(* The zlib streams that go on from one rectangle to the next, for TLC:    *)
(* those of the Tight decoder (TightStreams) and the one of ZRLE           *)
(* (InflateWindow), one of the two at a time: they share nothing.          *)
(***************************************************************************)
EXTENDS TightStreams, InflateWindow

VARIABLE decoder
mcVars == <<tightVars, vars, decoder>>

MCInit ==
  \/ /\ decoder = "Tight" /\ TightInit
     /\ Init /\ hist[0] = CHOOSE b \in Byte : TRUE
  \/ /\ decoder = "ZRLE" /\ Init
     /\ TightInit /\ buf = CHOOSE px \in Pixels : TRUE

(* There is no rectangle after the last one, or after one that failed.     *)
MCLastRectangle == ~MaySend /\ UNCHANGED tightVars

MCNext ==
  /\ UNCHANGED decoder
  /\ \/ decoder = "Tight" /\ (TightNext \/ MCLastRectangle) /\ UNCHANGED vars
     \/ decoder = "ZRLE" /\ Next /\ UNCHANGED tightVars

MCSpec == MCInit /\ [][MCNext]_mcVars
=============================================================================
