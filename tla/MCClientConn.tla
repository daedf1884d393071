---------------------------- MODULE MCClientConn ----------------------------
(* ClientConn for TLC. *)
EXTENDS ClientConn

AuthLists == {<<>>, <<2>>, <<2, 1>>}

Format(bpp, shifts) == [BPP |-> bpp, TrueColor |-> shifts # "map", shifts |-> shifts]
Formats == {Format(32, "rgb"), Format(32, "bgr"), Format(16, "rgb"), Format(8, "map"),
            Format(16, "map")}
=============================================================================
