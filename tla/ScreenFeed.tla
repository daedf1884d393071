----------------------------- MODULE ScreenFeed -----------------------------
(***************************************************************************)
(* What a VNC session promises the agent that steps it (gymvnc.go, Step    *)
(* and Flip): every observation is the screen as the updates received so   *)
(* far have painted it, and the list of updates handed out beside it is    *)
(* exactly what turned the previous observation into this one.  Nothing    *)
(* here knows of two screens, deferred updates, pauses or goroutines:      *)
(* FrameBuffer has them, and implements this module.                       *)
(*                                                                         *)
(* A screen is represented by the sequence of the updates painted on it:   *)
(* two screens on which the same updates were painted in the same order    *)
(* hold the same pixels.                                                   *)
(***************************************************************************)
EXTENDS Naturals, Sequences

CONSTANT Update     \* the framebuffer updates a server may send

VARIABLES
  log,      \* the updates received, in order
  shown,    \* the screen the agent was shown last
  handed    \* all the updates the agent was handed, in order

vars == <<log, shown, handed>>

TypeOK ==
  /\ log \in Seq(Update)
  /\ shown \in Seq(Update)
  /\ handed \in Seq(Update)

Init ==
  /\ log = <<>>
  /\ shown = <<>>
  /\ handed = <<>>

(* An update arrives; the agent does not see it yet. *)
Receive(u) ==
  /\ log' = Append(log, u)
  /\ UNCHANGED <<shown, handed>>

(* The agent is shown the screen, and handed the updates that are new to it. *)
Observe ==
  /\ shown' = log
  /\ handed' = handed \o SubSeq(log, Len(shown) + 1, Len(log))
  /\ UNCHANGED log

Next == Observe \/ \E u \in Update : Receive(u)

Spec == Init /\ [][Next]_vars
=============================================================================
