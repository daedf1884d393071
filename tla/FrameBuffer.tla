---------------------------- MODULE FrameBuffer -----------------------------
(***************************************************************************)
(* The double buffer of a VNC session (gymvnc.go, VNCSession.Flip,         *)
(* applyDeferred, applyUpdate, maintainFrameBuffer) and the OpenGL window  *)
(* that follows it (Render, SetRenderer; vncgl.go).                        *)
(*                                                                         *)
(* Three kinds of goroutine share it.  The frame buffer goroutine paints   *)
(* every update on the back screen and remembers it in deferredUpdates.    *)
(* The agent's thread flips: it takes the back screen as the new front and *)
(* leaves a stale back screen behind, which a goroutine spawned by the     *)
(* flip (a "resumer" below) repaints with the deferred updates, unless the *)
(* frame buffer goroutine gets the lock first and does it.  Each of them   *)
(* works in one critical section of updated.L, so each is one action.      *)
(*                                                                         *)
(* After DeferredMax deferred updates the frame buffer goroutine sets      *)
(* pauseUpdates, and no more updates are requested until a resumer clears  *)
(* it.  The requests themselves travel on the connection: VNCSession adds  *)
(* them to the actions of this module.                                     *)
(*                                                                         *)
(* A screen, and the texture of the window, are represented by the         *)
(* sequence of the updates painted on them.                                *)
(*                                                                         *)
(* A Mutant... definition is never used: it is the definition below it     *)
(* with a mistake somebody could make, for which a property must fail.     *)
(***************************************************************************)
EXTENDS Naturals, Sequences, Functions

CONSTANTS
  Update,       \* the framebuffer updates a server may send, each at most once
  DeferredMax   \* deferredUpdatesMax, 60 in the code

ASSUME DeferredMaxAssumption == DeferredMax \in Nat \ {0}

VARIABLES
  screens,          \* what is painted on each of the two screens
  frontScreen,      \* the screen the agent reads, without a lock
  backScreen,       \* the screen updates are painted on
  backUpdated,      \* is the back screen up to date?
  deferredUpdates,  \* updates painted on the back screen, missing on the front
  pauseUpdates,     \* requests for updates are suspended
  resumers,         \* goroutines spawned by Flip that have not got the lock yet
  rendererSet,      \* SetRenderer has given the session a renderer
  rendererActive,   \* the renderer's window was opened
  rendererClosed,   \* the renderer's window was closed (VNCGL.closed)
  texture,          \* what is painted on the window
  received,         \* history: the updates maintainFrameBuffer received
  reported          \* history: the updates Flip handed to the agent

windowVars == <<rendererSet, rendererActive, rendererClosed, texture>>
bufferVars == <<screens, frontScreen, backScreen, backUpdated,
                deferredUpdates, pauseUpdates, resumers>>
frameVars == <<bufferVars, windowVars, received, reported>>

(* The two screens NewScreen makes once the size is known. *)
Screen == {1, 2}

front == screens[frontScreen]
back == screens[backScreen]

TypeOK ==
  /\ screens \in [Screen -> Seq(Update)]
  /\ frontScreen \in Screen
  /\ backScreen \in Screen
  /\ backUpdated \in BOOLEAN
  /\ deferredUpdates \in Seq(Update)
  /\ pauseUpdates \in BOOLEAN
  /\ resumers \in Nat
  /\ rendererSet \in BOOLEAN
  /\ rendererActive \in BOOLEAN
  /\ rendererClosed \in BOOLEAN
  /\ texture \in Seq(Update)
  /\ received \in Seq(Update)
  /\ reported \in Seq(Update)

FrameInit ==
  /\ screens = [s \in Screen |-> <<>>]
  /\ frontScreen = 1
  /\ backScreen = 2
  /\ backUpdated = TRUE
  /\ deferredUpdates = <<>>
  /\ pauseUpdates = FALSE
  /\ resumers = 0
  /\ rendererSet = FALSE
  /\ rendererActive = FALSE
  /\ rendererClosed = FALSE
  /\ texture = <<>>
  /\ received = <<>>
  /\ reported = <<>>

-----------------------------------------------------------------------------
(* What applyDeferred leaves on the back screen and in deferredUpdates. *)
MutantNotPainted == back
MutantNotCleared == deferredUpdates
RefreshedBack == IF backUpdated THEN back ELSE back \o deferredUpdates
RemainingDeferred == IF backUpdated THEN deferredUpdates ELSE <<>>

(* The frame buffer goroutine takes update u from its channel: it brings   *)
(* the back screen up to date, paints u on it, defers u for the other      *)
(* screen, and suspends the requests when too many updates are deferred.   *)
Maintain(u) ==
  /\ u \notin Range(received)
  /\ received' = Append(received, u)
  /\ screens' = [screens EXCEPT ![backScreen] = Append(RefreshedBack, u)]
  /\ backUpdated' = TRUE
  /\ deferredUpdates' = Append(RemainingDeferred, u)
  /\ pauseUpdates' = (pauseUpdates \/ Len(deferredUpdates') >= DeferredMax)
  /\ UNCHANGED <<frontScreen, backScreen, resumers, windowVars, reported>>

(* The pieces of a flip: the screens trade places, a goroutine is spawned, *)
(* the agent is handed the deferred updates, an open window is fed them.   *)
MutantOneScreen == frontScreen' = backScreen /\ UNCHANGED backScreen
SwapScreens == frontScreen' = backScreen /\ backScreen' = frontScreen

MutantSpawnUnlessPaused ==
  resumers' = IF pauseUpdates THEN resumers ELSE resumers + 1
SpawnResumer == resumers' = resumers + 1

MutantReportNothing == UNCHANGED reported
ReportUpdates == reported' = reported \o deferredUpdates

MutantStarveWindow == UNCHANGED texture
FeedWindow ==
  texture' = IF rendererActive /\ ~rendererClosed
             THEN texture \o deferredUpdates
             ELSE texture

(* The agent flips.  What is on the back screen becomes the front, and the *)
(* new back screen is stale until the deferred updates are painted on it.  *)
(* With nothing new the agent is shown the same front screen again.        *)
FlipScreens ==
  /\ backUpdated
  /\ backUpdated' = FALSE
  /\ SwapScreens
  /\ SpawnResumer
  /\ ReportUpdates
  /\ FeedWindow
  /\ UNCHANGED <<screens, deferredUpdates, pauseUpdates, received,
                 rendererSet, rendererActive, rendererClosed>>

FlipNothing ==
  /\ ~backUpdated
  /\ UNCHANGED frameVars

Flip == FlipScreens \/ FlipNothing

(* A goroutine spawned by a flip gets the lock: it brings the back screen  *)
(* up to date if nobody has, and ends the pause.                           *)
MutantPauseGoesOn == UNCHANGED pauseUpdates
EndPause == pauseUpdates' = FALSE

ResumerWaits == resumers > 0

Resume ==
  /\ ResumerWaits
  /\ resumers' = resumers - 1
  /\ screens' = [screens EXCEPT ![backScreen] = RefreshedBack]
  /\ backUpdated' = TRUE
  /\ deferredUpdates' = RemainingDeferred
  /\ EndPause
  /\ UNCHANGED <<frontScreen, backScreen, windowVars, received, reported>>

-----------------------------------------------------------------------------
(* A renderer may be given to the session until its window is open. *)
SetRenderer ==
  /\ ~rendererActive
  /\ rendererSet' = TRUE
  /\ UNCHANGED <<bufferVars, rendererActive, rendererClosed, texture,
                 received, reported>>

(* Rendering opens the window the first time, with the front screen in its *)
(* texture; it then draws the texture, or closes the window for good.      *)
Render(close) ==
  /\ rendererSet
  /\ rendererActive' = TRUE
  /\ texture' = IF rendererActive THEN texture ELSE front
  /\ rendererClosed' = (rendererClosed \/ close)
  /\ UNCHANGED <<bufferVars, rendererSet, received, reported>>

(* Closing the session closes a window that was opened. *)
MutantCloseUnrendered == UNCHANGED frameVars
CloseRenderer ==
  /\ rendererClosed' = (rendererClosed \/ rendererActive)
  /\ UNCHANGED <<bufferVars, rendererSet, rendererActive, texture,
                 received, reported>>

FrameNext ==
  \/ \E u \in Update : Maintain(u)
  \/ Flip
  \/ Resume
  \/ SetRenderer
  \/ \E close \in BOOLEAN : Render(close)
  \/ CloseRenderer

FrameSpec == FrameInit /\ [][FrameNext]_frameVars

(* A goroutine that waits for a mutex gets it in the end. *)
FairFrameSpec == FrameSpec /\ WF_frameVars(Resume)
-----------------------------------------------------------------------------
(* The invariant that makes double buffering correct (gymvnc.go:266-310).  *)
(* An up to date back screen shows everything received, and deferred       *)
(* updates are what the front screen misses of it.  A stale back screen    *)
(* misses exactly the deferred updates, which the front screen has; and    *)
(* somebody is on the way to paint them, so that it cannot stay stale.     *)
BufferInv ==
  /\ frontScreen # backScreen
  /\ IF backUpdated
     THEN back = received /\ received = front \o deferredUpdates
     ELSE front = received /\ received = back \o deferredUpdates /\ resumers > 0

(* The updates handed to the agent over all its steps are exactly those    *)
(* painted on the screen it was shown: it could rebuild its observation    *)
(* from them (gymvnc.go:266-269, 295).                                     *)
ReportedIsShown == reported = front

(* An open window shows the front screen, although it is only ever fed     *)
(* with updates (gymvnc.go:241-246, 289-292).                              *)
WindowMirrorsFront == rendererActive /\ ~rendererClosed => texture = front

(* A pause always ends with the next flip: either that flip has something  *)
(* to do, and spawns the goroutine that resumes, or an earlier one spawned *)
(* a goroutine that is on its way (gymvnc.go:266-287, 373-376).            *)
PauseWillEnd == pauseUpdates => backUpdated \/ resumers > 0

(* Nobody ever writes the screen the agent holds: Step hands the front     *)
(* screen out without a lock, and it stays as it is until a later flip     *)
(* makes it the back screen (gymvnc.go:266-270, 295, 347).                 *)
FrontUntouched ==
  [][screens'[frontScreen] = screens[frontScreen]]_frameVars

(* Once a flip has spawned its goroutine, a pause ends without any help    *)
(* from the agent (gymvnc.go:269-287).                                     *)
PauseEnds == resumers > 0 ~> ~pauseUpdates

(* The double buffer implements the promise made to the agent.             *)
Feed == INSTANCE ScreenFeed
        WITH log <- received, shown <- front, handed <- reported
FeedSpec == Feed!Spec
=============================================================================
