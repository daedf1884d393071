------------------------- MODULE FrameBufferProofs --------------------------
(***************************************************************************)
(* Proofs about FrameBuffer, for every set of updates and every limit on   *)
(* the deferred ones.  BufferInv is inductive relative to TypeOK; what the *)
(* agent and the window see follows once the reported updates and the      *)
(* texture are added to it.                                                *)
(***************************************************************************)
EXTENDS FrameBuffer, SequenceTheorems, TLAPS

(* Appending after a concatenation: what Maintain does to back, received   *)
(* and deferredUpdates at the same time.                                   *)
LEMMA AppendConcat ==
  \A s, t \in Seq(Update) : \A u \in Update : Append(s \o t, u) = s \o Append(t, u)
<1> SUFFICES ASSUME NEW s \in Seq(Update), NEW t \in Seq(Update), NEW u \in Update
             PROVE  Append(s \o t, u) = s \o Append(t, u)
  OBVIOUS
<1>1. Append(s \o t, u) = (s \o t) \o <<u>>
  BY ConcatProperties, AppendIsConcat
<1>2. Append(t, u) = t \o <<u>>
  BY AppendIsConcat
<1>3. (s \o t) \o <<u>> = s \o (t \o <<u>>)
  BY ConcatAssociative
<1> QED  BY <1>1, <1>2, <1>3

LEMMA InitTypeOK == FrameInit => TypeOK
<1> SUFFICES ASSUME FrameInit
             PROVE  TypeOK
  OBVIOUS
<1>1. <<>> \in Seq(Update)
  BY EmptySeq
<1>2. screens \in [Screen -> Seq(Update)]
  BY <1>1 DEF FrameInit
<1> QED
  BY <1>1, <1>2 DEF FrameInit, TypeOK, Screen

(* All variables keep their types in a step. *)
LEMMA StepTypeOK == TypeOK /\ [FrameNext]_frameVars => TypeOK'
<1> SUFFICES ASSUME TypeOK, [FrameNext]_frameVars
             PROVE  TypeOK'
  OBVIOUS
<1> USE DEF TypeOK
<1>1. RefreshedBack \in Seq(Update) /\ RemainingDeferred \in Seq(Update)
  BY ConcatProperties DEF RefreshedBack, RemainingDeferred, back, Screen
<1>2. ASSUME NEW u \in Update, Maintain(u)
      PROVE  TypeOK'
  BY <1>1, <1>2, AppendProperties DEF Maintain, windowVars
<1>3. CASE FlipScreens
  <2>1. reported' \in Seq(Update) /\ texture' \in Seq(Update)
    BY <1>3, ConcatProperties DEF FlipScreens, ReportUpdates, FeedWindow
  <2>2. resumers' \in Nat /\ frontScreen' \in Screen /\ backScreen' \in Screen
    BY <1>3 DEF FlipScreens, SwapScreens, SpawnResumer
  <2> QED
    BY <1>3, <2>1, <2>2 DEF FlipScreens
<1>4. CASE FlipNothing
  BY <1>4 DEF FlipNothing, frameVars, bufferVars, windowVars
<1>5. CASE Resume
  <2>1. screens' \in [Screen -> Seq(Update)] /\ deferredUpdates' \in Seq(Update)
    BY <1>1, <1>5 DEF Resume
  <2>2. resumers' \in Nat
    BY <1>5 DEF Resume, ResumerWaits
  <2> QED
    BY <1>5, <2>1, <2>2 DEF Resume, EndPause, windowVars
<1>6. CASE SetRenderer
  BY <1>6 DEF SetRenderer, bufferVars
<1>7. ASSUME NEW close \in BOOLEAN, Render(close)
      PROVE  TypeOK'
  BY <1>7 DEF Render, bufferVars, front
<1>8. CASE CloseRenderer
  BY <1>8 DEF CloseRenderer, bufferVars
<1>9. CASE UNCHANGED frameVars
  BY <1>9 DEF frameVars, bufferVars, windowVars
<1> QED
  BY <1>2, <1>3, <1>4, <1>5, <1>6, <1>7, <1>8, <1>9 DEF FrameNext, Flip

(* TypeOK holds of every reachable state (gymvnc.go:56-80).                *)
THEOREM TypeCorrect == FrameSpec => []TypeOK
<1> QED  BY InitTypeOK, StepTypeOK, PTL DEF FrameSpec

-----------------------------------------------------------------------------
(* What a step needs of the state it starts in to preserve what is shown:  *)
(* the buffers fit together, the agent was handed what is on the front     *)
(* screen, and so was an open window.                                      *)
ShownInv == BufferInv /\ ReportedIsShown /\ WindowMirrorsFront

LEMMA InitShown == FrameInit => ShownInv
BY ConcatEmptySeq
DEF FrameInit, ShownInv, BufferInv, ReportedIsShown, WindowMirrorsFront,
    front, back, Screen

(* One step of the frame buffer keeps ShownInv. *)
LEMMA StepShown == TypeOK /\ ShownInv /\ [FrameNext]_frameVars => ShownInv'
<1> SUFFICES ASSUME TypeOK, ShownInv, [FrameNext]_frameVars
             PROVE  ShownInv'
  OBVIOUS
<1> USE DEF ShownInv, front, back
<1>1. frontScreen # backScreen /\ frontScreen \in Screen /\ backScreen \in Screen
  BY DEF BufferInv, TypeOK
<1>2. front \in Seq(Update) /\ back \in Seq(Update) /\ deferredUpdates \in Seq(Update)
  BY <1>1 DEF TypeOK
<1>3. RefreshedBack = received /\ received = front \o RemainingDeferred
  <2>1. CASE backUpdated
    BY <2>1 DEF BufferInv, RefreshedBack, RemainingDeferred
  <2>2. CASE ~backUpdated
    BY <2>2, <1>2, ConcatEmptySeq DEF BufferInv, RefreshedBack, RemainingDeferred
  <2> QED  BY <2>1, <2>2
<1>4. ASSUME NEW u \in Update, Maintain(u)
      PROVE  ShownInv'
  <2>1. front' = front /\ back' = Append(RefreshedBack, u)
    BY <1>1, <1>4 DEF Maintain, TypeOK
  <2>2. RemainingDeferred \in Seq(Update)
    BY <1>2, EmptySeq DEF RemainingDeferred
  <2>3. received' = front' \o deferredUpdates'
    <3>1. received' = Append(front \o RemainingDeferred, u)
      BY <1>3, <1>4 DEF Maintain
    <3>2. Append(front \o RemainingDeferred, u) = front \o Append(RemainingDeferred, u)
      BY <1>2, <1>4, <2>2, AppendConcat
    <3>3. deferredUpdates' = Append(RemainingDeferred, u)
      BY <1>4 DEF Maintain
    <3> QED  BY <2>1, <3>1, <3>2, <3>3
  <2>4. BufferInv'
    BY <1>1, <1>3, <1>4, <2>1, <2>3 DEF Maintain, BufferInv
  <2> QED
    BY <1>4, <2>1, <2>4
    DEF Maintain, windowVars, ReportedIsShown, WindowMirrorsFront
<1>5. CASE FlipScreens
  <2>1. front' = back /\ back' = front
    BY <1>5 DEF FlipScreens, SwapScreens
  <2>2. back = received /\ received = front \o deferredUpdates
    BY <1>5 DEF FlipScreens, BufferInv
  <2>3. BufferInv'
    BY <1>1, <1>5, <2>1, <2>2
    DEF FlipScreens, SwapScreens, SpawnResumer, BufferInv, TypeOK
  <2> QED
    BY <1>5, <2>1, <2>2, <2>3
    DEF FlipScreens, ReportUpdates, FeedWindow, ReportedIsShown, WindowMirrorsFront
<1>6. CASE Resume
  <2>1. front' = front /\ back' = RefreshedBack
    BY <1>1, <1>6 DEF Resume, TypeOK
  <2>2. BufferInv'
    BY <1>1, <1>3, <1>6, <2>1 DEF Resume, BufferInv
  <2> QED
    BY <1>6, <2>1, <2>2 DEF Resume, windowVars, ReportedIsShown, WindowMirrorsFront
<1>7. CASE SetRenderer
  BY <1>7 DEF SetRenderer, bufferVars, BufferInv, ReportedIsShown, WindowMirrorsFront
<1>8. ASSUME NEW close \in BOOLEAN, Render(close)
      PROVE  ShownInv'
  BY <1>8 DEF Render, bufferVars, BufferInv, ReportedIsShown, WindowMirrorsFront
<1>9. CASE CloseRenderer
  BY <1>9 DEF CloseRenderer, bufferVars, BufferInv, ReportedIsShown, WindowMirrorsFront
<1>10. CASE UNCHANGED frameVars
  BY <1>10
  DEF frameVars, bufferVars, windowVars, BufferInv, ReportedIsShown, WindowMirrorsFront
<1> QED
  BY <1>4, <1>5, <1>6, <1>7, <1>8, <1>9, <1>10 DEF FrameNext, Flip, FlipNothing

(* The buffers always fit together, whatever the updates and the order the *)
(* goroutines get the lock in (gymvnc.go:266-310, 360-376).                *)
THEOREM Shown == FrameSpec => []ShownInv
<1> QED  BY TypeCorrect, InitShown, StepShown, PTL DEF FrameSpec

(* The double buffer invariant (gymvnc.go:266-310).                        *)
THEOREM BuffersFit == FrameSpec => []BufferInv
<1>1. ShownInv => BufferInv
  BY DEF ShownInv
<1> QED  BY <1>1, Shown, PTL

(* The agent is handed exactly the updates it is shown (gymvnc.go:269, 295). *)
THEOREM HandedWhatIsShown == FrameSpec => []ReportedIsShown
<1>1. ShownInv => ReportedIsShown
  BY DEF ShownInv
<1> QED  BY <1>1, Shown, PTL

(* An open window shows the front screen (gymvnc.go:289-292).              *)
THEOREM WindowShowsFront == FrameSpec => []WindowMirrorsFront
<1>1. ShownInv => WindowMirrorsFront
  BY DEF ShownInv
<1> QED  BY <1>1, Shown, PTL

(* A pause can always be ended: by the next flip or by a goroutine already *)
(* on its way (gymvnc.go:269-287, 373-376).                                *)
THEOREM PausesCanEnd == FrameSpec => []PauseWillEnd
<1>1. BufferInv => PauseWillEnd
  BY DEF BufferInv, PauseWillEnd
<1> QED  BY <1>1, BuffersFit, PTL

-----------------------------------------------------------------------------
(* The screen in the agent's hands is never written, not even by the flip  *)
(* that takes it away (gymvnc.go:266-270, 347).                            *)
THEOREM FrontNeverWritten == FrameSpec => FrontUntouched
<1>1. TypeOK /\ BufferInv /\ [FrameNext]_frameVars
        => [screens'[frontScreen] = screens[frontScreen]]_frameVars
  <2> SUFFICES ASSUME TypeOK, BufferInv, FrameNext
               PROVE  screens'[frontScreen] = screens[frontScreen]
    OBVIOUS
  <2>1. frontScreen # backScreen /\ frontScreen \in Screen
    BY DEF BufferInv, TypeOK
  <2>2. ASSUME NEW u \in Update, Maintain(u)
        PROVE  screens'[frontScreen] = screens[frontScreen]
    BY <2>1, <2>2 DEF Maintain, TypeOK
  <2>3. CASE Flip
    BY <2>3 DEF Flip, FlipScreens, FlipNothing, frameVars, bufferVars
  <2>4. CASE Resume
    BY <2>1, <2>4 DEF Resume, TypeOK
  <2>5. CASE SetRenderer \/ (\E close \in BOOLEAN : Render(close)) \/ CloseRenderer
    BY <2>5 DEF SetRenderer, Render, CloseRenderer, bufferVars
  <2> QED  BY <2>2, <2>3, <2>4, <2>5 DEF FrameNext
<1> QED  BY <1>1, TypeCorrect, BuffersFit, PTL DEF FrameSpec, FrontUntouched

-----------------------------------------------------------------------------
(* The double buffer implements ScreenFeed: an update painted by the frame *)
(* buffer goroutine is received, a flip that swaps the screens is an       *)
(* observation, and everything else is invisible to the agent.             *)
THEOREM ImplementsFeed == FrameSpec => FeedSpec
<1>1. FrameInit => Feed!Init
  BY DEF FrameInit, Feed!Init, front, Screen
<1>2. TypeOK /\ ShownInv /\ TypeOK' /\ ShownInv' /\ [FrameNext]_frameVars
        => [Feed!Next]_Feed!vars
  <2> SUFFICES ASSUME TypeOK, ShownInv, TypeOK', ShownInv', [FrameNext]_frameVars
               PROVE  [Feed!Next]_Feed!vars
    OBVIOUS
  <2> USE DEF Feed!Next, Feed!vars
  <2>1. frontScreen # backScreen /\ frontScreen \in Screen /\ backScreen \in Screen
    BY DEF ShownInv, BufferInv, TypeOK
  <2>2. ASSUME NEW u \in Update, Maintain(u)
        PROVE  Feed!Receive(u)
    BY <2>1, <2>2 DEF Maintain, Feed!Receive, front, TypeOK
  <2>3. CASE FlipScreens
    <3>1. front' = back /\ back = received /\ received = front \o deferredUpdates
      BY <2>3 DEF FlipScreens, SwapScreens, ShownInv, BufferInv, front, back
    <3>2. front \in Seq(Update) /\ deferredUpdates \in Seq(Update)
      BY <2>1 DEF TypeOK, front
    <3>3. SubSeq(received, Len(front) + 1, Len(received)) = deferredUpdates
      <4>1. Len(received) = Len(front) + Len(deferredUpdates)
        BY <3>1, <3>2, ConcatProperties
      <4> QED  BY <3>1, <3>2, <4>1, SubSeqOfConcat2, ConcatProperties, LenProperties
    <3> QED
      BY <2>3, <3>1, <3>3 DEF FlipScreens, ReportUpdates, Feed!Observe
  <2>4. CASE Resume
    BY <2>1, <2>4 DEF Resume, front, TypeOK
  <2>5. CASE FlipNothing \/ SetRenderer \/ CloseRenderer \/ UNCHANGED frameVars
    BY <2>5
    DEF FlipNothing, SetRenderer, CloseRenderer, frameVars, bufferVars, front
  <2>6. ASSUME NEW close \in BOOLEAN, Render(close)
        PROVE  UNCHANGED Feed!vars
    BY <2>6 DEF Render, bufferVars, front
  <2> QED  BY <2>2, <2>3, <2>4, <2>5, <2>6 DEF FrameNext, Flip
<1> QED
  BY <1>1, <1>2, TypeCorrect, Shown, PTL DEF FrameSpec, FeedSpec, Feed!Spec
=============================================================================
