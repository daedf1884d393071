-------------------------- MODULE VNCSessionProofs --------------------------
(***************************************************************************)
(* Proofs about VNCSession, for every set of updates, every capacity and   *)
(* every choice of calls and faults.  A session implements the double      *)
(* buffer, so that the theorems of FrameBufferProofs hold of it.           *)
(***************************************************************************)
EXTENDS VNCSession, FrameBufferProofs, DataLemmas

(* Every step of a session is a step of its double buffer or leaves it     *)
(* alone.                                                                  *)
LEMMA StepImplements == SessionTypeOK /\ [Next]_vars => [FrameNext]_frameVars
<1> SUFFICES ASSUME SessionTypeOK, [Next]_vars
             PROVE  [FrameNext]_frameVars
  OBVIOUS
<1>1. CASE Connect
  BY <1>1
  DEF Connect, DialFails, DialRefused, DialSucceeds, SetUp, Publish, ConnectFails,
      ReceiveMessage, Enqueue, Rerequest, ConnectDone
<1>2. CASE MainLoop \/ Watcher \/ Listener \/ Server
  BY <1>2
  DEF MainLoop, ReadMessage, ReadFails, Watcher, WatcherTakes, WatcherReports,
      WatcherDone, Listener, ListenerTakes, ListenerStores,
      Server, ServerUpdates, ServerSends, ConnectionBreaks
<1>3. CASE TakeUpdate \/ FrameDone
  BY <1>3 DEF TakeUpdate, FrameDone
<1>4. CASE PaintUpdate
  BY <1>4 DEF PaintUpdate, FrameNext, SessionTypeOK
<1>5. CASE ResumeUpdates
  BY <1>5 DEF ResumeUpdates, FrameNext
<1>6. CASE Agent
  BY <1>6
  DEF Agent, StepBegins, StepFlips, StepFails, SetSubscriptionBegins,
      SetSubscriptionEnds, RenderCall, Close, FrameNext
<1>7. CASE UNCHANGED vars
  BY <1>7 DEF vars
<1> QED
  BY <1>1, <1>2, <1>3, <1>4, <1>5, <1>6, <1>7 DEF Next, Frame

-----------------------------------------------------------------------------
(* Types *)

LEMMA InitSessionType == Init => SessionTypeOK
<1> SUFFICES ASSUME Init
             PROVE  SessionTypeOK
  OBVIOUS
<1>1. TypeOK
  BY InitTypeOK DEF Init
<1>2. <<>> \in Seq(Update) /\ <<>> \in Seq(Message) /\ Len(<<>>) = 0
  BY EmptySeq
<1>3. subscription \in Nat /\ newSubscription \in Nat
  BY SessionAssumption DEF Init
<1>4. 0 <= QueueCap /\ 0 <= MaxWire
  BY SessionAssumption
<1> QED
  BY <1>1, <1>2, <1>3, <1>4 DEF Init, SessionTypeOK, None

(* The requests stay a natural number. *)
LEMMA RequestsTyped ==
  ASSUME SessionTypeOK, RequestSucceeds \/ RequestFails
  PROVE  requests' \in Nat
<1>1. \A n \in RequestCounts : n \in Nat
  BY DEF RequestCounts, RequestsOf, SessionTypeOK
<1> QED
  BY <1>1 DEF RequestSucceeds, RequestFails, SessionTypeOK

LEMMA StepSessionType == SessionTypeOK /\ [Next]_vars => SessionTypeOK'
<1> SUFFICES ASSUME SessionTypeOK, [Next]_vars
             PROVE  SessionTypeOK'
  OBVIOUS
<1>1. TypeOK'
  BY StepImplements, StepTypeOK DEF SessionTypeOK
<1> USE DEF SessionTypeOK, agentVars, connectVars, mainVars, updateVars,
            errorVars, netVars
<1>2. CASE DialFails
  BY <1>1, <1>2 DEF DialFails, SleepTarget
<1>3. CASE DialRefused \/ DialSucceeds \/ SetUp
  BY <1>1, <1>3 DEF DialRefused, DialSucceeds, SetUp
<1>4. CASE Publish
  <2>1. requests' \in Nat
    BY <1>4, RequestsTyped DEF Publish
  <2>2. conn' \in BOOLEAN /\ connectPc' \in {"select", "failed"}
          /\ (framePc' = "select" \/ framePc' = framePc)
    BY <1>4 DEF Publish
  <2> QED  BY <1>1, <1>4, <2>1, <2>2 DEF Publish
<1>5. CASE ConnectFails
  BY <1>1, <1>5 DEF ConnectFails, Autoclose, TryReport
<1>6. CASE ReceiveMessage
  BY <1>1, <1>6 DEF ReceiveMessage
<1>7. CASE Enqueue
  <2>1. updates' \in Seq(Update) /\ Len(updates') = Len(updates) + 1
    BY <1>7, AppendProperties DEF Enqueue, SendUpdate
  <2> QED
    BY <1>1, <1>7, <2>1, LenProperties, SessionAssumption DEF Enqueue, SendUpdate, HasRoom
<1>8. CASE Rerequest
  <2>1. requests' \in Nat /\ mgrError' \in BOOLEAN
    BY <1>8, RequestsTyped DEF Rerequest, RequestUpdate, TryReport
  <2> QED  BY <1>1, <1>8, <2>1 DEF Rerequest
<1>9. CASE ConnectDone
  BY <1>1, <1>9 DEF ConnectDone
<1>10. CASE ReadMessage
  <2>1. Head(wire) \in Update \cup {Bell} /\ wire' \in Seq(Message)
          /\ Len(wire') = Len(wire) - 1
    BY <1>10, HeadTailProperties DEF ReadMessage, Message
  <2> QED  BY <1>1, <1>10, <2>1, LenProperties, SessionAssumption DEF ReadMessage
<1>11. CASE ReadFails
  BY <1>1, <1>11 DEF ReadFails, ReportError
<1>12. CASE TakeUpdate
  <2>1. Head(updates) \in Update /\ updates' \in Seq(Update)
          /\ Len(updates') = Len(updates) - 1
    BY <1>12, HeadTailProperties DEF TakeUpdate
  <2> QED  BY <1>1, <1>12, <2>1, LenProperties, SessionAssumption DEF TakeUpdate
<1>13. CASE PaintUpdate \/ FrameDone
  BY <1>1, <1>13 DEF PaintUpdate, FrameDone
<1>14. CASE ResumeUpdates
  <2>1. requests' \in Nat /\ mgrError' \in BOOLEAN
    BY <1>14, RequestsTyped DEF ResumeUpdates, RestartRequests, RequestUpdate, TryReport
  <2> QED  BY <1>1, <1>14, <2>1 DEF ResumeUpdates
<1>15. CASE Watcher
  <2>1. CASE WatcherTakes
    <3>1. errorCh' \in BOOLEAN /\ watchPc' = "send"
      BY <2>1, Zenon DEF WatcherTakes
    <3>2. UNCHANGED <<conn, closed, agentVars, connectVars, mainVars, updateVars,
                      err, mgrError, listenPc, netVars, requests>>
      BY <2>1, Zenon DEF WatcherTakes
    <3> QED  BY <1>1, <3>1, <3>2
  <2>2. CASE WatcherReports
    BY <1>1, <2>2 DEF WatcherReports
  <2>3. CASE WatcherDone
    BY <1>1, <2>3 DEF WatcherDone
  <2> QED  BY <1>15, <2>1, <2>2, <2>3 DEF Watcher
<1>16. CASE Listener
  <2>1. CASE ListenerTakes
    <3>1. mgrError' \in BOOLEAN /\ listenPc' = "store"
      BY <2>1, Zenon DEF ListenerTakes
    <3>2. UNCHANGED <<conn, closed, agentVars, connectVars, mainVars, updateVars,
                      err, errorCh, watchPc, netVars, requests>>
      BY <2>1, Zenon DEF ListenerTakes
    <3> QED  BY <1>1, <3>1, <3>2
  <2>2. CASE ListenerStores
    BY <1>1, <2>2 DEF ListenerStores
  <2> QED  BY <1>16, <2>1, <2>2 DEF Listener
<1>17. CASE StepBegins \/ StepFlips \/ StepFails
  BY <1>1, <1>17 DEF StepBegins, StepFlips, StepFails
<1>18. CASE SetSubscriptionBegins \/ SetSubscriptionEnds
  <2>1. CASE SetSubscriptionBegins
    BY <1>1, <2>1, SessionAssumption DEF SetSubscriptionBegins
  <2>2. CASE SetSubscriptionEnds
    BY <1>1, <2>2 DEF SetSubscriptionEnds
  <2> QED  BY <1>18, <2>1, <2>2
<1>19. CASE RenderCall \/ Close
  <2>1. CASE RenderCall
    BY <1>1, <2>1 DEF RenderCall
  <2>2. CASE Close
    BY <1>1, <2>2 DEF Close
  <2> QED  BY <1>19, <2>1, <2>2
<1>20. CASE ServerUpdates
  <2>1. PICK u \in Update : wire' = Append(wire, u) /\ sent' = Append(sent, u)
    BY <1>20 DEF ServerUpdates
  <2>2. wire' \in Seq(Message) /\ Len(wire') = Len(wire) + 1 /\ sent' \in Seq(Update)
    BY <2>1, AppendProperties DEF Message
  <2>3. requests' \in Nat
    BY <1>20 DEF ServerUpdates
  <2> QED
    BY <1>1, <1>20, <2>2, <2>3, LenProperties, SessionAssumption DEF ServerUpdates
<1>21. ASSUME NEW msg \in {Bell, Malformed}, ServerSends(msg)
       PROVE  SessionTypeOK'
  <2>1. wire' \in Seq(Message) /\ Len(wire') = Len(wire) + 1
    BY <1>21, AppendProperties DEF ServerSends, Message
  <2> QED
    BY <1>1, <1>21, <2>1, LenProperties, SessionAssumption DEF ServerSends
<1>22. CASE ConnectionBreaks
  BY <1>1, <1>22 DEF ConnectionBreaks
<1>23. CASE UNCHANGED vars
  BY <1>1, <1>23 DEF vars
<1> HIDE DEF SessionTypeOK
<1> QED
  BY <1>2, <1>3, <1>4, <1>5, <1>6, <1>7, <1>8, <1>9, <1>10, <1>11, <1>12, <1>13,
     <1>14, <1>15, <1>16, <1>17, <1>18, <1>19, <1>20, <1>21, <1>22, <1>23
  DEF Next, Connect, MainLoop, Frame, Agent, Server

(* All variables of a session keep their types, and a goroutine that has a *)
(* message in hand has one of the right kind.                              *)
THEOREM SessionTypeCorrect == Spec => []SessionTypeOK
<1> QED  BY InitSessionType, StepSessionType, PTL DEF Spec

(* A session implements its double buffer.                                 *)
THEOREM ImplementsFrameBuffer == Spec => FrameSpec
<1>1. Init => FrameInit
  BY DEF Init
<1> QED
  BY <1>1, StepImplements, SessionTypeCorrect, PTL DEF Spec, FrameSpec

(* What FrameBufferProofs shows holds of a session: the double buffer      *)
(* invariant (gymvnc.go:266-310) and what the agent is handed.             *)
THEOREM SessionBuffersFit == Spec => []BufferInv /\ []ReportedIsShown
<1> QED  BY ImplementsFrameBuffer, BuffersFit, HandedWhatIsShown, PTL

-----------------------------------------------------------------------------
(* The life of the socket *)

(* Where connect is, whether it has published the connection, and the      *)
(* state of the socket go together.                                        *)
ConnectionInv ==
  /\ connectPc \in {"dial", "setup", "publish", "failed"} => ~conn
  /\ connectPc \in {"select", "enqueue", "rerequest"} => conn
  /\ connectPc = "dial" => sock = "none"
  /\ connectPc = "done" /\ ~conn => sock # "open"
  /\ closed /\ conn => sock = "closed"
  /\ conn => sock # "none"
  /\ connectPc \in {"setup", "publish"} => sock # "none"
  /\ mainPc # "none" => sock # "none"

LEMMA InitConnection == Init => ConnectionInv
BY DEF Init, ConnectionInv

LEMMA StepConnection == SessionTypeOK /\ ConnectionInv /\ [Next]_vars => ConnectionInv'
<1> SUFFICES ASSUME SessionTypeOK, ConnectionInv, [Next]_vars
             PROVE  ConnectionInv'
  OBVIOUS
<1> USE DEF ConnectionInv
<1>1. CASE DialFails \/ DialRefused \/ DialSucceeds
  BY <1>1 DEF DialFails, DialRefused, DialSucceeds, netVars, mainVars
<1>2. CASE SetUp
  BY <1>2 DEF SetUp, netVars, mainVars
<1>3. CASE Publish
  BY <1>3 DEF Publish, RequestSucceeds, WriteSucceeds, ClosedMeanwhile, netVars, mainVars
<1>4. CASE ConnectFails
  BY <1>4 DEF ConnectFails, Autoclose, mainVars
<1>5. CASE ReceiveMessage \/ Enqueue \/ Rerequest \/ ConnectDone
  BY <1>5 DEF ReceiveMessage, Enqueue, Rerequest, ConnectDone, netVars, mainVars
<1>6. CASE MainLoop
  BY <1>6 DEF MainLoop, ReadMessage, ReadFails, connectVars
<1>7. CASE Frame \/ ResumeUpdates
  BY <1>7
  DEF Frame, TakeUpdate, PaintUpdate, FrameDone, ResumeUpdates, connectVars,
      mainVars, netVars
<1>8. CASE Watcher \/ Listener
  BY <1>8
  DEF Watcher, WatcherTakes, WatcherReports, WatcherDone, Listener, ListenerTakes,
      ListenerStores, connectVars, mainVars, netVars
<1>9. CASE Agent
  BY <1>9
  DEF Agent, StepBegins, StepFlips, StepFails, SetSubscriptionBegins,
      SetSubscriptionEnds, RenderCall, Close, connectVars, mainVars, netVars
<1>10. CASE Server
  BY <1>10
  DEF Server, ServerUpdates, ServerSends, ConnectionBreaks, connectVars, mainVars
<1>11. CASE UNCHANGED vars
  BY <1>11 DEF vars, connectVars, mainVars, netVars
<1> QED
  BY <1>1, <1>2, <1>3, <1>4, <1>5, <1>6, <1>7, <1>8, <1>9, <1>10, <1>11
  DEF Next, Connect

(* No socket is leaked: one that nobody knows of is closed when connect is *)
(* over, and one that was published is closed by Close                     *)
(* (gymvnc.go:168-189, 460-469, 533-551).                                  *)
THEOREM NoSocketLeaked == Spec => []SocketReleased
<1>1. ConnectionInv => SocketReleased
  BY DEF ConnectionInv, SocketReleased
<1> QED
  BY <1>1, InitConnection, StepConnection, SessionTypeCorrect, PTL DEF Spec

-----------------------------------------------------------------------------
(* Errors *)

LEMMA StepFailure ==
  SessionTypeOK /\ FailureReachesAgent /\ [Next]_vars => FailureReachesAgent'
<1> SUFFICES ASSUME SessionTypeOK, FailureReachesAgent, [Next]_vars
             PROVE  FailureReachesAgent'
  OBVIOUS
<1> USE DEF FailureReachesAgent, ErrorUnderway
<1>1. CASE DialFails \/ DialRefused \/ DialSucceeds \/ SetUp \/ Publish
  BY <1>1
  DEF DialFails, DialRefused, DialSucceeds, SetUp, Publish, errorVars, mainVars
<1>2. CASE ConnectFails
  BY <1>2 DEF ConnectFails, TryReport, mainVars
<1>3. CASE ReceiveMessage \/ Enqueue \/ Rerequest \/ ConnectDone
  BY <1>3
  DEF ReceiveMessage, Enqueue, Rerequest, RequestUpdate, TryReport, ConnectDone,
      errorVars, mainVars
<1>4. CASE MainLoop
  BY <1>4 DEF MainLoop, ReadMessage, ReadFails, ReportError, errorVars, connectVars
<1>5. CASE Frame \/ ResumeUpdates
  BY <1>5
  DEF Frame, TakeUpdate, PaintUpdate, FrameDone, ResumeUpdates, RestartRequests,
      RequestUpdate, TryReport, connectVars, mainVars, errorVars
<1>6. CASE WatcherTakes
  BY <1>6 DEF WatcherTakes, connectVars, mainVars
<1>7. CASE WatcherReports \/ WatcherDone
  BY <1>7 DEF WatcherReports, WatcherDone, connectVars, mainVars
<1>8. CASE Listener
  BY <1>8 DEF Listener, ListenerTakes, ListenerStores, connectVars, mainVars
<1>9. CASE Agent
  BY <1>9
  DEF Agent, StepBegins, StepFlips, StepFails, SetSubscriptionBegins,
      SetSubscriptionEnds, RenderCall, Close, connectVars, mainVars, errorVars
<1>10. CASE Server
  BY <1>10
  DEF Server, ServerUpdates, ServerSends, ConnectionBreaks, connectVars,
      mainVars, errorVars
<1>11. CASE UNCHANGED vars
  BY <1>11 DEF vars, connectVars, mainVars, errorVars
<1> QED
  BY <1>1, <1>2, <1>3, <1>4, <1>5, <1>6, <1>7, <1>8, <1>9, <1>10, <1>11
  DEF Next, Connect, Watcher

(* While the session is not closed, the error of a dead connect or         *)
(* mainLoop is on its way to the agent or has arrived, however many errors *)
(* were dropped (gymvnc.go:148-165, 471-477, 576-582).                     *)
THEOREM NoFailureLost == Spec => []FailureReachesAgent
<1>1. Init => FailureReachesAgent
  BY DEF Init, FailureReachesAgent
<1> QED
  BY <1>1, StepFailure, SessionTypeCorrect, PTL DEF Spec

-----------------------------------------------------------------------------
(* The request cycle *)

(* While nobody calls SetSubscription, requestUpdate reads what is there.  *)
StableSubscription == userPc # "subscribe" /\ newSubscription = subscription

(* A living session whose cycle does not run is paused. *)
CycleInv == Alive => CycleRuns \/ pauseUpdates

(* Without SetSubscription a request that succeeds asks for something. *)
LEMMA RequestsSomething ==
  ASSUME SessionTypeOK, StableSubscription, RequestSucceeds, ~broken
  PROVE  requests' > 0
<1>1. \A n \in RequestCounts : n \in Nat /\ n > 0
  BY DEF StableSubscription, RequestCounts, RequestsOf, SessionTypeOK
<1> QED
  BY <1>1 DEF RequestSucceeds, SessionTypeOK

(* What requestUpdate leaves behind: a request, or no living session. *)
LEMMA RequestKeepsCycle ==
  ASSUME SessionTypeOK, StableSubscription, RequestUpdate, UNCHANGED netVars
  PROVE  requests' > 0 \/ sock' # "open" \/ broken'
BY RequestsSomething
DEF RequestUpdate, RequestFails, WriteFails, netVars

LEMMA StepStable ==
  "SetSubscription" \notin Calls /\ StableSubscription /\ [Next]_vars
    => StableSubscription'
<1> SUFFICES ASSUME "SetSubscription" \notin Calls, StableSubscription, [Next]_vars
             PROVE  StableSubscription'
  OBVIOUS
<1> USE DEF StableSubscription, agentVars
<1>1. CASE Connect
  BY <1>1
  DEF Connect, DialFails, DialRefused, DialSucceeds, SetUp, Publish, ConnectFails,
      ReceiveMessage, Enqueue, Rerequest, ConnectDone
<1>2. CASE MainLoop \/ Frame \/ ResumeUpdates
  BY <1>2
  DEF MainLoop, ReadMessage, ReadFails, Frame, TakeUpdate, PaintUpdate, FrameDone,
      ResumeUpdates
<1>3. CASE Watcher \/ Listener
  BY <1>3
  DEF Watcher, WatcherTakes, WatcherReports, WatcherDone, Listener, ListenerTakes,
      ListenerStores
<1>4. CASE Agent
  BY <1>4
  DEF Agent, StepBegins, StepFlips, StepFails, SetSubscriptionBegins,
      SetSubscriptionEnds, RenderCall, Close
<1>5. CASE Server
  BY <1>5 DEF Server, ServerUpdates, ServerSends, ConnectionBreaks
<1>6. CASE UNCHANGED vars
  BY <1>6 DEF vars
<1> QED  BY <1>1, <1>2, <1>3, <1>4, <1>5, <1>6 DEF Next

LEMMA StepCycle ==
  SessionTypeOK /\ StableSubscription /\ CycleInv /\ [Next]_vars => CycleInv'
<1> SUFFICES ASSUME SessionTypeOK, StableSubscription, CycleInv, [Next]_vars, Alive'
             PROVE  CycleRuns' \/ pauseUpdates'
  BY DEF CycleInv
<1> USE DEF CycleInv, Alive
<1>1. CASE DialFails \/ DialRefused \/ DialSucceeds \/ SetUp \/ ConnectFails \/ ConnectDone
  BY <1>1
  DEF DialFails, DialRefused, DialSucceeds, SetUp, ConnectFails, ConnectDone
<1>2. CASE Publish
  <2>1. RequestSucceeds /\ ~broken
    BY <1>2 DEF Publish, netVars
  <2> QED  BY <2>1, RequestsSomething DEF CycleRuns
<1>3. CASE ReceiveMessage
  BY <1>3
  DEF ReceiveMessage, CycleRuns, netVars, frameVars, bufferVars
<1>4. CASE Enqueue
  BY <1>4 DEF Enqueue, CycleRuns
<1>5. CASE Rerequest
  <2>1. CASE pauseUpdates
    BY <1>5, <2>1 DEF Rerequest, frameVars, bufferVars
  <2>2. CASE ~pauseUpdates
    BY <1>5, <2>2, RequestKeepsCycle DEF Rerequest, CycleRuns
  <2> QED  BY <2>1, <2>2
<1>6. CASE ReadMessage
  <2>1. Alive /\ pauseUpdates' = pauseUpdates
    BY <1>6 DEF ReadMessage, connectVars, frameVars, bufferVars
  <2>2. CASE Head(wire) \in Update
    BY <1>6, <2>2 DEF ReadMessage, CycleRuns
  <2>3. CASE Head(wire) \notin Update
    <3>1. ASSUME NEW i \in DOMAIN wire, wire[i] \in Update
          PROVE  \E j \in DOMAIN wire' : wire'[j] \in Update
      <4>1. wire \in Seq(Message) /\ wire # <<>> /\ wire' = Tail(wire)
        BY <1>6 DEF ReadMessage, SessionTypeOK
      <4>2. i \in 1..Len(wire) /\ i # 1
        BY <2>3, <3>1, <4>1
      <4>3. i - 1 \in DOMAIN wire' /\ wire'[i - 1] = wire[i]
        BY <4>1, <4>2
      <4> QED  BY <3>1, <4>3
    <3> QED
      BY <1>6, <2>1, <3>1 DEF ReadMessage, CycleRuns, connectVars
  <2> QED  BY <2>2, <2>3
<1>7. CASE ReadFails
  BY <1>7 DEF ReadFails
<1>8. CASE Frame
  BY <1>8
  DEF Frame, TakeUpdate, PaintUpdate, Maintain, FrameDone, CycleRuns, connectVars,
      mainVars, netVars, frameVars, bufferVars
<1>9. CASE ResumeUpdates
  <2>1. CASE pauseUpdates
    BY <1>9, <2>1, RequestKeepsCycle DEF ResumeUpdates, RestartRequests, CycleRuns
  <2>2. CASE ~pauseUpdates
    BY <1>9, <2>2
    DEF ResumeUpdates, RestartRequests, CycleRuns, connectVars, mainVars, netVars
  <2> QED  BY <2>1, <2>2
<1>10. CASE Watcher \/ Listener
  BY <1>10
  DEF Watcher, WatcherTakes, WatcherReports, WatcherDone, Listener, ListenerTakes,
      ListenerStores, CycleRuns, connectVars, mainVars, netVars, frameVars, bufferVars
<1>11. CASE Agent
  BY <1>11
  DEF Agent, StepBegins, StepFlips, Flip, FlipScreens, FlipNothing, StepFails,
      SetSubscriptionBegins, SetSubscriptionEnds, RenderCall, SetRenderer, Render,
      Close, CycleRuns, connectVars, mainVars, netVars, frameVars, bufferVars
<1>12. CASE ServerUpdates
  <2>1. PICK u \in Update : wire' = Append(wire, u)
    BY <1>12 DEF ServerUpdates
  <2>2. Len(wire) + 1 \in DOMAIN wire' /\ wire'[Len(wire) + 1] = u
    BY <2>1 DEF SessionTypeOK
  <2> QED  BY <2>1, <2>2 DEF CycleRuns
<1>13. ASSUME NEW msg, ServerSends(msg)
       PROVE  CycleRuns' \/ pauseUpdates'
  <2>1. \A i \in DOMAIN wire : i \in DOMAIN wire' /\ wire'[i] = wire[i]
    BY <1>13 DEF ServerSends, SessionTypeOK
  <2> QED
    BY <1>13, <2>1
    DEF ServerSends, CycleRuns, connectVars, mainVars, frameVars, bufferVars
<1>14. CASE ConnectionBreaks
  BY <1>14 DEF ConnectionBreaks
<1>15. CASE UNCHANGED vars
  BY <1>15
  DEF vars, CycleRuns, connectVars, mainVars, netVars, frameVars, bufferVars
<1> QED
  BY <1>1, <1>2, <1>3, <1>4, <1>5, <1>6, <1>7, <1>8, <1>9, <1>10, <1>11, <1>12,
     <1>13, <1>14, <1>15
  DEF Next, Connect, MainLoop, Server

(* If SetSubscription is not called, the request cycle of a living session *)
(* never dies, whatever is subscribed to (gymvnc.go:269-287, 373-376,      *)
(* 572-584).                                                               *)
THEOREM CycleSurvives ==
  ASSUME "SetSubscription" \notin Calls
  PROVE  Spec => []CycleNeverDies
<1>1. Init => StableSubscription /\ CycleInv
  BY DEF Init, StableSubscription, CycleInv, Alive
<1>2. CycleInv /\ BufferInv => CycleNeverDies
  BY DEF CycleInv, BufferInv, CycleNeverDies
<1>3. StableSubscription /\ [Next]_vars => StableSubscription'
  BY StepStable
<1> QED
  BY <1>1, <1>2, <1>3, StepCycle, SessionTypeCorrect, SessionBuffersFit, PTL DEF Spec
-----------------------------------------------------------------------------
(* Closing and giving up *)

(* Closing the session closes its window, and no window is opened after    *)
(* that (gymvnc.go:182-186).                                               *)
THEOREM WindowsReleased == Spec => []WindowReleased
<1>1. Init => WindowReleased
  BY DEF Init, FrameInit, WindowReleased
<1>2. SessionTypeOK /\ WindowReleased /\ [Next]_vars => WindowReleased'
  <2> SUFFICES ASSUME SessionTypeOK, WindowReleased, [Next]_vars
               PROVE  WindowReleased'
    OBVIOUS
  <2> USE DEF WindowReleased
  <2>1. CASE Connect \/ MainLoop \/ Watcher \/ Listener \/ Server
    BY <2>1
    DEF Connect, DialFails, DialRefused, DialSucceeds, SetUp, Publish, ConnectFails,
        ReceiveMessage, Enqueue, Rerequest, ConnectDone, MainLoop, ReadMessage,
        ReadFails, Watcher, WatcherTakes, WatcherReports, WatcherDone, Listener,
        ListenerTakes, ListenerStores, Server, ServerUpdates, ServerSends,
        ConnectionBreaks, frameVars, windowVars
  <2>2. CASE Frame \/ ResumeUpdates
    BY <2>2
    DEF Frame, TakeUpdate, PaintUpdate, Maintain, FrameDone, ResumeUpdates, Resume,
        frameVars, windowVars
  <2>3. CASE StepBegins \/ StepFlips \/ StepFails \/ SetSubscriptionBegins
             \/ SetSubscriptionEnds
    BY <2>3
    DEF StepBegins, StepFlips, Flip, FlipScreens, FlipNothing, StepFails,
        SetSubscriptionBegins, SetSubscriptionEnds, frameVars, windowVars
  <2>4. CASE RenderCall
    BY <2>4 DEF RenderCall
  <2>5. CASE Close
    BY <2>5 DEF Close, CloseRenderer
  <2>6. CASE UNCHANGED vars
    BY <2>6 DEF vars, frameVars, windowVars
  <2> QED  BY <2>1, <2>2, <2>3, <2>4, <2>5, <2>6 DEF Next, Agent
<1> QED  BY <1>1, <1>2, SessionTypeCorrect, PTL DEF Spec

(* connect stops retrying within 30 seconds of StartTimeout, and not       *)
(* before it unless it was refused (gymvnc.go:441-453).                    *)
THEOREM RetriesInTime == Spec => []RetryBudget
<1>1. Init => RetryBudget
  BY SessionAssumption DEF Init, RetryBudget
<1>2. SessionTypeOK /\ ConnectionInv /\ RetryBudget /\ [Next]_vars => RetryBudget'
  <2> SUFFICES ASSUME SessionTypeOK, ConnectionInv, RetryBudget, [Next]_vars
               PROVE  RetryBudget'
    OBVIOUS
  <2> USE DEF RetryBudget
  <2>1. CASE DialFails
    <3>1. SleepTarget(tries) \in Nat /\ SleepTarget(tries) <= 30
      BY DEF SleepTarget, SessionTypeOK
    <3>2. CASE StartTimeout > 0 /\ totalSleep < StartTimeout
      BY <2>1, <3>1, <3>2, SessionAssumption DEF DialFails, SessionTypeOK
    <3>3. CASE ~(StartTimeout > 0 /\ totalSleep < StartTimeout)
      BY <2>1, <3>3, SessionAssumption DEF DialFails, SessionTypeOK
    <3> QED  BY <3>2, <3>3
  <2>2. CASE DialRefused \/ DialSucceeds \/ SetUp \/ Publish
    BY <2>2
    DEF DialRefused, DialSucceeds, SetUp, Publish, ConnectionInv, netVars
  <2>3. CASE ConnectFails \/ ReceiveMessage \/ Enqueue \/ Rerequest \/ ConnectDone
    BY <2>3
    DEF ConnectFails, Autoclose, ReceiveMessage, Enqueue, Rerequest, ConnectDone, netVars
  <2>4. CASE MainLoop
    BY <2>4 DEF MainLoop, ReadMessage, ReadFails, connectVars
  <2>5. CASE Frame \/ ResumeUpdates \/ Watcher \/ Listener
    BY <2>5
    DEF Frame, TakeUpdate, PaintUpdate, FrameDone, ResumeUpdates, Watcher,
        WatcherTakes, WatcherReports, WatcherDone, Listener, ListenerTakes,
        ListenerStores, connectVars, netVars
  <2>6. CASE Agent
    BY <2>6
    DEF Agent, StepBegins, StepFlips, StepFails, SetSubscriptionBegins,
        SetSubscriptionEnds, RenderCall, Close, connectVars, netVars
  <2>7. CASE Server
    BY <2>7 DEF Server, ServerUpdates, ServerSends, ConnectionBreaks, connectVars
  <2>8. CASE UNCHANGED vars
    BY <2>8 DEF vars, connectVars, netVars
  <2> QED
    BY <2>1, <2>2, <2>3, <2>4, <2>5, <2>6, <2>7, <2>8 DEF Next, Connect
<1> QED
  BY <1>1, <1>2, InitConnection, StepConnection, SessionTypeCorrect, PTL DEF Spec
-----------------------------------------------------------------------------
(* The way of the updates *)

LEMMA InHandTyped == \A msg : InHand(msg) \in Seq(Update)
<1> TAKE msg
<1>1. <<>> \in Seq(Update)
  BY EmptySeq
<1> QED  BY <1>1 DEF InHand

(* The updates of each message, for UpdatesOf to join. *)
Hands(w) == [i \in DOMAIN w |-> InHand(w[i])]

LEMMA HandsTyped ==
  ASSUME NEW w \in Seq(Message)
  PROVE  Hands(w) \in Seq(Seq(Update)) /\ Len(Hands(w)) = Len(w)
<1>1. DOMAIN w = 1..Len(w) /\ Len(w) \in Nat
  BY LenProperties
<1> QED  BY <1>1, InHandTyped DEF Hands

LEMMA UpdatesTyped == \A w \in Seq(Message) : UpdatesOf(w) \in Seq(Update)
BY HandsTyped, FlattenTyped DEF UpdatesOf, Hands

LEMMA UpdatesAppend ==
  ASSUME NEW w \in Seq(Message), NEW msg \in Message
  PROVE  UpdatesOf(Append(w, msg)) = UpdatesOf(w) \o InHand(msg)
<1>1. Append(w, msg) \in Seq(Message)
  BY AppendProperties
<1>2. Hands(Append(w, msg)) = Append(Hands(w), InHand(msg))
  <2> DEFINE s == Hands(Append(w, msg))
             t == Append(Hands(w), InHand(msg))
  <2>1. s \in Seq(Seq(Update)) /\ Len(s) = Len(w) + 1
    BY <1>1, HandsTyped, AppendProperties
  <2>2. t \in Seq(Seq(Update)) /\ Len(t) = Len(w) + 1
    BY HandsTyped, InHandTyped, AppendProperties
  <2>3. ASSUME NEW i \in 1..Len(w) + 1
        PROVE  s[i] = t[i]
    <3>1. Len(w) \in Nat /\ DOMAIN w = 1..Len(w) /\ Len(Append(w, msg)) = Len(w) + 1
            /\ DOMAIN Append(w, msg) = 1..Len(w) + 1
      BY <1>1, LenProperties, AppendProperties
    <3>2. s[i] = InHand(Append(w, msg)[i])
      BY <3>1 DEF Hands
    <3>3. CASE i = Len(w) + 1
      <4>1. Append(w, msg)[i] = msg
        BY <3>3, AppendProperties
      <4>2. t[i] = InHand(msg)
        BY <3>3, HandsTyped, InHandTyped, AppendProperties
      <4> QED  BY <3>2, <4>1, <4>2
    <3>4. CASE i \in 1..Len(w)
      <4>1. Append(w, msg)[i] = w[i]
        BY <3>4, AppendProperties
      <4>2. t[i] = Hands(w)[i]
        BY <3>4, HandsTyped, InHandTyped, AppendProperties
      <4>3. Hands(w)[i] = InHand(w[i])
        BY <3>1, <3>4 DEF Hands
      <4> QED  BY <3>2, <4>1, <4>2, <4>3
    <3>5. i = Len(w) + 1 \/ i \in 1..Len(w)
      BY <3>1
    <3> HIDE DEF s, t
    <3> QED  BY <3>3, <3>4, <3>5
  <2> HIDE DEF s, t
  <2>4. s = t
    BY <2>1, <2>2, <2>3, SeqEqual
  <2> QED  BY <2>4 DEF s, t
<1>3. FlattenSeq(Append(Hands(w), InHand(msg))) = FlattenSeq(Hands(w)) \o InHand(msg)
  BY HandsTyped, InHandTyped, FlattenAppend
<1> QED  BY <1>2, <1>3 DEF UpdatesOf, Hands

LEMMA UpdatesFirst ==
  ASSUME NEW w \in Seq(Message), w # <<>>
  PROVE  UpdatesOf(w) = InHand(Head(w)) \o UpdatesOf(Tail(w))
<1>1. /\ Tail(w) \in Seq(Message) /\ Len(Tail(w)) = Len(w) - 1 /\ Len(w) \in Nat \ {0}
      /\ \A i \in 1..Len(Tail(w)) : Tail(w)[i] = w[i + 1]
      /\ DOMAIN w = 1..Len(w) /\ DOMAIN Tail(w) = 1..Len(Tail(w)) /\ Head(w) = w[1]
  BY HeadTailProperties, LenProperties, EmptySeq
<1>2. Hands(w) \in Seq(Seq(Update)) /\ Len(Hands(w)) = Len(w) /\ Hands(w) # <<>>
  BY <1>1, HandsTyped, EmptySeq
<1>3. Head(Hands(w)) = InHand(Head(w))
  <2>1. Head(Hands(w)) = Hands(w)[1] /\ 1 \in DOMAIN w
    BY <1>1, <1>2
  <2> QED  BY <1>1, <2>1 DEF Hands
<1>4. Tail(Hands(w)) = Hands(Tail(w))
  <2> DEFINE s == Tail(Hands(w))
             t == Hands(Tail(w))
  <2>1. /\ s \in Seq(Seq(Update)) /\ Len(s) = Len(w) - 1
        /\ \A i \in 1..Len(s) : s[i] = Hands(w)[i + 1]
    BY <1>2, HeadTailProperties
  <2>2. t \in Seq(Seq(Update)) /\ Len(t) = Len(w) - 1
    BY <1>1, HandsTyped
  <2>3. ASSUME NEW i \in 1..Len(s)
        PROVE  s[i] = t[i]
    <3>1. i \in 1..Len(Tail(w)) /\ i + 1 \in DOMAIN w
      BY <1>1, <2>1
    <3>2. t[i] = InHand(Tail(w)[i]) /\ Hands(w)[i + 1] = InHand(w[i + 1])
      BY <1>1, <3>1 DEF Hands
    <3> QED  BY <1>1, <2>1, <3>1, <3>2
  <2> HIDE DEF s, t
  <2>4. s = t
    BY <2>1, <2>2, <2>3, SeqEqual
  <2> QED  BY <2>4 DEF s, t
<1>5. FlattenSeq(Hands(w)) = Head(Hands(w)) \o FlattenSeq(Tail(Hands(w)))
  BY <1>2, FlattenFirst
<1> QED  BY <1>3, <1>4, <1>5 DEF UpdatesOf, Hands

LEMMA ConcatRegroups ==
  \A s, t, u \in Seq(Update) : (s \o t) \o u = s \o (t \o u)
BY ConcatAssociative

(* The shape of InTransit, and how it is regrouped when a message moves    *)
(* from one place to the next.                                             *)
Line(a, b, c, d, e) == a \o b \o c \o d \o e

LEMMA ConcatTyped == \A s, t \in Seq(Update) : s \o t \in Seq(Update)
BY ConcatProperties

LEMMA ConcatEmpty ==
  <<>> \in Seq(Update) /\ \A s \in Seq(Update) : s \o <<>> = s /\ <<>> \o s = s
BY EmptySeq, ConcatEmptySeq

LEMMA LineTyped ==
  \A a, b, c, d, e \in Seq(Update) : Line(a, b, c, d, e) \in Seq(Update)
BY ConcatTyped, Zenon DEF Line

LEMMA LineReceives ==
  \A a, b, m, e \in Seq(Update) : Line(a, b, <<>>, m, e) = Line(a, b, m, <<>>, e)
<1> TAKE a, b, m, e \in Seq(Update)
<1>1. a \o b \in Seq(Update) /\ a \o b \o m \in Seq(Update)
  BY ConcatTyped, Zenon
<1>2. a \o b \o <<>> = a \o b /\ a \o b \o m \o <<>> = a \o b \o m
  BY <1>1, ConcatEmpty, Zenon
<1> QED  BY <1>2, Zenon DEF Line

LEMMA LineEnqueues ==
  \A a, b, m, d, e \in Seq(Update) : Line(a, b, m, d, e) = Line(a, b \o m, <<>>, d, e)
<1> TAKE a, b, m, d, e \in Seq(Update)
<1>1. b \o m \in Seq(Update) /\ a \o (b \o m) \in Seq(Update)
  BY ConcatTyped, Zenon
<1>2. a \o (b \o m) \o <<>> = a \o (b \o m)
  BY <1>1, ConcatEmpty, Zenon
<1>3. a \o b \o m = a \o (b \o m)
  BY ConcatRegroups, Zenon
<1> QED  BY <1>2, <1>3, Zenon DEF Line

LEMMA LineReads ==
  \A a, b, c, m, e \in Seq(Update) : Line(a, b, c, <<>>, m \o e) = Line(a, b, c, m, e)
<1> TAKE a, b, c, m, e \in Seq(Update)
<1> DEFINE x == a \o b \o c
<1>1. x \in Seq(Update)
  <2>1. a \o b \in Seq(Update)
    BY ConcatTyped, Zenon
  <2> QED  BY <2>1, ConcatTyped, Zenon
<1>2. Line(a, b, c, <<>>, m \o e) = x \o <<>> \o (m \o e)
  BY Zenon DEF Line
<1>3. Line(a, b, c, m, e) = x \o m \o e
  BY Zenon DEF Line
<1> HIDE DEF x
<1>4. x \o <<>> = x
  BY <1>1, ConcatEmpty, Zenon
<1>5. (x \o m) \o e = x \o (m \o e)
  BY <1>1, ConcatRegroups, Zenon
<1> QED  BY <1>2, <1>3, <1>4, <1>5

LEMMA LineTakes ==
  \A m, b, c, d, e \in Seq(Update) : Line(<<>>, m \o b, c, d, e) = Line(m, b, c, d, e)
<1> TAKE m, b, c, d, e \in Seq(Update)
<1>1. m \o b \in Seq(Update)
  BY ConcatTyped, Zenon
<1>2. <<>> \o (m \o b) = m \o b
  BY <1>1, ConcatEmpty, Zenon
<1> QED  BY <1>2, Zenon DEF Line

LEMMA LinePaints ==
  \A m, b, c, d, e \in Seq(Update) : Line(m, b, c, d, e) = m \o Line(<<>>, b, c, d, e)
<1> TAKE m, b, c, d, e \in Seq(Update)
<1>1. b \o c \in Seq(Update) /\ b \o c \o d \in Seq(Update)
  BY ConcatTyped, Zenon
<1>2. m \o b \o c = m \o (b \o c) /\ <<>> \o b = b
  <2>1. m \o b \o c = m \o (b \o c)
    BY ConcatRegroups, Zenon
  <2>2. <<>> \o b = b
    BY ConcatEmpty, Zenon
  <2> QED  BY <2>1, <2>2
<1>3. m \o (b \o c) \o d = m \o (b \o c \o d)
  <2>1. \A x \in Seq(Update) : m \o x \o d = m \o (x \o d)
    BY ConcatRegroups, Zenon
  <2> QED  BY <1>1, <2>1, Zenon
<1>4. m \o (b \o c \o d) \o e = m \o (b \o c \o d \o e)
  <2>1. \A x \in Seq(Update) : m \o x \o e = m \o (x \o e)
    BY ConcatRegroups, Zenon
  <2> QED  BY <1>1, <2>1, Zenon
<1> QED  BY <1>2, <1>3, <1>4, Zenon DEF Line

LEMMA LineGrows ==
  \A a, b, c, d, e, m \in Seq(Update) : Line(a, b, c, d, e \o m) = Line(a, b, c, d, e) \o m
<1> TAKE a, b, c, d, e, m \in Seq(Update)
<1> DEFINE x == a \o b \o c \o d
<1>1. x \in Seq(Update)
  <2>1. a \o b \in Seq(Update) /\ a \o b \o c \in Seq(Update)
    BY ConcatTyped, Zenon
  <2> QED  BY <2>1, ConcatTyped, Zenon
<1>2. Line(a, b, c, d, e \o m) = x \o (e \o m) /\ Line(a, b, c, d, e) = x \o e
  BY Zenon DEF Line
<1> HIDE DEF x
<1>3. (x \o e) \o m = x \o (e \o m)
  BY <1>1, ConcatRegroups, Zenon
<1> QED  BY <1>2, <1>3

(* A goroutine has a message in hand only where it is about to pass it on, *)
(* and maintainFrameBuffer runs once the connection is published.          *)
HandInv ==
  /\ connectPc # "enqueue" => connectMsg = None
  /\ mainPc # "send" => mainMsg = None
  /\ framePc # "paint" => frameMsg = None
  /\ ~conn => framePc = "none"

LEMMA StepHand ==
  SessionTypeOK /\ ConnectionInv /\ HandInv /\ [Next]_vars => HandInv'
<1> SUFFICES ASSUME SessionTypeOK, ConnectionInv, HandInv, [Next]_vars
             PROVE  HandInv'
  OBVIOUS
<1> USE DEF HandInv, mainVars, updateVars, connectVars
<1>1. CASE DialFails \/ DialRefused \/ SetUp \/ ConnectFails \/ Rerequest \/ ConnectDone
  BY <1>1 DEF DialFails, DialRefused, SetUp, ConnectFails, Rerequest, ConnectDone
<1>2. CASE DialSucceeds \/ Publish
  BY <1>2 DEF DialSucceeds, Publish, ConnectionInv
<1>3. CASE ReceiveMessage \/ Enqueue
  BY <1>3 DEF ReceiveMessage, Enqueue
<1>4. CASE MainLoop
  BY <1>4 DEF MainLoop, ReadMessage, ReadFails
<1>5. CASE Frame \/ ResumeUpdates
  BY <1>5 DEF Frame, TakeUpdate, PaintUpdate, FrameDone, ResumeUpdates
<1>6. CASE Watcher \/ Listener
  BY <1>6
  DEF Watcher, WatcherTakes, WatcherReports, WatcherDone, Listener, ListenerTakes,
      ListenerStores
<1>7. CASE Agent
  BY <1>7
  DEF Agent, StepBegins, StepFlips, StepFails, SetSubscriptionBegins,
      SetSubscriptionEnds, RenderCall, Close
<1>8. CASE Server
  BY <1>8 DEF Server, ServerUpdates, ServerSends, ConnectionBreaks
<1>9. CASE UNCHANGED vars
  BY <1>9 DEF vars
<1> QED
  BY <1>1, <1>2, <1>3, <1>4, <1>5, <1>6, <1>7, <1>8, <1>9 DEF Next, Connect

LEMMA InTransitIsLine ==
  InTransit = Line(InHand(frameMsg), updates, InHand(connectMsg), InHand(mainMsg),
                   UpdatesOf(wire))
BY DEF InTransit, Line

(* What a step that moves no message leaves alone. *)
wayVars == <<sent, received, frameMsg, updates, connectMsg, mainMsg, wire>>

LEMMA OtherStepsMoveNothing ==
  [Next]_vars => \/ UNCHANGED wayVars
                 \/ ReceiveMessage \/ Enqueue \/ ReadMessage \/ TakeUpdate
                 \/ PaintUpdate \/ ServerUpdates
                 \/ ServerSends(Bell) \/ ServerSends(Malformed)
<1> SUFFICES ASSUME [Next]_vars
             PROVE  \/ UNCHANGED wayVars
                    \/ ReceiveMessage \/ Enqueue \/ ReadMessage \/ TakeUpdate
                    \/ PaintUpdate \/ ServerUpdates
                    \/ ServerSends(Bell) \/ ServerSends(Malformed)
  OBVIOUS
<1> USE DEF wayVars, mainVars, updateVars, connectVars, netVars, frameVars
<1>1. CASE DialFails \/ DialRefused \/ DialSucceeds \/ SetUp \/ Publish
  BY <1>1 DEF DialFails, DialRefused, DialSucceeds, SetUp, Publish
<1>2. CASE ConnectFails \/ Rerequest \/ ConnectDone
  BY <1>2 DEF ConnectFails, Rerequest, ConnectDone
<1>3. CASE ReadFails \/ FrameDone
  BY <1>3 DEF ReadFails, FrameDone
<1>4. CASE ResumeUpdates
  BY <1>4 DEF ResumeUpdates, Resume
<1>5. CASE Watcher \/ Listener
  BY <1>5
  DEF Watcher, WatcherTakes, WatcherReports, WatcherDone, Listener, ListenerTakes,
      ListenerStores
<1>6. CASE Agent
  BY <1>6
  DEF Agent, StepBegins, StepFlips, Flip, FlipScreens, FlipNothing, StepFails,
      SetSubscriptionBegins, SetSubscriptionEnds, RenderCall, SetRenderer, Render,
      Close, CloseRenderer
<1>7. CASE ConnectionBreaks
  BY <1>7 DEF ConnectionBreaks
<1>8. CASE UNCHANGED vars
  BY <1>8 DEF vars
<1> QED
  BY <1>1, <1>2, <1>3, <1>4, <1>5, <1>6, <1>7, <1>8
  DEF Next, Connect, MainLoop, Frame, Server

LEMMA StepWay ==
  SessionTypeOK /\ HandInv /\ NothingLostOrReordered /\ [Next]_vars
    => NothingLostOrReordered'
<1> SUFFICES ASSUME SessionTypeOK, HandInv, NothingLostOrReordered, [Next]_vars
             PROVE  NothingLostOrReordered'
  OBVIOUS
<1> DEFINE a == InHand(frameMsg)
           c == InHand(connectMsg)
           d == InHand(mainMsg)
           e == UpdatesOf(wire)
<1>1. /\ a \in Seq(Update) /\ updates \in Seq(Update) /\ c \in Seq(Update)
      /\ d \in Seq(Update) /\ e \in Seq(Update)
      /\ wire \in Seq(Message) /\ received \in Seq(Update) /\ sent \in Seq(Update)
  BY InHandTyped, UpdatesTyped DEF SessionTypeOK, TypeOK
<1>2. sent = received \o Line(a, updates, c, d, e)
  BY InTransitIsLine DEF NothingLostOrReordered
<1>3. InHand(None) = <<>> /\ InHand(Bell) = <<>> /\ InHand(Malformed) = <<>>
        /\ \A u \in Update : InHand(u) = <<u>>
  BY SessionAssumption DEF InHand
<1>4. NothingLostOrReordered' <=>
        sent' = received' \o Line(a', updates', c', d', e')
  BY DEF NothingLostOrReordered, InTransit, Line
<1>5. CASE UNCHANGED wayVars
  BY <1>2, <1>4, <1>5 DEF wayVars
<1>6. CASE ReceiveMessage
  <2>1. /\ connectMsg = None /\ mainMsg' = None
        /\ UNCHANGED <<sent, received, frameMsg, updates, wire>>
    BY <1>6 DEF ReceiveMessage, HandInv, frameVars, updateVars, netVars
  <2>2. c = <<>> /\ d' = <<>>
    BY <1>3, <2>1
  <2>3. c' = d
    <3>1. CASE mainMsg \in Update
      BY <1>6, <3>1 DEF ReceiveMessage
    <3>2. CASE mainMsg \notin Update
      BY <1>3, <1>6, <2>1, <3>2 DEF ReceiveMessage, InHand
    <3> QED  BY <3>1, <3>2
  <2>4. a' = a /\ e' = e
    BY <2>1
  <2> HIDE DEF a, c, d, e
  <2>5. Line(a, updates, <<>>, d, e) = Line(a, updates, d, <<>>, e)
    BY <1>1, LineReceives
  <2> QED  BY <1>2, <1>4, <2>1, <2>2, <2>3, <2>4, <2>5
<1>7. CASE Enqueue
  <2>1. /\ connectMsg \in Update /\ connectMsg' = None
        /\ updates' = Append(updates, connectMsg)
        /\ UNCHANGED <<sent, received, frameMsg, mainMsg, wire>>
    BY <1>7 DEF Enqueue, SendUpdate, SessionTypeOK, frameVars, mainVars, netVars
  <2>2. c = <<connectMsg>> /\ c' = <<>> /\ a' = a /\ d' = d /\ e' = e
    BY <1>3, <2>1
  <2>3. updates' = updates \o c
    BY <1>1, <2>1, <2>2, AppendIsConcat
  <2> HIDE DEF a, c, d, e
  <2>4. Line(a, updates, c, d, e) = Line(a, updates \o c, <<>>, d, e)
    BY <1>1, LineEnqueues
  <2> QED  BY <1>2, <1>4, <2>1, <2>2, <2>3, <2>4
<1>8. CASE ReadMessage
  <2>1. /\ wire # <<>> /\ wire' = Tail(wire) /\ mainMsg = None /\ mainMsg' = Head(wire)
        /\ UNCHANGED <<sent, received, frameMsg, connectMsg, updates>>
    BY <1>8 DEF ReadMessage, HandInv, frameVars, connectVars, updateVars
  <2>2. d = <<>> /\ a' = a /\ c' = c
    BY <1>3, <2>1
  <2>3. e = d' \o e'
    BY <1>1, <2>1, UpdatesFirst
  <2>4. d' \in Seq(Update) /\ e' \in Seq(Update)
    BY <1>1, <2>1, InHandTyped, UpdatesTyped, HeadTailProperties
  <2> HIDE DEF a, c, d, e
  <2>5. Line(a, updates, c, <<>>, d' \o e') = Line(a, updates, c, d', e')
    BY <1>1, <2>4, LineReads
  <2> QED  BY <1>2, <1>4, <2>1, <2>2, <2>3, <2>5
<1>9. CASE TakeUpdate
  <2>1. /\ updates # <<>> /\ updates' = Tail(updates)
        /\ frameMsg = None /\ frameMsg' = Head(updates)
        /\ UNCHANGED <<sent, received, connectMsg, mainMsg, wire>>
    BY <1>9 DEF TakeUpdate, HandInv, frameVars, connectVars, mainVars, netVars
  <2>2. a = <<>> /\ c' = c /\ d' = d /\ e' = e
    BY <1>3, <2>1
  <2>3. updates = a' \o updates' /\ updates' \in Seq(Update) /\ a' \in Seq(Update)
    <3>1. Head(updates) \in Update /\ updates' \in Seq(Update)
      BY <1>1, <2>1, HeadTailProperties
    <3>2. a' = <<Head(updates)>>
      BY <1>3, <2>1, <3>1
    <3>3. updates = <<Head(updates)>> \o Tail(updates)
      BY <1>1, <2>1
    <3>4. a' \in Seq(Update)
      BY <3>1, <3>2
    <3> HIDE DEF a
    <3> QED  BY <2>1, <3>1, <3>2, <3>3, <3>4, Zenon
  <2> HIDE DEF a, c, d, e
  <2>4. Line(<<>>, a' \o updates', c, d, e) = Line(a', updates', c, d, e)
    BY <1>1, <2>3, LineTakes
  <2> QED  BY <1>2, <1>4, <2>1, <2>2, <2>3, <2>4
<1>10. CASE PaintUpdate
  <2>1. /\ frameMsg \in Update /\ frameMsg' = None /\ received' = Append(received, frameMsg)
        /\ UNCHANGED <<sent, updates, connectMsg, mainMsg, wire>>
    BY <1>10 DEF PaintUpdate, Maintain, SessionTypeOK, connectVars, mainVars, netVars
  <2>2. a = <<frameMsg>> /\ a' = <<>> /\ c' = c /\ d' = d /\ e' = e
    BY <1>3, <2>1
  <2>3. received' = received \o a
    BY <1>1, <2>1, <2>2, AppendIsConcat
  <2> DEFINE rest == Line(<<>>, updates, c, d, e)
  <2> HIDE DEF a, c, d, e
  <2>4. Line(a, updates, c, d, e) = a \o rest
    <3>1. /\ a \in Seq(Update) /\ updates \in Seq(Update) /\ c \in Seq(Update)
          /\ d \in Seq(Update) /\ e \in Seq(Update)
      BY <1>1
    <3>2. \A x, y, z \in Seq(Update) :
            Line(a, updates, x, y, z) = a \o Line(<<>>, updates, x, y, z)
      BY <3>1, LinePaints, Zenon
    <3> QED  BY <3>1, <3>2, Zenon
  <2>5. rest \in Seq(Update)
    BY <1>1, LineTyped, ConcatEmpty, Zenon
  <2> HIDE DEF rest
  <2>6. (received \o a) \o rest = received \o (a \o rest)
    <3>1. received \in Seq(Update) /\ a \in Seq(Update)
      BY <1>1
    <3> QED  BY <3>1, <2>5, ConcatRegroups, Zenon
  <2>7. Line(a', updates', c', d', e') = rest
    BY <2>1, <2>2 DEF rest
  <2> QED  BY <1>2, <1>4, <2>1, <2>3, <2>4, <2>6, <2>7
<1>11. CASE ServerUpdates
  <2>1. PICK u \in Update : wire' = Append(wire, u) /\ sent' = Append(sent, u)
    BY <1>11 DEF ServerUpdates
  <2>2. UNCHANGED <<received, updates, frameMsg, connectMsg, mainMsg>>
    BY <1>11 DEF ServerUpdates, frameVars, updateVars, connectVars, mainVars
  <2>3. a' = a /\ c' = c /\ d' = d
    BY <2>2
  <2> DEFINE m == InHand(u)
  <2>4. m \in Seq(Update) /\ m = <<u>>
    BY <1>3, InHandTyped
  <2>5. e' = e \o m
    BY <1>1, <2>1, UpdatesAppend DEF Message
  <2>6. sent' = sent \o m
    BY <1>1, <2>1, <2>4, AppendIsConcat
  <2> DEFINE line == Line(a, updates, c, d, e)
  <2> HIDE DEF a, c, d, e, m
  <2>7. Line(a, updates, c, d, e \o m) = line \o m
    <3>1. /\ a \in Seq(Update) /\ updates \in Seq(Update) /\ c \in Seq(Update)
          /\ d \in Seq(Update) /\ e \in Seq(Update) /\ m \in Seq(Update)
      BY <1>1, <2>4
    <3>2. \A w, x, y, z \in Seq(Update) :
            Line(a, updates, w, x, y \o z) = Line(a, updates, w, x, y) \o z
      BY <3>1, LineGrows, Zenon
    <3>3. \A y, z \in Seq(Update) :
            Line(a, updates, c, d, y \o z) = Line(a, updates, c, d, y) \o z
      BY <3>1, <3>2, Zenon
    <3> QED  BY <3>1, <3>3, Zenon
  <2>8. line \in Seq(Update)
    BY <1>1, LineTyped, Zenon
  <2>9. sent = received \o line
    BY <1>2
  <2>10. Line(a', updates', c', d', e') = line \o m
    BY <2>2, <2>3, <2>5, <2>7
  <2> HIDE DEF line
  <2>11. (received \o line) \o m = received \o (line \o m)
    <3>1. received \in Seq(Update) /\ m \in Seq(Update)
      BY <1>1, <2>4
    <3> QED  BY <2>8, <3>1, ConcatRegroups, Zenon
  <2> QED  BY <1>4, <2>2, <2>6, <2>9, <2>10, <2>11
<1>12. ASSUME NEW msg \in {Bell, Malformed}, ServerSends(msg)
       PROVE  NothingLostOrReordered'
  <2>1. /\ wire' = Append(wire, msg)
        /\ UNCHANGED <<sent, received, updates, frameMsg, connectMsg, mainMsg>>
    BY <1>12 DEF ServerSends, frameVars, updateVars, connectVars, mainVars
  <2>2. e' = e \o <<>>
    BY <1>1, <1>3, <2>1, UpdatesAppend DEF Message
  <2>3. e' = e
    BY <1>1, <2>2, ConcatEmptySeq
  <2>4. a' = a /\ c' = c /\ d' = d
    BY <2>1
  <2> HIDE DEF a, c, d, e
  <2> QED  BY <1>2, <1>4, <2>1, <2>3, <2>4
<1> QED
  BY <1>5, <1>6, <1>7, <1>8, <1>9, <1>10, <1>11, <1>12, OtherStepsMoveNothing

LEMMA InitWay == Init => HandInv /\ NothingLostOrReordered
<1> SUFFICES ASSUME Init
             PROVE  HandInv /\ NothingLostOrReordered
  OBVIOUS
<1>1. HandInv
  BY DEF Init, HandInv
<1>2. InHand(None) = <<>>
  BY SessionAssumption DEF InHand
<1>3. UpdatesOf(<<>>) = <<>>
  BY DEF UpdatesOf, FlattenSeq
<1>4. InTransit = Line(<<>>, <<>>, <<>>, <<>>, <<>>)
  BY <1>2, <1>3, InTransitIsLine DEF Init
<1>5. Line(<<>>, <<>>, <<>>, <<>>, <<>>) = <<>> /\ <<>> \o <<>> = <<>>
  BY DEF Line
<1>6. sent = <<>> /\ received = <<>>
  BY DEF Init, FrameInit
<1> QED  BY <1>1, <1>4, <1>5, <1>6 DEF NothingLostOrReordered

(* Between the server and the frame buffer no update is lost, duplicated   *)
(* or overtaken, whatever else happens in between (client.go:589,          *)
(* gymvnc.go:567-571, 360-371).                                            *)
THEOREM UpdatesArriveInOrder == Spec => []NothingLostOrReordered
<1> QED
  BY InitConnection, StepConnection, SessionTypeCorrect, InitWay, StepHand, StepWay,
     PTL DEF Spec

(* The server sends an update once. *)
SentOnce == \A i, j \in DOMAIN sent : sent[i] = sent[j] => i = j

LEMMA StepSentOnce == SessionTypeOK /\ SentOnce /\ [Next]_vars => SentOnce'
<1> SUFFICES ASSUME SessionTypeOK, SentOnce, [Next]_vars
             PROVE  SentOnce'
  OBVIOUS
<1>1. CASE ServerUpdates
  <2>1. PICK u \in Update : u \notin Range(sent) /\ sent' = Append(sent, u)
    BY <1>1 DEF ServerUpdates
  <2>2. sent \in Seq(Update)
    BY DEF SessionTypeOK
  <2>3. /\ Len(sent) \in Nat /\ DOMAIN sent = 1..Len(sent)
        /\ DOMAIN sent' = 1..Len(sent) + 1 /\ sent'[Len(sent) + 1] = u
        /\ \A i \in 1..Len(sent) : sent'[i] = sent[i]
    BY <2>1, <2>2
  <2>4. \A i \in DOMAIN sent : sent[i] # u
    BY <2>1 DEF Range
  <2>5. \A i \in DOMAIN sent' : i \in DOMAIN sent \/ i = Len(sent) + 1
    BY <2>3
  <2> QED  BY <2>3, <2>4, <2>5 DEF SentOnce
<1>2. CASE UNCHANGED sent
  BY <1>2 DEF SentOnce
<1>3. ServerUpdates \/ UNCHANGED sent
  BY OtherStepsMoveNothing
  DEF wayVars, ReceiveMessage, Enqueue, ReadMessage, TakeUpdate, PaintUpdate,
      ServerSends, netVars
<1> QED  BY <1>1, <1>2, <1>3

(* maintainFrameBuffer never paints an update twice: the one it has in     *)
(* hand is new, so that the guard of FrameBuffer's Maintain, by which each *)
(* update is received once, never holds it up (gymvnc.go:360-371).         *)
THEOREM UpdatesPaintedOnce ==
  Spec => [](framePc = "paint" => frameMsg \notin Range(received))
<1>1. Init => SentOnce
  BY DEF Init, SentOnce
<1>2. SessionTypeOK /\ SentOnce /\ NothingLostOrReordered
        => (framePc = "paint" => frameMsg \notin Range(received))
  <2> SUFFICES ASSUME SessionTypeOK, SentOnce, NothingLostOrReordered,
                      framePc = "paint", frameMsg \in Range(received)
               PROVE  FALSE
    OBVIOUS
  <2> DEFINE a == InHand(frameMsg)
             c == InHand(connectMsg)
             d == InHand(mainMsg)
             e == UpdatesOf(wire)
             rest == Line(<<>>, updates, c, d, e)
  <2>1. /\ updates \in Seq(Update) /\ c \in Seq(Update) /\ d \in Seq(Update)
        /\ e \in Seq(Update) /\ received \in Seq(Update) /\ a \in Seq(Update)
    BY InHandTyped, UpdatesTyped DEF SessionTypeOK, TypeOK
  <2>2. sent = received \o Line(a, updates, c, d, e)
    BY InTransitIsLine DEF NothingLostOrReordered
  <2>3. a = <<frameMsg>>
    BY DEF SessionTypeOK, InHand
  <2> HIDE DEF a, c, d, e
  <2>4. Line(a, updates, c, d, e) = a \o rest
    <3>1. \A x, y, z \in Seq(Update) :
            Line(a, updates, x, y, z) = a \o Line(<<>>, updates, x, y, z)
      BY <2>1, LinePaints, Zenon
    <3> QED  BY <2>1, <3>1, Zenon
  <2>5. rest \in Seq(Update)
    BY <2>1, LineTyped, ConcatEmpty, Zenon
  <2> HIDE DEF rest
  <2>6. /\ Len(a) = 1 /\ a[1] = frameMsg
        /\ Len(received) \in Nat /\ Len(rest) \in Nat
        /\ DOMAIN received = 1..Len(received)
    BY <2>1, <2>3, <2>5, LenProperties
  <2> DEFINE tail == a \o rest
  <2>7. tail \in Seq(Update) /\ Len(tail) = 1 + Len(rest) /\ tail[1] = frameMsg
    <3>1. tail \in Seq(Update) /\ Len(tail) = Len(a) + Len(rest)
            /\ \A i \in 1..Len(a) + Len(rest) :
                 tail[i] = IF i <= Len(a) THEN a[i] ELSE rest[i - Len(a)]
      BY <2>1, <2>5, ConcatProperties
    <3>2. 1 \in 1..Len(a) + Len(rest) /\ 1 <= Len(a)
      BY <2>6
    <3> HIDE DEF tail
    <3> QED  BY <2>6, <3>1, <3>2
  <2>8. sent = received \o tail
    BY <2>2, <2>4
  <2> HIDE DEF tail
  <2>9. /\ DOMAIN sent = 1..Len(received) + Len(tail)
        /\ sent[Len(received) + 1] = frameMsg
        /\ \A i \in 1..Len(received) : sent[i] = received[i]
    <3>1. /\ sent \in Seq(Update) /\ Len(sent) = Len(received) + Len(tail)
          /\ \A i \in 1..Len(received) + Len(tail) :
               sent[i] = IF i <= Len(received) THEN received[i]
                         ELSE tail[i - Len(received)]
      <4> DEFINE all == received \o tail
      <4>1. /\ all \in Seq(Update) /\ Len(all) = Len(received) + Len(tail)
            /\ \A i \in 1..Len(received) + Len(tail) :
                 all[i] = IF i <= Len(received) THEN received[i]
                          ELSE tail[i - Len(received)]
        <5>1. received \in Seq(Update) /\ tail \in Seq(Update)
          BY <2>1, <2>7
        <5> HIDE DEF tail
        <5> QED  BY <5>1, ConcatProperties
      <4>2. sent = all
        BY <2>8
      <4> HIDE DEF all
      <4> QED  BY <4>1, <4>2
    <3>2. DOMAIN sent = 1..Len(sent)
      BY <3>1, LenProperties
    <3>3. /\ Len(received) + 1 \in 1..Len(received) + Len(tail)
          /\ ~(Len(received) + 1 <= Len(received))
          /\ (Len(received) + 1) - Len(received) = 1
      BY <2>6, <2>7
    <3>4. sent[Len(received) + 1] = frameMsg
      BY <2>7, <3>1, <3>3
    <3>5. ASSUME NEW i \in 1..Len(received)
          PROVE  sent[i] = received[i]
      <4>1. i \in 1..Len(received) + Len(tail) /\ i <= Len(received)
        BY <2>6, <2>7
      <4> QED  BY <3>1, <4>1
    <3> QED  BY <3>1, <3>2, <3>4, <3>5
  <2>10. PICK i \in DOMAIN received : received[i] = frameMsg
    BY DEF Range
  <2>11. i \in DOMAIN sent /\ Len(received) + 1 \in DOMAIN sent
           /\ sent[i] = sent[Len(received) + 1] /\ i # Len(received) + 1
    BY <2>6, <2>7, <2>9, <2>10
  <2> QED  BY <2>11 DEF SentOnce
<1> QED
  BY <1>1, <1>2, StepSentOnce, UpdatesArriveInOrder, SessionTypeCorrect, PTL DEF Spec
=============================================================================
