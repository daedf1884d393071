----------------------------- MODULE VNCSession -----------------------------
(***************************************************************************)
(* One VNC session (gymvnc.go) with the reading loop of its client         *)
(* connection (client.go), the agent that steps it and the server it talks *)
(* to.  The double buffer is FrameBuffer's; this module adds the           *)
(* goroutines, the channels between them and the life of the connection:   *)
(*                                                                         *)
(*   agent       Step, Render, SetSubscription, Close (one thread)         *)
(*   connect     dials, sets up, then forwards messages and re-requests    *)
(*   mainLoop    reads messages off the socket (ClientConn.mainLoop)       *)
(*   frame       maintainFrameBuffer                                       *)
(*   resumer     spawned by every flip that swaps the screens              *)
(*   watcher     moves mainLoop's error to the session's Error channel     *)
(*   listener    stores the first error of that channel in err             *)
(*                                                                         *)
(*   socket -> mainLoop -> connect -> updates channel -> frame             *)
(*             mainLoop -> errorCh -> watcher -> Error -> listener -> err  *)
(*                                                                         *)
(* A Mutant... definition is the next one with a mistake, as in            *)
(* FrameBuffer.  A critical section of c.lock or updated.L is one action, except the     *)
(* unguarded copy of the subscription: SetSubscription writes it under     *)
(* c.lock and requestUpdate reads it under updated.L.                      *)
(***************************************************************************)
EXTENDS FrameBuffer, SequencesExt

CONSTANTS
  Bell,           \* any server message that is not a framebuffer update
  Malformed,      \* a message mainLoop cannot parse
  QueueCap,       \* capacity of the updates channel, 4096 in the code
  StartTimeout,   \* config.StartTimeout in seconds, 0 for none
  Subscriptions,  \* what is subscribed to: 0 is nil, n > 0 a list of n regions
  Calls,          \* the optional calls the agent makes
  Faults,         \* what may go wrong around the session
  MaxWire         \* bound: messages on the way from the server

None == "none"    \* no message

ASSUME SessionAssumption ==
  /\ Bell \notin Update /\ Malformed \notin Update /\ Bell # Malformed
  /\ None \notin Update
  /\ QueueCap \in Nat \ {0}
  /\ StartTimeout \in Nat
  /\ Subscriptions \subseteq Nat /\ Subscriptions # {}
  /\ Calls \subseteq {"Close", "Render", "SetSubscription"}
  /\ Faults \subseteq {"dial", "refuse", "break", "malformed", "bell", "encoding"}
  /\ MaxWire \in Nat \ {0}

VARIABLES
  conn,             \* has connect published the connection in c.conn?
  err,              \* c.err: an error was stored
  closed,           \* c.closed; mgr.Done is closed in the same critical section
  subscription,     \* config.Subscription
  newSubscription,  \* the value SetSubscription is writing over it
  userPc,           \* the agent: "idle", "step" or "subscribe"
  connectPc,        \* where connect is
  connectMsg,       \* the message connect has in hand
  tries,            \* failed attempts to connect
  totalSleep,       \* seconds slept between them
  mainPc,           \* where mainLoop is
  mainMsg,          \* the message mainLoop has in hand
  framePc,          \* where maintainFrameBuffer is
  frameMsg,         \* the update maintainFrameBuffer has in hand
  updates,          \* the updates channel
  errorCh,          \* is there an error in mainLoop's channel?
  mgrError,         \* is there an error in mgr.Error?
  watchPc,          \* where the watcher is
  listenPc,         \* where the listener is
  sock,             \* the socket: "none", "open" or "closed" by this side
  broken,           \* the peer is gone
  wire,             \* messages on their way from the server
  requests,         \* update requests the server has not answered
  sent              \* history: the updates the server sent

agentVars == <<userPc, subscription, newSubscription>>
connectVars == <<connectPc, connectMsg, tries, totalSleep>>
mainVars == <<mainPc, mainMsg>>
updateVars == <<framePc, frameMsg, updates>>
errorVars == <<err, errorCh, mgrError, watchPc, listenPc>>
netVars == <<sock, broken, wire, sent>>
vars == <<frameVars, conn, closed, agentVars, connectVars, mainVars,
          updateVars, errorVars, netVars, requests>>

Message == Update \cup {Bell, Malformed}

SessionTypeOK ==
  /\ TypeOK
  /\ conn \in BOOLEAN /\ err \in BOOLEAN /\ closed \in BOOLEAN
  /\ subscription \in Nat /\ newSubscription \in Nat
  /\ userPc \in {"idle", "step", "subscribe"}
  /\ connectPc \in {"dial", "setup", "publish", "select", "enqueue",
                    "rerequest", "failed", "done"}
  /\ connectMsg \in Update \cup {None}
  /\ connectPc = "enqueue" => connectMsg \in Update
  /\ tries \in Nat /\ totalSleep \in Nat
  /\ mainPc \in {"none", "read", "send", "done"}
  /\ mainMsg \in Update \cup {Bell, None}
  /\ framePc \in {"none", "select", "paint", "done"}
  /\ frameMsg \in Update \cup {None}
  /\ framePc = "paint" => frameMsg \in Update
  /\ updates \in Seq(Update) /\ Len(updates) <= QueueCap
  /\ errorCh \in BOOLEAN /\ mgrError \in BOOLEAN
  /\ watchPc \in {"none", "wait", "send", "done"}
  /\ listenPc \in {"wait", "store", "done"}
  /\ sock \in {"none", "open", "closed"}
  /\ broken \in BOOLEAN
  /\ wire \in Seq(Message) /\ Len(wire) <= MaxWire
  /\ requests \in Nat
  /\ sent \in Seq(Update)

(* NewVNCSession and start: the goroutines connect and listener run. *)
Init ==
  /\ FrameInit
  /\ conn = FALSE /\ err = FALSE /\ closed = FALSE
  /\ subscription \in Subscriptions /\ newSubscription = subscription
  /\ userPc = "idle"
  /\ connectPc = "dial" /\ connectMsg = None /\ tries = 0 /\ totalSleep = 0
  /\ mainPc = "none" /\ mainMsg = None
  /\ framePc = "none" /\ frameMsg = None /\ updates = <<>>
  /\ errorCh = FALSE /\ mgrError = FALSE
  /\ watchPc = "none" /\ listenPc = "wait"
  /\ sock = "none" /\ broken = FALSE /\ wire = <<>>
  /\ requests = 0 /\ sent = <<>>

-----------------------------------------------------------------------------
(* Requesting updates *)

(* c.lock is held across actions only while SetSubscription writes. *)
LockFree == userPc # "subscribe"

(* Writing to the socket fails once it is closed, and may fail once the    *)
(* peer is gone.                                                           *)
WriteSucceeds == sock = "open"
WriteFails == sock = "closed" \/ broken

(* How many requests requestUpdate sends when it reads the pointer of the  *)
(* subscription p and its length l: one for the whole screen when there is *)
(* no subscription, else one per region.                                   *)
RequestsOf(p, l) == IF p = 0 THEN 1 ELSE l

(* A slice is not read and written in one piece: until SetSubscription is  *)
(* done, each word may be the old one or the new one.                      *)
RequestCounts ==
  {RequestsOf(p, l) : p \in {subscription, newSubscription},
                      l \in {subscription, newSubscription}}

RequestSucceeds ==
  /\ WriteSucceeds
  /\ \E n \in RequestCounts :
       requests' = IF broken THEN requests ELSE requests + n

RequestFails ==
  /\ WriteFails
  /\ UNCHANGED requests

(* An error is put on mgr.Error if there is room and dropped otherwise. *)
MutantUnreported == UNCHANGED mgrError
TryReport == mgrError' = TRUE

RequestUpdate ==
  \/ RequestSucceeds /\ UNCHANGED mgrError
  \/ RequestFails /\ TryReport

-----------------------------------------------------------------------------
(* connect *)

(* The seconds slept after failed attempt i, counted from 0. *)
MutantUncapped(i) == 2 * (i + 1)
SleepTarget(i) == IF 2 * (i + 1) > 30 THEN 30 ELSE 2 * (i + 1)

(* The server cannot be reached, or hangs up during the handshake: connect *)
(* sleeps and tries again, unless it has slept long enough.                *)
DialFails ==
  /\ connectPc = "dial"
  /\ "dial" \in Faults
  /\ IF StartTimeout > 0 /\ totalSleep < StartTimeout
     THEN /\ totalSleep' = totalSleep + SleepTarget(tries)
          /\ tries' = tries + 1
          /\ UNCHANGED connectPc
     ELSE connectPc' = "failed" /\ UNCHANGED <<totalSleep, tries>>
  /\ UNCHANGED <<frameVars, conn, closed, agentVars, connectMsg, mainVars,
                 updateVars, errorVars, netVars, requests>>

(* The handshake is refused for good, by the password for instance. *)
DialRefused ==
  /\ connectPc = "dial"
  /\ "refuse" \in Faults
  /\ connectPc' = "failed"
  /\ UNCHANGED <<frameVars, conn, closed, agentVars, connectMsg, tries,
                 totalSleep, mainVars, updateVars, errorVars, netVars, requests>>

(* The handshake is done: mainLoop and the watcher start. *)
DialSucceeds ==
  /\ connectPc = "dial"
  /\ sock' = "open"
  /\ mainPc' = "read"
  /\ watchPc' = "wait"
  /\ connectPc' = "setup"
  /\ UNCHANGED <<frameVars, conn, closed, agentVars, connectMsg, tries,
                 totalSleep, mainMsg, updateVars, err, errorCh, mgrError,
                 listenPc, broken, wire, sent, requests>>

(* SetPixelFormat, the choice of the encoding and SetEncodings. *)
SetUp ==
  /\ connectPc = "setup"
  /\ \/ WriteSucceeds /\ connectPc' = "publish"
     \/ (WriteFails \/ "encoding" \in Faults) /\ connectPc' = "failed"
  /\ UNCHANGED <<frameVars, conn, closed, agentVars, connectMsg, tries,
                 totalSleep, mainVars, updateVars, errorVars, netVars, requests>>

MutantCloseUnnoticed == FALSE
ClosedMeanwhile == closed

(* Under c.lock the connection is made visible, the first update requested *)
(* and the connection taken back if that fails or the session was closed   *)
(* in the meantime.  Otherwise maintainFrameBuffer starts.                 *)
Publish ==
  /\ connectPc = "publish"
  /\ LockFree
  /\ \/ /\ RequestSucceeds
        /\ ~ClosedMeanwhile
        /\ conn' = TRUE
        /\ connectPc' = "select"
        /\ framePc' = "select"
     \/ /\ (RequestSucceeds /\ ClosedMeanwhile) \/ RequestFails
        /\ connectPc' = "failed"
        /\ UNCHANGED <<conn, framePc>>
  /\ UNCHANGED <<frameVars, closed, agentVars, connectMsg, tries, totalSleep,
                 mainVars, frameMsg, updates, errorVars, netVars>>

(* connect returns an error: its deferred function closes a connection     *)
(* nobody else knows of, then start tries to report the error.             *)
MutantKeepOpen == UNCHANGED sock
Autoclose == sock' = IF sock = "open" /\ ~conn THEN "closed" ELSE sock

ConnectFails ==
  /\ connectPc = "failed"
  /\ LockFree
  /\ Autoclose
  /\ TryReport
  /\ connectPc' = "done"
  /\ UNCHANGED <<frameVars, conn, closed, agentVars, connectMsg, tries,
                 totalSleep, mainVars, updateVars, err, errorCh, watchPc,
                 listenPc, broken, wire, sent, requests>>

(* mainLoop hands its message to connect; the channel has no buffer. *)
ReceiveMessage ==
  /\ connectPc = "select" /\ mainPc = "send"
  /\ mainPc' = "read" /\ mainMsg' = None
  /\ IF mainMsg \in Update
     THEN connectPc' = "enqueue" /\ connectMsg' = mainMsg
     ELSE UNCHANGED <<connectPc, connectMsg>>
  /\ UNCHANGED <<frameVars, conn, closed, agentVars, tries, totalSleep,
                 updateVars, errorVars, netVars, requests>>

(* connect passes the update on, when there is room in the channel. *)
HasRoom == Len(updates) < QueueCap

MutantDropWhenFull ==
  updates' = IF HasRoom THEN Append(updates, connectMsg) ELSE updates
SendUpdate == HasRoom /\ updates' = Append(updates, connectMsg)

Enqueue ==
  /\ connectPc = "enqueue"
  /\ SendUpdate
  /\ connectMsg' = None
  /\ connectPc' = "rerequest"
  /\ UNCHANGED <<frameVars, conn, closed, agentVars, tries, totalSleep,
                 mainVars, framePc, frameMsg, errorVars, netVars, requests>>

(* connect asks for the next update, unless updates are paused. *)
Rerequest ==
  /\ connectPc = "rerequest"
  /\ connectPc' = "select"
  /\ IF pauseUpdates THEN UNCHANGED <<requests, mgrError>> ELSE RequestUpdate
  /\ UNCHANGED <<frameVars, conn, closed, agentVars, connectMsg, tries,
                 totalSleep, mainVars, updateVars, err, errorCh, watchPc,
                 listenPc, netVars>>

(* connect learns that the session is closed. *)
ConnectDone ==
  /\ connectPc = "select" /\ closed
  /\ LockFree
  /\ connectPc' = "done"
  /\ UNCHANGED <<frameVars, conn, closed, agentVars, connectMsg, tries,
                 totalSleep, mainVars, updateVars, errorVars, netVars, requests>>

-----------------------------------------------------------------------------
(* mainLoop *)

(* mainLoop reads a message it can parse and offers it to connect. *)
ReadMessage ==
  /\ mainPc = "read" /\ sock = "open"
  /\ wire # <<>> /\ Head(wire) # Malformed
  /\ mainMsg' = Head(wire) /\ mainPc' = "send"
  /\ wire' = Tail(wire)
  /\ UNCHANGED <<frameVars, conn, closed, agentVars, connectVars, updateVars,
                 errorVars, sock, broken, sent, requests>>

MutantSilent == UNCHANGED errorCh
ReportError == ~errorCh /\ errorCh' = TRUE

(* mainLoop cannot read or parse: it reports the error, closes the socket  *)
(* and ends.                                                               *)
ReadFails ==
  /\ mainPc = "read"
  /\ \/ sock = "closed"
     \/ broken
     \/ wire # <<>> /\ Head(wire) = Malformed
  /\ ReportError
  /\ sock' = "closed"
  /\ mainPc' = "done"
  /\ UNCHANGED <<frameVars, conn, closed, agentVars, connectVars, mainMsg,
                 updateVars, err, mgrError, watchPc, listenPc, broken, wire,
                 sent, requests>>

-----------------------------------------------------------------------------
(* maintainFrameBuffer *)

TakeUpdate ==
  /\ framePc = "select" /\ updates # <<>>
  /\ frameMsg' = Head(updates) /\ updates' = Tail(updates)
  /\ framePc' = "paint"
  /\ UNCHANGED <<frameVars, conn, closed, agentVars, connectVars, mainVars,
                 errorVars, netVars, requests>>

PaintUpdate ==
  /\ framePc = "paint"
  /\ Maintain(frameMsg)
  /\ frameMsg' = None /\ framePc' = "select"
  /\ UNCHANGED <<conn, closed, agentVars, connectVars, mainVars, updates,
                 errorVars, netVars, requests>>

FrameDone ==
  /\ framePc = "select" /\ closed
  /\ framePc' = "done"
  /\ UNCHANGED <<frameVars, conn, closed, agentVars, connectVars, mainVars,
                 frameMsg, updates, errorVars, netVars, requests>>

(* A goroutine spawned by a flip resumes, and restarts the requests if     *)
(* they were paused.                                                       *)
MutantNoRestart == UNCHANGED <<requests, mgrError>>
RestartRequests ==
  IF pauseUpdates THEN RequestUpdate ELSE UNCHANGED <<requests, mgrError>>

ResumeUpdates ==
  /\ Resume
  /\ RestartRequests
  /\ UNCHANGED <<conn, closed, agentVars, connectVars, mainVars, updateVars,
                 err, errorCh, watchPc, listenPc, netVars>>

-----------------------------------------------------------------------------
(* Errors *)

WatcherTakes ==
  /\ watchPc = "wait" /\ errorCh
  /\ errorCh' = FALSE
  /\ watchPc' = "send"
  /\ UNCHANGED <<frameVars, conn, closed, agentVars, connectVars, mainVars,
                 updateVars, err, mgrError, listenPc, netVars, requests>>

(* The watcher waits for room: it does not drop its error. *)
WatcherReports ==
  /\ watchPc = "send" /\ ~mgrError
  /\ mgrError' = TRUE
  /\ watchPc' = "done"
  /\ UNCHANGED <<frameVars, conn, closed, agentVars, connectVars, mainVars,
                 updateVars, err, errorCh, listenPc, netVars, requests>>

WatcherDone ==
  /\ watchPc = "wait" /\ closed
  /\ watchPc' = "done"
  /\ UNCHANGED <<frameVars, conn, closed, agentVars, connectVars, mainVars,
                 updateVars, err, errorCh, mgrError, listenPc, netVars, requests>>

(* The listener takes one error, stores it for Step, and ends. *)
ListenerTakes ==
  /\ listenPc = "wait" /\ mgrError
  /\ mgrError' = FALSE
  /\ listenPc' = "store"
  /\ UNCHANGED <<frameVars, conn, closed, agentVars, connectVars, mainVars,
                 updateVars, err, errorCh, watchPc, netVars, requests>>

ListenerStores ==
  /\ listenPc = "store"
  /\ LockFree
  /\ err' = TRUE
  /\ listenPc' = "done"
  /\ UNCHANGED <<frameVars, conn, closed, agentVars, connectVars, mainVars,
                 updateVars, errorCh, mgrError, watchPc, netVars, requests>>

-----------------------------------------------------------------------------
(* The agent.  Once it has closed the session, VNCBatch forgets it. *)

(* Step looks for an error and for a connection before it does anything. *)
StepBegins ==
  /\ userPc = "idle" /\ ~closed
  /\ ~err /\ conn
  /\ userPc' = "step"
  /\ UNCHANGED <<frameVars, conn, closed, subscription, newSubscription,
                 connectVars, mainVars, updateVars, errorVars, netVars, requests>>

(* The events were sent: Step flips, and returns the front screen. *)
StepFlips ==
  /\ userPc = "step"
  /\ Flip
  /\ userPc' = "idle"
  /\ UNCHANGED <<conn, closed, subscription, newSubscription, connectVars,
                 mainVars, updateVars, errorVars, netVars, requests>>

(* An event could not be sent: Step returns that error instead. *)
StepFails ==
  /\ userPc = "step"
  /\ WriteFails
  /\ userPc' = "idle"
  /\ UNCHANGED <<frameVars, conn, closed, subscription, newSubscription,
                 connectVars, mainVars, updateVars, errorVars, netVars, requests>>

SetSubscriptionBegins ==
  /\ "SetSubscription" \in Calls
  /\ userPc = "idle" /\ ~closed
  /\ newSubscription' \in Subscriptions
  /\ userPc' = "subscribe"
  /\ UNCHANGED <<frameVars, conn, closed, subscription, connectVars, mainVars,
                 updateVars, errorVars, netVars, requests>>

SetSubscriptionEnds ==
  /\ userPc = "subscribe"
  /\ subscription' = newSubscription
  /\ userPc' = "idle"
  /\ UNCHANGED <<frameVars, conn, closed, newSubscription, connectVars,
                 mainVars, updateVars, errorVars, netVars, requests>>

RenderCall ==
  /\ "Render" \in Calls
  /\ userPc = "idle" /\ ~closed
  /\ \/ SetRenderer
     \/ conn /\ \E close \in BOOLEAN : Render(close)
  /\ UNCHANGED <<conn, closed, agentVars, connectVars, mainVars, updateVars,
                 errorVars, netVars, requests>>

(* Close tells every goroutine, and closes the connection if it is there. *)
Close ==
  /\ "Close" \in Calls
  /\ userPc = "idle" /\ ~closed
  /\ closed' = TRUE
  /\ sock' = IF conn THEN "closed" ELSE sock
  /\ CloseRenderer
  /\ UNCHANGED <<conn, agentVars, connectVars, mainVars, updateVars, errorVars,
                 broken, wire, sent, requests>>

-----------------------------------------------------------------------------
(* The server and the network (not part of the repository) *)

(* The server sends an update when it was asked for one.  One update may   *)
(* answer all the requests received so far, or only one of them.           *)
ServerUpdates ==
  /\ sock = "open" /\ ~broken
  /\ requests > 0
  /\ Len(wire) < MaxWire
  /\ requests' \in {0, requests - 1}
  /\ \E u \in Update \ Range(sent) :
       wire' = Append(wire, u) /\ sent' = Append(sent, u)
  /\ UNCHANGED <<frameVars, conn, closed, agentVars, connectVars, mainVars,
                 updateVars, errorVars, sock, broken>>

(* The server may send other messages unasked, or one that makes no sense. *)
ServerSends(msg) ==
  /\ sock = "open" /\ ~broken
  /\ Len(wire) < MaxWire
  /\ wire' = Append(wire, msg)
  /\ UNCHANGED <<frameVars, conn, closed, agentVars, connectVars, mainVars,
                 updateVars, errorVars, sock, broken, sent, requests>>

ConnectionBreaks ==
  /\ "break" \in Faults
  /\ sock = "open" /\ ~broken
  /\ broken' = TRUE
  /\ UNCHANGED <<frameVars, conn, closed, agentVars, connectVars, mainVars,
                 updateVars, errorVars, sock, wire, sent, requests>>

Server ==
  \/ ServerUpdates
  \/ "bell" \in Faults /\ ServerSends(Bell)
  \/ "malformed" \in Faults /\ ServerSends(Malformed)
  \/ ConnectionBreaks

Connect ==
  \/ DialFails \/ DialRefused \/ DialSucceeds \/ SetUp \/ Publish \/ ConnectFails
  \/ ReceiveMessage \/ Enqueue \/ Rerequest \/ ConnectDone
MainLoop == ReadMessage \/ ReadFails
Frame == TakeUpdate \/ PaintUpdate \/ FrameDone
Watcher == WatcherTakes \/ WatcherReports \/ WatcherDone
Listener == ListenerTakes \/ ListenerStores
Agent ==
  \/ StepBegins \/ StepFlips \/ StepFails
  \/ SetSubscriptionBegins \/ SetSubscriptionEnds \/ RenderCall \/ Close

Next ==
  \/ Connect \/ MainLoop \/ Frame \/ ResumeUpdates \/ Watcher \/ Listener
  \/ Agent \/ Server

Spec == Init /\ [][Next]_vars
(* Every goroutine that can run does so in the end, and one that waits for *)
(* c.lock gets it although others take it again and again.  A select that  *)
(* finds Done closed and a message ready picks one of them at random, so   *)
(* that Done cannot be passed over forever: strong fairness for both.  The *)
(* agent only finishes the calls it has begun.                             *)
GoFairness ==
  /\ WF_vars(DialFails \/ DialRefused \/ DialSucceeds)
  /\ WF_vars(SetUp) /\ SF_vars(Publish)
  /\ SF_vars(ConnectFails) /\ SF_vars(ConnectDone)
  /\ WF_vars(ReceiveMessage) /\ WF_vars(Enqueue) /\ WF_vars(Rerequest)
  /\ WF_vars(MainLoop)
  /\ WF_vars(TakeUpdate) /\ WF_vars(PaintUpdate) /\ SF_vars(FrameDone)
  /\ WF_vars(ResumeUpdates)
  /\ WF_vars(Watcher) /\ WF_vars(ListenerTakes) /\ SF_vars(ListenerStores)
  /\ WF_vars(StepFlips \/ StepFails) /\ WF_vars(SetSubscriptionEnds)

FairSpec == Spec /\ GoFairness

(* The agent keeps stepping, and the server answers requests: the setting  *)
(* in which an agent must see every update.                                *)
LiveSpec == FairSpec /\ WF_vars(StepBegins) /\ WF_vars(ServerUpdates)
-----------------------------------------------------------------------------
(* The messages between the server and the frame buffer, oldest first. *)
InHand(msg) == IF msg \in Update THEN <<msg>> ELSE <<>>
UpdatesOf(msgs) == FlattenSeq([i \in DOMAIN msgs |-> InHand(msgs[i])])
InTransit ==
  InHand(frameMsg) \o updates \o InHand(connectMsg) \o InHand(mainMsg)
    \o UpdatesOf(wire)

(* Through two channels and three goroutines no update is lost, duplicated *)
(* or overtaken (client.go:589, gymvnc.go:567-571, 360-371).               *)
NothingLostOrReordered == sent = received \o InTransit

(* A connection that could be used still. *)
Alive == connectPc \in {"select", "enqueue", "rerequest"} /\ ~closed
         /\ sock = "open" /\ ~broken /\ mainPc # "done"

(* The cycle of requests and updates: a request the server has, or an      *)
(* update whose receipt will make connect send one.                        *)
CycleRuns ==
  \/ requests > 0
  \/ mainPc = "send" /\ mainMsg \in Update
  \/ connectPc \in {"enqueue", "rerequest"}
  \/ \E i \in DOMAIN wire : wire[i] \in Update

(* While a session lives its request cycle never dies: it runs, or it is   *)
(* paused and the next flip or a goroutine on its way will restart it      *)
(* (gymvnc.go:269-287, 373-376, 572-584).                                  *)
CycleNeverDies ==
  Alive => CycleRuns \/ (pauseUpdates /\ (backUpdated \/ resumers > 0))

(* The socket is never leaked: when connect is over without having         *)
(* published the connection, or the session was closed, it is closed, even *)
(* if the session was closed while connect was dialling or setting up      *)
(* (gymvnc.go:168-189, 460-469, 533-551).                                  *)
SocketReleased ==
  /\ connectPc = "done" /\ ~conn => sock # "open"
  /\ closed /\ conn => sock = "closed"

(* An error on its way to the agent, or already there. *)
ErrorUnderway == err \/ mgrError \/ listenPc = "store"

(* Errors are dropped when the channel is full, but never the only one:    *)
(* when connect or mainLoop is dead and the agent has not closed the       *)
(* session, it will be told (gymvnc.go:148-165, 471-477, 576-582).         *)
FailureReachesAgent ==
  ~closed =>
    /\ connectPc = "done" => ErrorUnderway
    /\ mainPc = "done" => ErrorUnderway \/ errorCh \/ watchPc = "send"

(* connect gives up on a server it cannot reach only after it has slept    *)
(* for StartTimeout, and sleeps less than 30 seconds longer                *)
(* (gymvnc.go:441-453).                                                    *)
RetryBudget ==
  /\ totalSleep < StartTimeout + 30
  /\ connectPc = "failed" /\ sock = "none" /\ StartTimeout > 0
       => totalSleep >= StartTimeout \/ "refuse" \in Faults

(* Closing the session closes its window, however it was opened            *)
(* (gymvnc.go:182-186).                                                    *)
WindowReleased == closed /\ rendererActive => rendererClosed

(* A mainLoop that dies makes Step return an error in the end, unless the  *)
(* session is closed (gymvnc.go:471-477, 159-165).                         *)
MainLoopErrorSurfaces == mainPc = "done" ~> (err \/ closed)

(* After Close no socket stays open, and connect and maintainFrameBuffer   *)
(* end, even if connect was still dialling when the session was closed;    *)
(* provided the updates channel has room (gymvnc.go:379-382, 460-469,      *)
(* 546-551, 571, 585-588).                                                 *)
CloseReleases ==
  closed ~> [](sock # "open" /\ connectPc = "done" /\ framePc # "select")

(* An agent that keeps stepping sees every update the server has: the      *)
(* whole way round through request, update, pause, flip and resume         *)
(* (gymvnc.go:269-287, 367-376, 567-584).                                  *)
EveryUpdateShown == <>(Range(front) = Update)

(* Claimed: the session reads all that mainLoop offers, so that mainLoop   *)
(* is not blocked for ever and ends once the session is closed ("It is up  *)
(* to the user of the library to ensure that this channel is properly      *)
(* read", client.go:67-71).                                                *)
MainLoopEnds == closed ~> mainPc \in {"none", "done"}
=============================================================================
