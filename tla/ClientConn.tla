----------------------------- MODULE ClientConn -----------------------------
(***************************************************************************)
(* A connection to a VNC server (client.go, client_auth.go,                *)
(* server_messages.go and pixel_format.go of vncclient), from the version  *)
(* of the server to the end of the main loop, as VNCSession.connect uses   *)
(* it.                                                                     *)
(*                                                                         *)
(* Three parties share it: the server, which behaves as RFC 6143 says but  *)
(* may go away at any time; the goroutine that made the connection, in the *)
(* handshake and then in the loop of connect, which sends what the agent   *)
(* asks for; and the main loop, which reads the server's messages.  The    *)
(* two streams are sequences of tokens, each what one read takes: a token  *)
(* of another kind than the reader expects means that the two ends are out *)
(* of step.                                                                *)
(*                                                                         *)
(* A write to a server that is gone may fail at once, or be lost and the   *)
(* next read fail; the handshake is modelled with the latter.              *)
(***************************************************************************)
EXTENDS Integers, Sequences, SequencesExt

CONSTANTS
  Auths,         \* what a program may give as config.Auth
  NativeFormats, \* pixel formats of servers
  Encodings,     \* what the program passes to SetEncodings
  RectLimit,     \* the limit to the rectangles of an update, 1000
  MaxSent,       \* bound: messages a server sends
  MaxEvents      \* bound: input events the agent sends

ASSUME ConnAssumption ==
  /\ \A a \in Auths : a \in Seq({1, 2})
  /\ NativeFormats \subseteq [BPP : {8, 16, 32}, TrueColor : BOOLEAN, shifts : STRING]
  /\ Encodings \subseteq {"raw", "zrle", "tight"}
  /\ RectLimit \in Nat /\ MaxSent \in Nat /\ MaxEvents \in Nat

(* Security types; 16 stands for one the client does not know. *)
AuthNone == 1
PasswordAuth == 2
SecurityTypes == {AuthNone, PasswordAuth, 16}

(* What a server may announce; no version at all is <<>>. *)
Versions == {<<>>, <<2, 9>>, <<3, 2>>, <<3, 3>>, <<3, 7>>, <<3, 8>>}

RGB32 == [BPP |-> 32, TrueColor |-> TRUE, shifts |-> "rgb"]

VARIABLES
  \* the server
  spc, offer, native, serverFormat, serverEncs, wanted, sent,
  \* the streams: tokens under way, and whether an end was closed
  toClient, toServer, gone, closed,
  \* the connection, and what its reader does
  pc, config, minor, auth, rectsLeft, PixelFormat, Encs, ColorMap, failure, soft,
  \* the goroutine of connect, the message it waits for, and the agent's events
  upc, message, events

serverVars == <<spc, offer, native, serverFormat, serverEncs, wanted, sent>>
connVars == <<config, minor, auth, rectsLeft, PixelFormat, Encs, ColorMap, failure, soft>>
userVars == <<upc, message, events>>
clientVars == <<serverVars, toClient, toServer, gone, closed, pc, connVars, userVars>>

(* ReadPixelFormat and WritePixelFormat, between a struct and 16 bytes:    *)
(* maxima and shifts are only there for true colour.                       *)
MutantAllRead(raw) == raw
ReadPixelFormat(raw) == IF raw.TrueColor THEN raw ELSE [raw EXCEPT !.shifts = "zero"]
WritePixelFormat(format) ==
  IF format.TrueColor THEN format ELSE [format EXCEPT !.shifts = "zero"]
ZeroFormat == [BPP |-> 0, TrueColor |-> FALSE, shifts |-> "zero"]

ConnInit ==
  /\ spc = "version" /\ offer = {} /\ native \in NativeFormats
  /\ serverFormat = native /\ serverEncs = {} /\ wanted = FALSE /\ sent = 0
  /\ toClient = <<>> /\ toServer = <<>> /\ gone = FALSE /\ closed = FALSE
  /\ pc = "version" /\ config \in Auths /\ minor = 0 /\ auth = 0 /\ rectsLeft = 0
  /\ PixelFormat = ZeroFormat /\ Encs = {} /\ ColorMap = "zero"
  /\ failure = "none" /\ soft = FALSE
  /\ upc = "handshake" /\ message = "none" /\ events = 0

(***************************************************************************)
(* Reading and writing.                                                    *)
(***************************************************************************)
Token(kind, value) == [k |-> kind, v |-> value]

Messages == {"update", "colors", "bell", "cut", "odd"}

(* The kinds of token the reader takes at pc, in the handshake and later.  *)
Expected(p) == IF p = "message" THEN Messages ELSE {p}
HandshakeReads == {"version", "types", "type", "challenge", "result", "reason", "init"}
Reads == HandshakeReads \cup {"message", "rect"}

Arrived(kind) == pc = kind /\ toClient # <<>> /\ Head(toClient).k \in Expected(pc)
Value == Head(toClient).v
Take == toClient' = Tail(toClient)

Send(tokens) == toServer' = toServer \o tokens
Answer(tokens) == toClient' = toClient \o tokens

(* An error: Client or the main loop closes the connection.                *)
Fail(why) == pc' = "failed" /\ failure' = why /\ closed' = TRUE

(* Client and handshake return whether the error is soft: the server may   *)
(* not be up yet.                                                          *)
ReadFails ==
  /\ pc \in Reads /\ (closed \/ (gone /\ toClient = <<>>))
  /\ Fail("gone") /\ soft' = (pc = "version")
  /\ UNCHANGED <<serverVars, toClient, toServer, gone, config, minor, auth, rectsLeft,
                 PixelFormat, Encs, ColorMap, userVars>>

(***************************************************************************)
(* The handshake.                                                          *)
(***************************************************************************)

(* handshake up to the answer; ParseProtocolVersion fails on <<>>.         *)
Minor == IF Value[2] = 8 THEN 8 ELSE 3
ReadVersion ==
  /\ Arrived("version") /\ Take
  /\ IF Value = <<>> \/ Value[1] < 3 \/ Value[2] < 3
       THEN Fail("version") /\ UNCHANGED <<toServer, minor>>
       ELSE /\ minor' = Minor
            /\ pc' = IF Minor = 8 THEN "types" ELSE "type"
            /\ Send(<<Token("version", Minor)>>)
            /\ UNCHANGED <<failure, closed>>
  /\ UNCHANGED <<serverVars, gone, config, auth, rectsLeft, PixelFormat, Encs, ColorMap,
                 soft, userVars>>

(* The first of the client's types the server has, if any; a program that  *)
(* gives no Auth gets ClientAuthNone.                                      *)
ClientSecurityTypes == IF config = <<>> THEN <<AuthNone>> ELSE config
MutantPreferred(offered) == Head(ClientSecurityTypes)
FirstMatch(offered) ==
  LET matching == {i \in DOMAIN ClientSecurityTypes : ClientSecurityTypes[i] \in offered}
  IN  IF matching = {} THEN 0 ELSE ClientSecurityTypes[Min(matching)]

(* Handshake of a ClientAuth, which is there: what is read next.           *)
MutantNoResult(t) == IF t = PasswordAuth THEN "challenge" ELSE "init"
Handshake(t) == IF t = PasswordAuth THEN "challenge" ELSE "result"

(* securityHandshakeVersion8 *)
ReadSecurityTypes ==
  /\ Arrived("types") /\ Take
  /\ IF Value = {}
       THEN pc' = "reason" /\ UNCHANGED <<auth, toServer, failure, closed>>
     ELSE IF FirstMatch(Value) = 0
       THEN Fail("auth") /\ UNCHANGED <<auth, toServer>>
     ELSE /\ auth' = FirstMatch(Value) /\ pc' = Handshake(auth')
          /\ Send(<<Token("choice", auth')>>)
          /\ UNCHANGED <<failure, closed>>
  /\ UNCHANGED <<serverVars, gone, config, minor, rectsLeft, PixelFormat, Encs, ColorMap,
                 soft, userVars>>

(* securityHandshakeVersion3: the server has chosen.                       *)
ReadSecurityType ==
  /\ Arrived("type") /\ Take
  /\ IF FirstMatch({Value}) = 0
       THEN Fail("auth") /\ UNCHANGED auth
       ELSE auth' = Value /\ pc' = Handshake(Value) /\ UNCHANGED <<failure, closed>>
  /\ UNCHANGED <<serverVars, toServer, gone, config, minor, rectsLeft, PixelFormat, Encs,
                 ColorMap, soft, userVars>>

(* PasswordAuth.Handshake: the challenge encrypted with the password.      *)
ReadChallenge ==
  /\ Arrived("challenge") /\ Take
  /\ Send(<<Token("response", 0)>>) /\ pc' = "result"
  /\ UNCHANGED <<serverVars, gone, closed, connVars, userVars>>

(* handshake: SecurityResult, and ClientInit.                              *)
MutantUnchecked(result) == FALSE
Refused(result) == result = 1
ReadSecurityResult ==
  /\ Arrived("result") /\ Take
  /\ IF Refused(Value)
       THEN pc' = "reason" /\ UNCHANGED toServer
       ELSE pc' = "init" /\ Send(<<Token("shared", 0)>>)
  /\ UNCHANGED <<serverVars, gone, closed, connVars, userVars>>

(* readErrorReason; without a reason, ReadFails, the error is the same.    *)
ReadReason ==
  /\ Arrived("reason") /\ Take /\ Fail("refused")
  /\ UNCHANGED <<serverVars, toServer, gone, config, minor, auth, rectsLeft, PixelFormat,
                 Encs, ColorMap, soft, userVars>>

(* ServerInit: Client starts the main loop and returns.                    *)
ReadServerInit ==
  /\ Arrived("init") /\ Take
  /\ PixelFormat' = ReadPixelFormat(Value)
  /\ pc' = "message" /\ upc' = "format"
  /\ UNCHANGED <<serverVars, toServer, gone, closed, config, minor, auth, rectsLeft, Encs,
                 ColorMap, failure, soft, message, events>>

(***************************************************************************)
(* The server, which is not part of the program.                           *)
(***************************************************************************)
Received(kind) == toServer # <<>> /\ Head(toServer).k = kind /\ toServer' = Tail(toServer)

(* An alternative of the server: it goes on, or answers and closes.        *)
Goes(p) == spc' = p /\ UNCHANGED gone
Leaves == spc' = "left" /\ gone' = TRUE

ServerHandshake ==
  /\ ~gone /\ ~closed
  /\ \/ /\ spc = "version" /\ Goes("reply")
        /\ \E version \in Versions : Answer(<<Token("version", version)>>)
        /\ UNCHANGED <<toServer, offer>>
     \/ /\ spc = "reply" /\ Received("version") /\ Head(toServer).v = 8
        /\ offer' \in SUBSET SecurityTypes
        /\ \/ /\ offer' # {} /\ Goes("choice")
              /\ Answer(<<Token("types", offer')>>)
           \/ /\ offer' = {} /\ Leaves
              /\ Answer(<<Token("types", {}), Token("reason", 0)>>)
     \/ /\ spc = "reply" /\ Received("version") /\ Head(toServer).v = 3
        /\ \/ /\ Leaves
              /\ Answer(<<Token("type", 0), Token("reason", 0)>>)
           \/ /\ Goes("shared")
              /\ Answer(<<Token("type", AuthNone)>>)
           \/ /\ Goes("response")
              /\ Answer(<<Token("type", PasswordAuth), Token("challenge", 0)>>)
           \/ /\ Goes("unknown")
              /\ Answer(<<Token("type", 16)>>)
        /\ UNCHANGED offer
     \/ /\ spc = "choice" /\ Received("choice") /\ Head(toServer).v \in offer
        /\ offer' = {}
        /\ \/ /\ Head(toServer).v = AuthNone /\ Goes("shared")
              /\ Answer(<<Token("result", 0)>>)
           \/ /\ Head(toServer).v = PasswordAuth /\ Goes("response")
              /\ Answer(<<Token("challenge", 0)>>)
     \/ /\ spc = "response" /\ Received("response")
        /\ \/ /\ Goes("shared") /\ Answer(<<Token("result", 0)>>)
           \/ /\ Leaves                  \* before 3.8, without a reason
              /\ Answer(<<Token("result", 1)>> \o
                        IF minor = 8 THEN <<Token("reason", 0)>> ELSE <<>>)
        /\ UNCHANGED offer
     \/ /\ spc = "shared" /\ Received("shared") /\ Goes("running")
        /\ Answer(<<Token("init", native)>>)
        /\ UNCHANGED offer
  /\ UNCHANGED <<native, serverFormat, serverEncs, wanted, sent, closed, pc, connVars,
                 userVars>>

(* It reads what the client sends: a cut text must be as long as announced. *)
ServerReceives ==
  /\ spc = "running" /\ ~gone /\ toServer # <<>>
  /\ LET t == Head(toServer) IN
       /\ serverFormat' = IF t.k = "format" THEN t.v ELSE serverFormat
       /\ serverEncs' = IF t.k = "encodings" THEN t.v ELSE serverEncs
       /\ wanted' = (wanted \/ t.k = "request")
       /\ spc' = IF t.k = "cut" /\ t.v[1] # t.v[2] THEN "out of step" ELSE spc
  /\ toServer' = Tail(toServer)
  /\ UNCHANGED <<offer, native, sent, toClient, gone, closed, pc, connVars, userVars>>

Rects == [enc : serverEncs \cup {"raw"}, format : {serverFormat}, huge : BOOLEAN]

(* An update answers a request; the other messages come at any time.  One  *)
(* more message than RFC 6143 has is "odd".                                *)
ServerSends ==
  /\ spc = "running" /\ ~gone /\ ~closed /\ sent < MaxSent /\ sent' = sent + 1
  /\ \/ /\ wanted /\ wanted' = FALSE
        /\ \E n \in 0..(RectLimit + 1) : \E rects \in [1..n -> Rects] :
             Answer(<<Token("update", n)>> \o [i \in 1..n |-> Token("rect", rects[i])])
     \/ /\ \E k \in {"bell", "cut", "odd"} : Answer(<<Token(k, 0)>>)
        /\ UNCHANGED wanted
     \/ /\ ~serverFormat.TrueColor
        /\ \E first \in IF serverFormat.BPP = 8 THEN {0} ELSE {0, 256} :
             Answer(<<Token("colors", first)>>)
        /\ UNCHANGED wanted
  /\ UNCHANGED <<spc, offer, native, serverFormat, serverEncs, toServer, gone, closed, pc,
                 connVars, userVars>>

ServerGoes ==
  /\ ~gone /\ gone' = TRUE
  /\ UNCHANGED <<serverVars, toClient, toServer, closed, pc, connVars, userVars>>

(***************************************************************************)
(* The main loop.                                                          *)
(***************************************************************************)
Deliver(m) == pc' = "deliver" /\ message' = m

(* mainLoop: the type of a message and, but for an update, the rest of it. *)
(* SetColorMapEntries indexes the 256 entries of ColorMap unchecked.       *)
ReadMessage ==
  /\ Arrived("message") /\ Take
  /\ LET t == Head(toClient) IN
     \/ /\ t.k = "update" /\ t.v > RectLimit
        /\ Fail("excessive") /\ UNCHANGED <<ColorMap, rectsLeft, message>>
     \/ /\ t.k = "update" /\ t.v \in 1..RectLimit
        /\ pc' = "rect" /\ rectsLeft' = t.v
        /\ UNCHANGED <<ColorMap, message, failure, closed>>
     \/ /\ t.k = "update" /\ t.v = 0
        /\ Deliver("update") /\ UNCHANGED <<ColorMap, rectsLeft, failure, closed>>
     \/ /\ t.k = "colors" /\ t.v < 256
        /\ ColorMap' = "server's" /\ Deliver("other")
        /\ UNCHANGED <<rectsLeft, failure, closed>>
     \/ /\ t.k = "colors" /\ t.v >= 256
        /\ pc' = "panic" /\ failure' = "index"
        /\ UNCHANGED <<ColorMap, rectsLeft, message, closed>>
     \/ /\ t.k \in {"bell", "cut"}
        /\ Deliver("other") /\ UNCHANGED <<ColorMap, rectsLeft, failure, closed>>
     \/ /\ t.k = "odd"
        /\ Fail("odd") /\ UNCHANGED <<ColorMap, rectsLeft, message>>
  /\ UNCHANGED <<serverVars, toServer, gone, config, minor, auth, PixelFormat, Encs, soft,
                 upc, events>>

(* Which formats of the connection a decoder takes, and whether it reads   *)
(* as many bytes as the server sent.                                       *)
MutantDepth(enc) == enc = "zrle" /\ PixelFormat.BPP # 24
Unsupported(enc) ==
  \/ enc = "zrle" /\ PixelFormat.BPP < 24
  \/ enc = "tight" /\ (PixelFormat.BPP # 32 \/ ~PixelFormat.TrueColor)
SameSize(rect) == rect.enc = "raw" => rect.format.BPP = PixelFormat.BPP

(* The encodings of encMap; raw is always there.                           *)
MutantOnlySet(encs) == encs
EncMap(encs) == encs \cup {"raw"}

(* FramebufferUpdateMessage.Read, one rectangle: a size beyond the limits  *)
(* and an unknown encoding are errors, and so is what its decoder refuses. *)
(* Pseudo-encodings are in Encs as well, but are of no rectangle.          *)
(* Pixels of another size than the server sent are misread: what becomes   *)
(* of them and of the rest, a colour past the end of ColorMap and its      *)
(* panic included (RawColor of RectangleData), is not followed further.    *)
RectError(rect) ==
  IF rect.huge THEN "excessive"
  ELSE IF rect.enc \notin EncMap(Encs) THEN "encoding"
  ELSE IF Unsupported(rect.enc) THEN "format" ELSE "none"

ReadRect ==
  /\ Arrived("rect") /\ Take
  /\ \/ /\ RectError(Value) # "none" /\ Fail(RectError(Value))
        /\ UNCHANGED <<rectsLeft, message>>
     \/ /\ RectError(Value) = "none" /\ ~SameSize(Value)
        /\ pc' = "garbled" /\ failure' = "format"
        /\ UNCHANGED <<rectsLeft, message, closed>>
     \/ /\ RectError(Value) = "none" /\ SameSize(Value)
        /\ rectsLeft' = rectsLeft - 1
        /\ IF rectsLeft = 1 THEN Deliver("update") ELSE UNCHANGED <<pc, message>>
        /\ UNCHANGED <<failure, closed>>
  /\ UNCHANGED <<serverVars, toServer, gone, config, minor, auth, PixelFormat, Encs, ColorMap,
                 soft, upc, events>>

(***************************************************************************)
(* The goroutine of connect, and the agent.                                *)
(***************************************************************************)
Write(tokens) == ~closed /\ Send(tokens)

(* A write to a server that is gone, or after the main loop closed the     *)
(* connection.  Before the loop, connect returns an error and closes it.   *)
WriteFails ==
  /\ upc \in {"format", "encodings", "request"} /\ (gone \/ closed)
  /\ upc' = "failed" /\ closed' = TRUE
  /\ UNCHANGED <<serverVars, toClient, toServer, gone, pc, connVars, message, events>>

(* SetPixelFormat: the message, and then the reset of the colour map.      *)
SetPixelFormat ==
  /\ upc = "format" /\ upc' = "reset"
  /\ Write(<<Token("format", WritePixelFormat(RGB32))>>)
  /\ UNCHANGED <<serverVars, toClient, gone, closed, pc, connVars, message, events>>

ResetColorMap ==
  /\ upc = "reset" /\ upc' = "encodings" /\ ColorMap' = "zero"
  /\ UNCHANGED <<serverVars, toClient, toServer, gone, closed, pc, config, minor, auth,
                 rectsLeft, PixelFormat, Encs, failure, soft, message, events>>

(* SetEncodings: the message, and then what the main loop looks up.        *)
SetEncodings ==
  /\ upc = "encodings" /\ upc' = "store"
  /\ Write(<<Token("encodings", Encodings)>>)
  /\ UNCHANGED <<serverVars, toClient, gone, closed, pc, connVars, message, events>>

MutantNotStored(encs) == {}
Stored(encs) == encs
StoreEncodings ==
  /\ upc = "store" /\ upc' = "request" /\ Encs' = Stored(Encodings)
  /\ UNCHANGED <<serverVars, toClient, toServer, gone, closed, pc, config, minor, auth,
                 rectsLeft, PixelFormat, ColorMap, failure, soft, message, events>>

FramebufferUpdateRequest ==
  /\ upc \in {"request", "again"} /\ upc' = "loop"
  /\ Write(<<Token("request", 0)>>)
  /\ UNCHANGED <<serverVars, toClient, gone, closed, pc, connVars, message, events>>

(* connect receives a message from the main loop and, after an update,     *)
(* requests the next one.                                                  *)
ReceiveMessage ==
  /\ upc = "loop" /\ pc = "deliver" /\ pc' = "message"
  /\ upc' = IF message = "update" THEN "again" ELSE "loop"
  /\ message' = "none"
  /\ UNCHANGED <<serverVars, toClient, toServer, gone, closed, connVars, events>>

(* In the loop, a request that fails is only reported: nothing is closed,  *)
(* and connect goes on receiving from the main loop.                       *)
RerequestFails ==
  /\ upc = "again" /\ (gone \/ closed) /\ upc' = "loop"
  /\ UNCHANGED <<serverVars, toClient, toServer, gone, closed, pc, connVars, message, events>>

(* Texts: characters of one byte, of two bytes, or not of Latin-1.  A text *)
(* announces and sends its length in bytes, the bytes written for its      *)
(* characters and whatever follows them in the buffer, if there is room.   *)
MutantOnlyWritten(text) == <<2, IF text = "accents" THEN 1 ELSE 2>>
CutTextSizes(text) == <<2, 2>>

CutText(text) ==
  \/ /\ text # "other"
     /\ Write(<<Token("cut", CutTextSizes(text))>>) /\ UNCHANGED <<pc, failure>>
  \/ /\ text = "other" /\ UNCHANGED <<toServer, pc, failure>>
  \/ /\ text = "accents" /\ pc' = "panic" /\ failure' = "slice"
     /\ UNCHANGED toServer

(* Events of the agent, once the connection was made visible.              *)
AgentEvent ==
  /\ upc \in {"request", "loop", "again"} /\ pc # "panic" /\ ~closed /\ events < MaxEvents
  /\ events' = events + 1
  /\ \/ /\ \E k \in {"key", "pointer"} : Write(<<Token(k, 0)>>)   \* KeyEvent, PointerEvent
        /\ UNCHANGED <<pc, failure>>
     \/ \E text \in {"plain", "accents", "other"} : CutText(text)
  /\ UNCHANGED <<serverVars, toClient, gone, closed, config, minor, auth, rectsLeft,
                 PixelFormat, Encs, ColorMap, soft, upc, message>>

(***************************************************************************)
(* The specification.                                                      *)
(***************************************************************************)
ClientHandshake ==
  \/ ReadVersion \/ ReadSecurityTypes \/ ReadSecurityType \/ ReadChallenge
  \/ ReadSecurityResult \/ ReadReason \/ ReadServerInit

Connect ==
  \/ WriteFails \/ SetPixelFormat \/ ResetColorMap \/ SetEncodings \/ StoreEncodings
  \/ FramebufferUpdateRequest \/ ReceiveMessage \/ RerequestFails

Server == ServerHandshake \/ ServerReceives \/ ServerSends \/ ServerGoes

ConnNext ==
  /\ pc # "panic"
  /\ \/ ClientHandshake \/ ReadFails
     \/ ReadMessage \/ ReadRect
     \/ Connect \/ AgentEvent
     \/ Server

(* The client goes on reading, and a server that is there goes on          *)
(* answering in the handshake.                                             *)
ConnSpec ==
  /\ ConnInit /\ [][ConnNext]_clientVars
  /\ WF_clientVars(ClientHandshake \/ ReadFails) /\ WF_clientVars(ServerHandshake)

(***************************************************************************)
(* Properties.                                                             *)
(***************************************************************************)

(* Every variable holds values of its kind; a format without true colour   *)
(* has none of the shifts that ReadPixelFormat does not read.              *)
ConnTypeOK ==
  /\ pc \in Reads \cup {"deliver", "failed", "panic", "garbled"}
  /\ minor \in {0, 3, 8} /\ auth \in {0, AuthNone, PasswordAuth}
  /\ rectsLeft \in 0..RectLimit /\ (pc = "rect" => rectsLeft > 0)
  /\ PixelFormat.TrueColor \/ PixelFormat.shifts = "zero"
  /\ Encs \subseteq {"raw", "zrle", "tight"} /\ ColorMap \in {"zero", "server's"}
  /\ upc \in {"handshake", "format", "reset", "encodings", "store", "request", "loop", "again", "failed"}
  /\ message \in {"none", "update", "other"}
  /\ soft \in BOOLEAN /\ gone \in BOOLEAN /\ closed \in BOOLEAN /\ wanted \in BOOLEAN

(* Neither end ever takes one message for another: through every version,  *)
(* choice of security and refusal of the handshake, and afterwards, each   *)
(* read finds what it expects, and a cut text is as long as it announces.  *)
InStep ==
  /\ pc \in Reads /\ toClient # <<>> => Head(toClient).k \in Expected(pc)
  /\ spc # "out of step"

(* Every rectangle comes in an encoding that FramebufferUpdateMessage.Read *)
(* finds in its map: SetEncodings stores the encodings after it announced  *)
(* them, while the main loop already reads, but before the first request.  *)
EncodingsKnown == failure # "encoding"

(* With a server whose own format is true colour in 32 bits, no update is  *)
(* refused or misread and no colour map overflows, whatever the encoding.  *)
OnlyForeignRefused ==
  failure \in {"format", "index"} => native.BPP # 32 \/ ~native.TrueColor

(* The handshake ends, with a connection or an error, unless the server    *)
(* speaks version 3.3 and asks for no authentication: it sends no result   *)
(* then, and each end waits for the other.                                 *)
HandshakeEnds ==
  <>(pc \notin HandshakeReads \/ (minor = 3 /\ auth = AuthNone /\ spc = "shared"))

(* Raw pixels are read in the format they were sent in: "If you wish to    *)
(* set a new pixel format, use the SetPixelFormat method" (client.go).     *)
FormatHonoured ==
  Arrived("rect") /\ Value.enc = "raw" => Value.format = PixelFormat

=============================================================================
