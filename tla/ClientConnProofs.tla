-------------------------- MODULE ClientConnProofs --------------------------
(***************************************************************************)
(* Proofs about ClientConn: what the client has set up fits what the       *)
(* server sends, and neither end ever takes one message for another.       *)
(*                                                                         *)
(* The first argument follows the tokens: none of the server's rectangles  *)
(* is under way before the client has stored its encodings, because none   *)
(* is sent before a request, and no request before that.                   *)
(* The second follows the two ends: at each step of the handshake it says  *)
(* where the server is and what is under way, and afterwards that what the *)
(* reader has before it is the rest of its update and then whole messages. *)
(***************************************************************************)
EXTENDS ClientConn, DataLemmas

(* The tokens of a stream, and that it is a sequence of any.               *)
Tokens(s) == {s[i] : i \in 1..Len(s)}
Stream(s) == \E T : s \in Seq(T)

LEMMA EmptyStream == Stream(<<>>) /\ Tokens(<<>>) = {}
BY DEF Stream, Tokens

LEMMA OneToken ==
  ASSUME NEW t
  PROVE  Stream(<<t>>) /\ Tokens(<<t>>) = {t}
<1>1. <<t>> \in Seq({t}) /\ Len(<<t>>) = 1 /\ <<t>>[1] = t
  OBVIOUS
<1>2. 1..1 = {1}
  OBVIOUS
<1>3. Tokens(<<t>>) = {<<t>>[i] : i \in {1}}
  BY <1>1, <1>2 DEF Tokens
<1> QED  BY <1>1, <1>3 DEF Stream

LEMMA TailOfStream ==
  ASSUME NEW s, Stream(s), s # <<>>
  PROVE  Stream(Tail(s)) /\ Tokens(Tail(s)) \subseteq Tokens(s) /\ Head(s) \in Tokens(s)
<1>1. PICK T : s \in Seq(T)
  BY DEF Stream
<1>2. Len(s) \in Nat /\ Len(s) > 0
  BY <1>1
<1>3. Tail(s) \in Seq(T) /\ Len(Tail(s)) = Len(s) - 1
  BY <1>1
<1>4. \A i \in 1..Len(s) - 1 : Tail(s)[i] = s[i + 1] /\ i + 1 \in 1..Len(s)
  BY <1>1, <1>2
<1>5. Head(s) = s[1] /\ 1 \in 1..Len(s)
  BY <1>1, <1>2
<1> QED  BY <1>3, <1>4, <1>5 DEF Stream, Tokens

LEMMA JoinedStreams ==
  ASSUME NEW s, NEW t, Stream(s), Stream(t)
  PROVE  Stream(s \o t) /\ Tokens(s \o t) = Tokens(s) \cup Tokens(t)
<1>1. PICK S : s \in Seq(S)
  BY DEF Stream
<1>2. PICK T : t \in Seq(T)
  BY DEF Stream
<1>3. s \in Seq(S \cup T) /\ t \in Seq(S \cup T)
  BY <1>1, <1>2
<1>4. s \o t \in Seq(S \cup T) /\ Len(s \o t) = Len(s) + Len(t)
  BY <1>3
<1>5. Len(s) \in Nat /\ Len(t) \in Nat
  BY <1>1, <1>2
<1>6. \A i \in 1..Len(s) + Len(t) :
        (s \o t)[i] = IF i <= Len(s) THEN s[i] ELSE t[i - Len(s)]
  BY <1>3
<1>7. \A i \in 1..Len(s) : i \in 1..Len(s) + Len(t) /\ i <= Len(s)
  BY <1>5
<1>8. \A j \in 1..Len(t) : /\ j + Len(s) \in 1..Len(s) + Len(t) /\ ~(j + Len(s) <= Len(s))
                           /\ (j + Len(s)) - Len(s) = j
  BY <1>5
<1>9. \A i \in 1..Len(s) + Len(t) : i <= Len(s) \/ i - Len(s) \in 1..Len(t)
  BY <1>5
<1>10. Tokens(s \o t) \subseteq Tokens(s) \cup Tokens(t)
  BY <1>4, <1>5, <1>6, <1>9 DEF Tokens
<1>11. Tokens(s) \subseteq Tokens(s \o t)
  BY <1>4, <1>6, <1>7 DEF Tokens
<1>12. Tokens(t) \subseteq Tokens(s \o t)
  BY <1>4, <1>6, <1>8 DEF Tokens
<1> QED  BY <1>4, <1>10, <1>11, <1>12 DEF Stream

LEMMA StreamOf ==
  ASSUME NEW n \in Nat, NEW f, f = [i \in 1..n |-> f[i]]
  PROVE  Stream(f) /\ Tokens(f) = {f[i] : i \in 1..n}
<1>1. f \in Seq({f[i] : i \in 1..n}) /\ Len(f) = n
  OBVIOUS
<1> QED  BY <1>1 DEF Stream, Tokens

LEMMA TwoTokens ==
  ASSUME NEW t, NEW u
  PROVE  Stream(<<t, u>>) /\ Tokens(<<t, u>>) = {t, u}
<1>1. <<t, u>> \in Seq({t, u}) /\ Len(<<t, u>>) = 2 /\ <<t, u>>[1] = t /\ <<t, u>>[2] = u
  OBVIOUS
<1>2. 1..2 = {1, 2}
  OBVIOUS
<1>3. Tokens(<<t, u>>) = {<<t, u>>[i] : i \in {1, 2}}
  BY <1>1, <1>2 DEF Tokens
<1> QED  BY <1>1, <1>3 DEF Stream

LEMMA TwoJoined ==
  ASSUME NEW t, NEW u
  PROVE  <<t>> \o <<u>> = <<t, u>>
<1> DEFINE r == <<t>>
           s == <<u>>
           both == <<t, u>>
<1>1. /\ r \in Seq({t, u}) /\ Len(r) = 1 /\ r[1] = t
      /\ s \in Seq({t, u}) /\ Len(s) = 1 /\ s[1] = u
  OBVIOUS
<1>2. both \in Seq({t, u}) /\ Len(both) = 2 /\ both[1] = t /\ both[2] = u
  OBVIOUS
<1> HIDE DEF r, s, both
<1>3. /\ r \o s \in Seq({t, u}) /\ Len(r \o s) = Len(r) + Len(s)
      /\ \A i \in 1..Len(r) + Len(s) :
           (r \o s)[i] = IF i <= Len(r) THEN r[i] ELSE s[i - Len(r)]
  BY <1>1, ConcatProperties
<1>4. 1 \in 1..Len(r) + Len(s) /\ 2 \in 1..Len(r) + Len(s) /\ Len(r) + Len(s) = 2
  BY <1>1
<1>5. (r \o s)[1] = t /\ (r \o s)[2] = u
  BY <1>1, <1>3, <1>4
<1>6. \A i \in 1..2 : i = 1 \/ i = 2
  OBVIOUS
<1>7. r \o s = both
  BY <1>2, <1>3, <1>4, <1>5, <1>6, SeqEqual
<1> QED  BY <1>7 DEF r, s, both

LEMMA ShortStreams ==
  ASSUME NEW t, NEW u
  PROVE  /\ <<t>> # <<>> /\ Head(<<t>>) = t /\ Tail(<<t>>) = <<>>
         /\ <<t, u>> # <<>> /\ Head(<<t, u>>) = t /\ Tail(<<t, u>>) = <<u>>
         /\ <<>> \o <<t>> = <<t>> /\ <<>> \o <<t, u>> = <<t, u>>
         /\ <<t>> \o <<>> = <<t>> /\ <<t>> \o <<u>> = <<t, u>>
<1>1. /\ <<t>> # <<>> /\ Head(<<t>>) = t /\ Tail(<<t>>) = <<>>
  OBVIOUS
<1>2. <<t, u>> # <<>> /\ Head(<<t, u>>) = t /\ Tail(<<t, u>>) = <<u>>
  OBVIOUS
<1>3. /\ <<>> \o <<t>> = <<t>> /\ <<t>> \o <<>> = <<t>>
  OBVIOUS
<1>4. <<>> \o <<t, u>> = <<t, u>>
  OBVIOUS
<1>5. <<t>> \o <<u>> = <<t, u>>
  BY TwoJoined
<1> QED  BY <1>1, <1>2, <1>3, <1>4, <1>5

LEMMA HeadTailJoined ==
  ASSUME NEW s, NEW t, Stream(s), Stream(t), s # <<>>
  PROVE  s \o t # <<>> /\ Head(s \o t) = Head(s) /\ Tail(s \o t) = Tail(s) \o t
<1>1. PICK S : s \in Seq(S)
  BY DEF Stream
<1>2. PICK T : t \in Seq(T)
  BY DEF Stream
<1> DEFINE U == S \cup T
           u == s \o t
           v == Tail(s) \o t
<1>3. s \in Seq(U) /\ t \in Seq(U)
  BY <1>1, <1>2
<1> HIDE DEF U
<1>4. /\ Len(s) \in Nat /\ Len(t) \in Nat /\ Len(s) > 0
      /\ Tail(s) \in Seq(U) /\ Len(Tail(s)) = Len(s) - 1 /\ Head(s) = s[1]
      /\ \A i \in 1..Len(s) - 1 : Tail(s)[i] = s[i + 1]
  BY <1>3
<1>5. /\ u \in Seq(U) /\ Len(u) = Len(s) + Len(t)
      /\ \A i \in 1..Len(s) + Len(t) : u[i] = IF i <= Len(s) THEN s[i] ELSE t[i - Len(s)]
  BY <1>3, ConcatProperties
<1>6. /\ v \in Seq(U) /\ Len(v) = (Len(s) - 1) + Len(t)
      /\ \A i \in 1..(Len(s) - 1) + Len(t) :
           v[i] = IF i <= Len(s) - 1 THEN Tail(s)[i] ELSE t[i - (Len(s) - 1)]
  BY <1>3, <1>4, ConcatProperties
<1> HIDE DEF u, v
<1>7. u # <<>> /\ Head(u) = u[1] /\ u[1] = s[1]
  BY <1>4, <1>5
<1>8. /\ Tail(u) \in Seq(U) /\ Len(Tail(u)) = Len(u) - 1
      /\ \A i \in 1..Len(u) - 1 : Tail(u)[i] = u[i + 1]
  BY <1>5, <1>7
<1>9. ASSUME NEW i \in 1..Len(v)
      PROVE  Tail(u)[i] = v[i]
  <2>1. /\ i \in 1..Len(u) - 1 /\ i + 1 \in 1..Len(s) + Len(t)
        /\ i \in 1..(Len(s) - 1) + Len(t)
    BY <1>4, <1>5, <1>6
  <2>2. CASE i <= Len(s) - 1
    <3>1. i \in 1..Len(s) - 1 /\ i + 1 <= Len(s)
      BY <1>4, <2>1, <2>2
    <3> QED  BY <1>4, <1>5, <1>6, <1>8, <2>1, <2>2, <3>1
  <2>3. CASE ~(i <= Len(s) - 1)
    <3>1. ~(i + 1 <= Len(s)) /\ (i + 1) - Len(s) = i - (Len(s) - 1)
      BY <1>4, <2>1, <2>3
    <3>2. Tail(u)[i] = t[(i + 1) - Len(s)]
      BY <1>5, <1>8, <2>1, <3>1
    <3>3. v[i] = t[i - (Len(s) - 1)]
      BY <1>6, <2>1, <2>3
    <3> QED  BY <3>1, <3>2, <3>3
  <2> QED  BY <2>2, <2>3
<1>10. Len(Tail(u)) = Len(v)
  BY <1>4, <1>5, <1>6, <1>8
<1>11. Tail(u) = v
  BY <1>6, <1>8, <1>9, <1>10, SeqEqual
<1> QED  BY <1>4, <1>7, <1>11 DEF u, v

-----------------------------------------------------------------------------
(* A server whose own format is what the client asks for, up to the order  *)
(* of the colours.                                                         *)
Usual == native.BPP = 32 /\ native.TrueColor

StoredAll == Encs = Encodings

(* What the tokens under way say.                                          *)
FromServer(t) ==
  /\ t.k = "init" => t.v = native
  /\ t.k = "colors" => ~Usual
  /\ t.k = "rect" => /\ StoredAll /\ t.v.enc \in Encodings \cup {"raw"}
                     /\ (Usual => t.v.format.BPP = 32)

FromClient(t) ==
  /\ t.k = "format" => t.v = RGB32
  /\ t.k = "encodings" => t.v = Encodings
  /\ t.k = "request" => StoredAll
  /\ t.k = "cut" => t.v[1] = t.v[2]

ServerStream == Stream(toClient) /\ \A t \in Tokens(toClient) : FromServer(t)
ClientStream == Stream(toServer) /\ \A t \in Tokens(toServer) : FromClient(t)

(* Requests, and a client that goes on, show that the encodings are stored. *)
Requests ==
  /\ wanted => StoredAll
  /\ upc \in {"request", "loop", "again"} => StoredAll
  /\ serverEncs \subseteq Encodings

(* Both ends of a usual connection keep to 32 bits.                        *)
Formats ==
  Usual => /\ serverFormat.BPP = 32 /\ serverFormat.TrueColor
           /\ pc \in {"message", "rect", "deliver"} =>
                PixelFormat.BPP = 32 /\ PixelFormat.TrueColor

SetupInv ==
  /\ ServerStream /\ ClientStream
  /\ Requests /\ Formats
  /\ EncodingsKnown /\ OnlyForeignRefused
  /\ spc # "out of step"

-----------------------------------------------------------------------------
(* The streams, through what a step does to them.                          *)

Kept == native' = native /\ (StoredAll => StoredAll')

LEMMA TokensKept ==
  ASSUME Kept, NEW t
  PROVE  /\ FromServer(t) => FromServer(t)'
         /\ FromClient(t) => FromClient(t)'
BY DEF Kept, FromServer, FromClient, Usual, StoredAll

LEMMA ServerStreamSame ==
  ASSUME ServerStream, Kept, toClient' = toClient
  PROVE  ServerStream'
BY TokensKept DEF ServerStream

LEMMA ServerStreamTaken ==
  ASSUME ServerStream, Kept, toClient # <<>>, toClient' = Tail(toClient)
  PROVE  ServerStream' /\ FromServer(Head(toClient))
BY TokensKept, TailOfStream DEF ServerStream

(* What the server may add.                                                *)
Fits(s) == Stream(s) /\ \A t \in Tokens(s) : FromServer(t)

LEMMA ServerStreamAdded ==
  ASSUME ServerStream, Kept, NEW s, Fits(s), toClient' = toClient \o s
  PROVE  ServerStream'
BY TokensKept, JoinedStreams DEF ServerStream, Fits

LEMMA FitsTokens ==
  ASSUME NEW t, FromServer(t)
  PROVE  Fits(<<t>>) /\ \A u : FromServer(u) => Fits(<<t, u>>)
<1>1. Fits(<<t>>)
  <2> DEFINE s == <<t>>
  <2>1. Stream(s) /\ Tokens(s) = {t}
    BY OneToken
  <2> HIDE DEF s
  <2>2. Fits(s)
    BY <2>1 DEF Fits
  <2> QED  BY <2>2 DEF s
<1>2. ASSUME NEW u, FromServer(u)
      PROVE  Fits(<<t, u>>)
  <2> DEFINE s == <<t, u>>
  <2>1. Stream(s) /\ Tokens(s) = {t, u}
    BY TwoTokens
  <2> HIDE DEF s
  <2>2. Fits(s)
    BY <1>2, <2>1 DEF Fits
  <2> QED  BY <2>2 DEF s
<1> QED  BY <1>1, <1>2

LEMMA FitsJoined ==
  ASSUME NEW s, NEW t, Fits(s), Fits(t)
  PROVE  Fits(s \o t)
BY JoinedStreams DEF Fits

LEMMA ClientStreamSame ==
  ASSUME ClientStream, Kept, toServer' = toServer
  PROVE  ClientStream'
BY TokensKept DEF ClientStream

LEMMA ClientStreamTaken ==
  ASSUME ClientStream, Kept, toServer # <<>>, toServer' = Tail(toServer)
  PROVE  ClientStream' /\ FromClient(Head(toServer))
BY TokensKept, TailOfStream DEF ClientStream

LEMMA ClientStreamAdded ==
  ASSUME ClientStream, Kept, NEW t, toServer' = toServer \o <<t>>, FromClient(t)
  PROVE  ClientStream'
BY TokensKept, OneToken, JoinedStreams DEF ClientStream

-----------------------------------------------------------------------------
LEMMA SetupInitially == ConnInit => SetupInv
BY EmptyStream DEF ConnInit, SetupInv, ServerStream, ClientStream, Requests, Formats,
   Usual, EncodingsKnown, OnlyForeignRefused

(* What a step needs when it leaves the streams' other facts alone.        *)
LEMMA SetupFrom ==
  ASSUME SetupInv, ServerStream', ClientStream', native' = native,
         serverEncs' = serverEncs, wanted' = wanted, serverFormat' = serverFormat,
         StoredAll => StoredAll', spc' = "out of step" => spc = "out of step",
         upc' \in {"request", "loop", "again"} =>
           upc \in {"request", "loop", "again"} \/ StoredAll',
         pc' \in {"message", "rect", "deliver"} =>
           pc \in {"message", "rect", "deliver"} /\ PixelFormat' = PixelFormat,
         failure' # failure => failure' \notin {"encoding", "format", "index"}
  PROVE  SetupInv'
BY DEF SetupInv, Requests, Formats, Usual, EncodingsKnown, OnlyForeignRefused, StoredAll

LEMMA HandshakeStep ==
  ASSUME SetupInv, ClientHandshake
  PROVE  SetupInv'
<1>1. ServerStream /\ ClientStream
  BY DEF SetupInv
<1>2. Kept
  BY DEF ClientHandshake, ReadVersion, ReadSecurityTypes, ReadSecurityType, ReadChallenge,
     ReadSecurityResult, ReadReason, ReadServerInit, Kept, connVars, serverVars, StoredAll
<1>3. toClient # <<>> /\ toClient' = Tail(toClient)
  BY DEF ClientHandshake, ReadVersion, ReadSecurityTypes, ReadSecurityType, ReadChallenge,
     ReadSecurityResult, ReadReason, ReadServerInit, Arrived, Take
<1>4. ServerStream' /\ FromServer(Head(toClient))
  BY <1>1, <1>2, <1>3, ServerStreamTaken
<1>5. \A kind \in {"version", "choice", "response", "shared"} : \A v :
        FromClient(Token(kind, v))
  BY DEF FromClient, Token
<1>6. CASE ReadVersion
  <2>1. toServer' = toServer \/ toServer' = toServer \o <<Token("version", Minor)>>
    BY <1>6 DEF ReadVersion, Send
  <2>2. ClientStream'
    BY <1>1, <1>2, <1>5, <2>1, ClientStreamSame, ClientStreamAdded
  <2> QED  BY <1>4, <1>6, <2>2, SetupFrom DEF ReadVersion, Fail, serverVars, userVars,
               StoredAll
<1>7. CASE ReadSecurityTypes
  <2>1. toServer' = toServer \/ toServer' = toServer \o <<Token("choice", auth')>>
    BY <1>7 DEF ReadSecurityTypes, Send
  <2>2. ClientStream'
    BY <1>1, <1>2, <1>5, <2>1, ClientStreamSame, ClientStreamAdded
  <2> QED  BY <1>4, <1>7, <2>2, SetupFrom DEF ReadSecurityTypes, Fail, serverVars, userVars,
               StoredAll, Handshake
<1>8. CASE ReadSecurityType
  <2>2. ClientStream'
    BY <1>1, <1>2, <1>8, ClientStreamSame DEF ReadSecurityType
  <2> QED  BY <1>4, <1>8, <2>2, SetupFrom DEF ReadSecurityType, Fail, serverVars, userVars,
               StoredAll, Handshake
<1>9. CASE ReadChallenge
  <2>2. ClientStream'
    BY <1>1, <1>2, <1>5, <1>9, ClientStreamAdded DEF ReadChallenge, Send
  <2> QED  BY <1>4, <1>9, <2>2, SetupFrom DEF ReadChallenge, serverVars, userVars, connVars,
               StoredAll
<1>10. CASE ReadSecurityResult
  <2>1. toServer' = toServer \/ toServer' = toServer \o <<Token("shared", 0)>>
    BY <1>10 DEF ReadSecurityResult, Send
  <2>2. ClientStream'
    BY <1>1, <1>2, <1>5, <2>1, ClientStreamSame, ClientStreamAdded
  <2> QED  BY <1>4, <1>10, <2>2, SetupFrom DEF ReadSecurityResult, serverVars, userVars,
               connVars, StoredAll
<1>11. CASE ReadReason
  <2>2. ClientStream'
    BY <1>1, <1>2, <1>11, ClientStreamSame DEF ReadReason
  <2> QED  BY <1>4, <1>11, <2>2, SetupFrom DEF ReadReason, Fail, serverVars, userVars,
               StoredAll
<1>12. CASE ReadServerInit
  <2>1. ClientStream'
    BY <1>1, <1>2, <1>12, ClientStreamSame DEF ReadServerInit
  <2>2. Value = native
    BY <1>4, <1>12 DEF ReadServerInit, Arrived, Expected, FromServer, Value
  <2>3. Usual => PixelFormat' = native
    BY <1>12, <2>2 DEF ReadServerInit, ReadPixelFormat, Usual
  <2> QED  BY <1>4, <1>12, <2>1, <2>3 DEF ReadServerInit, SetupInv, Requests, Formats, Usual,
               EncodingsKnown, OnlyForeignRefused, StoredAll, serverVars
<1> QED  BY <1>6, <1>7, <1>8, <1>9, <1>10, <1>11, <1>12 DEF ClientHandshake

LEMMA ReadFailsStep ==
  ASSUME SetupInv, ReadFails
  PROVE  SetupInv'
<1>1. ServerStream' /\ ClientStream'
  BY ServerStreamSame, ClientStreamSame
     DEF SetupInv, ReadFails, serverVars, Kept, StoredAll
<1> QED  BY <1>1, SetupFrom DEF ReadFails, Fail, serverVars, userVars, StoredAll

LEMMA ReadMessageStep ==
  ASSUME SetupInv, ReadMessage
  PROVE  SetupInv'
<1>1. Kept /\ toClient # <<>> /\ toClient' = Tail(toClient) /\ toServer' = toServer
  BY DEF ReadMessage, Arrived, Take, Kept, serverVars, StoredAll
<1>2. ServerStream' /\ ClientStream' /\ FromServer(Head(toClient))
  BY <1>1, ServerStreamTaken, ClientStreamSame DEF SetupInv
<1>3. CASE Head(toClient).k = "colors"
  <2>1. ~Usual
    BY <1>2, <1>3 DEF FromServer
  <2>2. failure' \in {failure, "index"}
    BY <1>3 DEF ReadMessage
  <2> QED  BY <1>1, <1>2, <1>3, <2>1, <2>2
            DEF ReadMessage, SetupInv, Requests, Formats, Usual, EncodingsKnown,
                OnlyForeignRefused, StoredAll, serverVars
<1>4. CASE Head(toClient).k # "colors"
  <2>1. failure' \in {failure, "excessive", "odd"}
    BY <1>4 DEF ReadMessage, Fail
  <2>2. pc = "message"
    BY DEF ReadMessage, Arrived
  <2> QED  BY <1>2, <2>1, <2>2, SetupFrom DEF ReadMessage, serverVars, StoredAll
<1> QED  BY <1>3, <1>4

(* What the decoders refuse, and what they misread, is not what a usual    *)
(* server sends.                                                           *)
LEMMA ReadRectStep ==
  ASSUME SetupInv, ReadRect
  PROVE  SetupInv'
<1>1. Kept /\ toClient # <<>> /\ toClient' = Tail(toClient) /\ toServer' = toServer
  BY DEF ReadRect, Arrived, Take, Kept, serverVars, StoredAll
<1>2. ServerStream' /\ ClientStream' /\ FromServer(Head(toClient))
  BY <1>1, ServerStreamTaken, ClientStreamSame DEF SetupInv
<1>3. /\ StoredAll /\ Value.enc \in Encodings \cup {"raw"}
      /\ (Usual => Value.format.BPP = 32)
  BY <1>2 DEF ReadRect, Arrived, Expected, FromServer, Value
<1>4. Usual => PixelFormat.BPP = 32 /\ PixelFormat.TrueColor
  BY DEF SetupInv, Formats, ReadRect, Arrived
<1>5. RectError(Value) \in {"excessive", "format", "none"}
  BY <1>3 DEF RectError, EncMap, StoredAll
<1>6. Usual => RectError(Value) # "format" /\ SameSize(Value)
  BY <1>3, <1>4 DEF RectError, Unsupported, SameSize
<1>7. \/ failure' = failure
      \/ RectError(Value) # "none" /\ failure' = RectError(Value)
      \/ ~SameSize(Value) /\ failure' = "format"
  BY DEF ReadRect, Fail
<1>8. EncodingsKnown' /\ OnlyForeignRefused'
  <2>1. native' = native
    BY <1>1 DEF Kept
  <2> QED  BY <1>5, <1>6, <1>7, <2>1 DEF SetupInv, EncodingsKnown, OnlyForeignRefused, Usual
<1>9. pc = "rect" /\ PixelFormat' = PixelFormat
  BY DEF ReadRect, Arrived
<1> QED  BY <1>2, <1>4, <1>8, <1>9
          DEF ReadRect, SetupInv, Requests, Formats, Usual, StoredAll, serverVars

-----------------------------------------------------------------------------
LEMMA ConnectStep ==
  ASSUME SetupInv, Connect
  PROVE  SetupInv'
<1>1. Kept /\ toClient' = toClient
  BY DEF Connect, WriteFails, SetPixelFormat, ResetColorMap, SetEncodings, StoreEncodings,
     Stored, FramebufferUpdateRequest, ReceiveMessage, RerequestFails,
     Kept, serverVars, connVars, StoredAll
<1>2. ServerStream'
  BY <1>1, ServerStreamSame DEF SetupInv
<1>3. CASE WriteFails
  <2>1. ClientStream'
    BY <1>1, <1>3, ClientStreamSame DEF WriteFails, SetupInv
  <2> QED  BY <1>2, <1>3, <2>1, SetupFrom DEF WriteFails, serverVars, connVars, StoredAll
<1>4. CASE SetPixelFormat
  <2>1. FromClient(Token("format", WritePixelFormat(RGB32)))
    BY DEF FromClient, Token, WritePixelFormat, RGB32
  <2>2. ClientStream'
    BY <1>1, <1>4, <2>1, ClientStreamAdded DEF SetPixelFormat, Write, Send, SetupInv
  <2> QED  BY <1>2, <1>4, <2>2, SetupFrom DEF SetPixelFormat, serverVars, connVars, StoredAll
<1>5. CASE ResetColorMap
  <2>1. ClientStream'
    BY <1>1, <1>5, ClientStreamSame DEF ResetColorMap, SetupInv
  <2> QED  BY <1>2, <1>5, <2>1, SetupFrom DEF ResetColorMap, serverVars, StoredAll
<1>6. CASE SetEncodings
  <2>1. FromClient(Token("encodings", Encodings))
    BY DEF FromClient, Token
  <2>2. ClientStream'
    BY <1>1, <1>6, <2>1, ClientStreamAdded DEF SetEncodings, Write, Send, SetupInv
  <2> QED  BY <1>2, <1>6, <2>2, SetupFrom DEF SetEncodings, serverVars, connVars, StoredAll
<1>7. CASE StoreEncodings
  <2>1. ClientStream'
    BY <1>1, <1>7, ClientStreamSame DEF StoreEncodings, SetupInv
  <2>2. StoredAll'
    BY <1>7 DEF StoreEncodings, Stored, StoredAll
  <2> QED  BY <1>2, <1>7, <2>1, <2>2, SetupFrom DEF StoreEncodings, serverVars, StoredAll
<1>8. CASE FramebufferUpdateRequest
  <2>1. FromClient(Token("request", 0))
    BY <1>8 DEF FromClient, Token, FramebufferUpdateRequest, SetupInv, Requests
  <2>2. ClientStream'
    BY <1>1, <1>8, <2>1, ClientStreamAdded
       DEF FramebufferUpdateRequest, Write, Send, SetupInv
  <2> QED  BY <1>2, <1>8, <2>2, SetupFrom
            DEF FramebufferUpdateRequest, serverVars, connVars, StoredAll
<1>9. CASE ReceiveMessage
  <2>1. ClientStream'
    BY <1>1, <1>9, ClientStreamSame DEF ReceiveMessage, SetupInv
  <2> QED  BY <1>2, <1>9, <2>1, SetupFrom DEF ReceiveMessage, serverVars, connVars, StoredAll
<1>10. CASE RerequestFails
  <2>1. ClientStream'
    BY <1>1, <1>10, ClientStreamSame DEF RerequestFails, SetupInv
  <2> QED  BY <1>2, <1>10, <2>1, SetupFrom DEF RerequestFails, serverVars, connVars, StoredAll
<1> QED  BY <1>3, <1>4, <1>5, <1>6, <1>7, <1>8, <1>9, <1>10 DEF Connect

LEMMA AgentStep ==
  ASSUME SetupInv, AgentEvent
  PROVE  SetupInv'
<1>1. Kept /\ toClient' = toClient
  BY DEF AgentEvent, Kept, serverVars, StoredAll
<1>2. ServerStream'
  BY <1>1, ServerStreamSame DEF SetupInv
<1>3. /\ \A kind \in {"key", "pointer"} : FromClient(Token(kind, 0))
      /\ \A text : FromClient(Token("cut", CutTextSizes(text)))
  BY DEF FromClient, Token, CutTextSizes
<1>4. \/ toServer' = toServer
      \/ \E kind \in {"key", "pointer"} : toServer' = toServer \o <<Token(kind, 0)>>
      \/ \E text : toServer' = toServer \o <<Token("cut", CutTextSizes(text))>>
  BY DEF AgentEvent, CutText, Write, Send
<1>5. ClientStream'
  BY <1>1, <1>3, <1>4, ClientStreamSame, ClientStreamAdded DEF SetupInv
<1>6. (pc' = pc /\ failure' = failure) \/ (pc' = "panic" /\ failure' = "slice")
  BY DEF AgentEvent, CutText
<1> QED  BY <1>2, <1>5, <1>6, SetupFrom DEF AgentEvent, serverVars, StoredAll

-----------------------------------------------------------------------------
(* The server's handshake: of what it answers, only ServerInit tells the   *)
(* client of its format, and that is the native one.                       *)
LEMMA ServerHandshakeStep ==
  ASSUME SetupInv, ServerHandshake
  PROVE  SetupInv'
<1>1. Kept
  BY DEF ServerHandshake, Kept, connVars, StoredAll
<1>2. toServer' = toServer \/ (toServer # <<>> /\ toServer' = Tail(toServer))
  BY DEF ServerHandshake, Received
<1>3. ClientStream'
  BY <1>1, <1>2, ClientStreamSame, ClientStreamTaken DEF SetupInv
<1> DEFINE Plain == {"version", "types", "reason", "type", "challenge", "result"}
<1>4. \A kind \in Plain : \A v : FromServer(Token(kind, v))
  BY DEF FromServer, Token
<1>5. FromServer(Token("init", native))
  BY DEF FromServer, Token
<1>6. /\ Fits(<<Token("init", native)>>)
      /\ \A kind \in Plain : \A v : Fits(<<Token(kind, v)>>)
      /\ \A k1, k2 \in Plain : \A v1, v2 : Fits(<<Token(k1, v1), Token(k2, v2)>>)
  BY <1>4, <1>5, FitsTokens
<1>7. \A v1, v2 : /\ Fits(<<Token("result", v1)>> \o <<Token("reason", v2)>>)
                  /\ Fits(<<Token("result", v1)>> \o <<>>)
  BY <1>6, FitsJoined, EmptyStream DEF Fits
<1>8. \E s : Fits(s) /\ toClient' = toClient \o s
  BY <1>6, <1>7 DEF ServerHandshake, Answer
<1>9. ServerStream'
  BY <1>1, <1>8, ServerStreamAdded DEF SetupInv
<1> QED  BY <1>3, <1>9, SetupFrom DEF ServerHandshake, Goes, Leaves, connVars, userVars, StoredAll

LEMMA ServerReceivesStep ==
  ASSUME SetupInv, ServerReceives
  PROVE  SetupInv'
<1>1. Kept /\ toServer # <<>> /\ toServer' = Tail(toServer) /\ toClient' = toClient
  BY DEF ServerReceives, Kept, connVars, StoredAll
<1>2. ClientStream' /\ ServerStream' /\ FromClient(Head(toServer))
  BY <1>1, ClientStreamTaken, ServerStreamSame DEF SetupInv
<1>3. Requests'
  BY <1>2 DEF ServerReceives, SetupInv, Requests, FromClient, StoredAll, connVars, userVars
<1>4. Formats'
  <2>1. Usual => serverFormat'.BPP = 32 /\ serverFormat'.TrueColor
    <3>1. RGB32.BPP = 32 /\ RGB32.TrueColor
      BY DEF RGB32
    <3>2. \/ serverFormat' = serverFormat
          \/ Head(toServer).k = "format" /\ serverFormat' = Head(toServer).v
      BY DEF ServerReceives
    <3>3. serverFormat' \in {serverFormat, RGB32}
      BY <1>2, <3>2 DEF FromClient
    <3>4. CASE serverFormat' = serverFormat
      BY <3>4 DEF SetupInv, Formats
    <3>5. CASE serverFormat' = RGB32
      BY <3>1, <3>5
    <3> QED  BY <3>3, <3>4, <3>5
  <2>2. UNCHANGED <<native, pc, PixelFormat>>
    BY DEF ServerReceives, connVars
  <2> QED  BY <2>1, <2>2 DEF SetupInv, Formats, Usual
<1>5. spc' # "out of step"
  BY <1>2 DEF ServerReceives, FromClient, SetupInv
<1> QED  BY <1>2, <1>3, <1>4, <1>5
          DEF ServerReceives, SetupInv, EncodingsKnown, OnlyForeignRefused, connVars, Usual

(* An update answers a request, so that the encodings are stored when its  *)
(* rectangles are sent.                                                    *)
LEMMA ServerSendsStep ==
  ASSUME SetupInv, ServerSends
  PROVE  SetupInv'
<1>1. Kept /\ toServer' = toServer
  BY DEF ServerSends, Kept, connVars, StoredAll
<1>2. ClientStream'
  BY <1>1, ClientStreamSame DEF SetupInv
<1>3. ServerStream'
  <2>1. ASSUME wanted, NEW n \in 0..(RectLimit + 1), NEW rects \in [1..n -> Rects],
               toClient' = toClient \o
                 (<<Token("update", n)>> \o [i \in 1..n |-> Token("rect", rects[i])])
        PROVE  ServerStream'
    <3> DEFINE sentRects == [i \in 1..n |-> Token("rect", rects[i])]
    <3>1. n \in Nat
      BY ConnAssumption
    <3>2. Stream(sentRects) /\ Tokens(sentRects) = {sentRects[i] : i \in 1..n}
      BY <3>1, StreamOf
    <3>3. \A i \in 1..n : FromServer(sentRects[i])
      <4>1. SUFFICES ASSUME NEW i \in 1..n
                     PROVE  FromServer(Token("rect", rects[i]))
        OBVIOUS
      <4>2. rects[i] \in Rects
        OBVIOUS
      <4>3. /\ rects[i].enc \in Encodings \cup {"raw"}
            /\ rects[i].format = serverFormat
        BY <4>2 DEF Rects, SetupInv, Requests
      <4> QED  BY <2>1, <4>3 DEF FromServer, Token, SetupInv, Requests, Formats
    <3>4. FromServer(Token("update", n))
      BY DEF FromServer, Token
    <3> HIDE DEF sentRects
    <3>5. Fits(<<Token("update", n)>> \o sentRects)
      BY <3>2, <3>3, <3>4, FitsTokens, FitsJoined DEF Fits
    <3> QED  BY <1>1, <2>1, <3>5, ServerStreamAdded DEF SetupInv, sentRects
  <2>2. ASSUME NEW k \in {"bell", "cut", "odd"}, toClient' = toClient \o <<Token(k, 0)>>
        PROVE  ServerStream'
    <3>1. FromServer(Token(k, 0))
      BY DEF FromServer, Token
    <3> QED  BY <1>1, <2>2, <3>1, FitsTokens, ServerStreamAdded DEF SetupInv
  <2>3. ASSUME ~serverFormat.TrueColor, NEW first,
               toClient' = toClient \o <<Token("colors", first)>>
        PROVE  ServerStream'
    <3>1. FromServer(Token("colors", first))
      BY <2>3 DEF FromServer, Token, SetupInv, Formats
    <3> QED  BY <1>1, <2>3, <3>1, FitsTokens, ServerStreamAdded DEF SetupInv
  <2> QED  BY <2>1, <2>2, <2>3 DEF ServerSends, Answer
<1>4. wanted' => wanted
  BY DEF ServerSends
<1> QED  BY <1>2, <1>3, <1>4
          DEF ServerSends, SetupInv, Requests, Formats, EncodingsKnown, OnlyForeignRefused,
              Usual, StoredAll, connVars, userVars

LEMMA ServerGoesStep ==
  ASSUME SetupInv, ServerGoes
  PROVE  SetupInv'
<1>1. ServerStream' /\ ClientStream'
  BY ServerStreamSame, ClientStreamSame
     DEF SetupInv, ServerGoes, Kept, StoredAll, serverVars, connVars
<1> QED  BY <1>1, SetupFrom DEF ServerGoes, serverVars, connVars, userVars, StoredAll

-----------------------------------------------------------------------------
LEMMA SetupStep == SetupInv /\ [ConnNext]_clientVars => SetupInv'
<1>1. ASSUME SetupInv, ConnNext
      PROVE  SetupInv'
  BY <1>1, HandshakeStep, ReadFailsStep, ReadMessageStep, ReadRectStep, ConnectStep, AgentStep,
     ServerHandshakeStep, ServerReceivesStep, ServerSendsStep, ServerGoesStep
     DEF ConnNext, Server
<1>2. ASSUME SetupInv, UNCHANGED clientVars
      PROVE  SetupInv'
  <2>1. ServerStream' /\ ClientStream'
    BY <1>2, ServerStreamSame, ClientStreamSame
       DEF SetupInv, Kept, StoredAll, clientVars, serverVars, connVars
  <2> QED  BY <1>2, <2>1, SetupFrom DEF clientVars, serverVars, connVars, userVars, StoredAll
<1> QED  BY <1>1, <1>2

LEMMA SetupAlways == ConnSpec => []SetupInv
BY SetupInitially, SetupStep, PTL DEF ConnSpec

(* Whatever the encodings, the formats and the limits: no rectangle comes  *)
(* in an encoding that FramebufferUpdateMessage.Read does not find.        *)
THEOREM EncodingsAlwaysKnown == ConnSpec => []EncodingsKnown
BY SetupAlways, PTL DEF SetupInv

(* Whatever the encodings: with a server of a usual format SetPixelFormat, *)
(* although the client goes on with the server's own format, has no update *)
(* refused or misread, and no colour map overflows.                        *)
THEOREM UsualNeverRefused == ConnSpec => []OnlyForeignRefused
BY SetupAlways, PTL DEF SetupInv

-----------------------------------------------------------------------------
(* The values of the variables.                                            *)

(* The loop over the types of Auth finds one of them the server has, or    *)
(* none.                                                                   *)
LEMMA FirstMatchOf ==
  ASSUME config \in Auths, NEW offered
  PROVE  \/ FirstMatch(offered) = 0
         \/ /\ FirstMatch(offered) \in {AuthNone, PasswordAuth}
            /\ FirstMatch(offered) \in offered
<1> DEFINE types == ClientSecurityTypes
           matching == {i \in DOMAIN types : types[i] \in offered}
<1>1. types \in Seq({1, 2})
  <2>1. <<1>> \in Seq({1, 2}) /\ config \in Seq({1, 2})
    BY ConnAssumption
  <2> QED  BY <2>1 DEF ClientSecurityTypes, AuthNone
<1>2. FirstMatch(offered) = IF matching = {} THEN 0 ELSE types[Min(matching)]
  BY DEF FirstMatch
<1>3. DOMAIN types = 1..Len(types) /\ Len(types) \in Nat
  BY <1>1
<1> HIDE DEF types
<1>4. matching \in SUBSET Nat
  BY <1>3
<1>5. CASE matching # {}
  <2>1. Min(matching) \in matching
    <3> HIDE DEF matching
    <3> QED  BY <1>4, <1>5, MinOfNats
  <2>2. Min(matching) \in DOMAIN types /\ types[Min(matching)] \in offered
    BY <2>1
  <2> HIDE DEF matching
  <2>3. types[Min(matching)] \in {1, 2}
    BY <1>1, <1>3, <2>2
  <2> QED  BY <1>2, <1>5, <2>2, <2>3 DEF AuthNone, PasswordAuth
<1>6. CASE matching = {}
  BY <1>2, <1>6
<1> QED  BY <1>5, <1>6

(* ConnTypeOK but for the pixel format, which only ReadServerInit sets.    *)
ShiftsRead == PixelFormat.TrueColor \/ PixelFormat.shifts = "zero"
OthersTyped ==
  /\ pc \in Reads \cup {"deliver", "failed", "panic", "garbled"}
  /\ minor \in {0, 3, 8} /\ auth \in {0, AuthNone, PasswordAuth}
  /\ rectsLeft \in 0..RectLimit /\ (pc = "rect" => rectsLeft > 0)
  /\ Encs \subseteq {"raw", "zrle", "tight"} /\ ColorMap \in {"zero", "server's"}
  /\ upc \in {"handshake", "format", "reset", "encodings", "store", "request", "loop",
             "again", "failed"}
  /\ message \in {"none", "update", "other"}
Flags == soft \in BOOLEAN /\ gone \in BOOLEAN /\ closed \in BOOLEAN /\ wanted \in BOOLEAN

LEMMA TypeParts == ConnTypeOK <=> ShiftsRead /\ OthersTyped /\ Flags
BY DEF ConnTypeOK, ShiftsRead, OthersTyped, Flags

ConnInv == ShiftsRead /\ OthersTyped /\ Flags /\ config \in Auths /\ native \in NativeFormats

LEMMA Limits == RectLimit \in Nat /\ Encodings \subseteq {"raw", "zrle", "tight"}
BY ConnAssumption

LEMMA ConnInitially == ConnInit => ConnInv
<1>1. ConnInit => ShiftsRead
  BY DEF ConnInit, ZeroFormat, ShiftsRead
<1>2. ConnInit => OthersTyped
  BY Limits DEF ConnInit, OthersTyped, Reads, HandshakeReads
<1>3. ConnInit => Flags
  BY DEF ConnInit, Flags
<1> QED  BY <1>1, <1>2, <1>3 DEF ConnInit, ConnInv

LEMMA ConnStep ==
  ASSUME SetupInv, ConnInv, ConnNext
  PROVE  ConnInv'
<1>1. config' = config /\ native' = native
  BY DEF ConnNext, ClientHandshake, ReadVersion, ReadSecurityTypes, ReadSecurityType,
     ReadChallenge, ReadSecurityResult, ReadReason, ReadServerInit, ReadFails, ReadMessage,
     ReadRect, Connect, WriteFails, SetPixelFormat, ResetColorMap, SetEncodings,
     StoreEncodings, FramebufferUpdateRequest, ReceiveMessage, RerequestFails,
     AgentEvent, Server,
     ServerHandshake, ServerReceives, ServerSends, ServerGoes, serverVars, connVars
<1>2. ShiftsRead'
  <2>1. CASE ReadServerInit
    <3>1. Head(toClient) \in Tokens(toClient) /\ Head(toClient).k = "init"
      BY <2>1, TailOfStream
         DEF ReadServerInit, Arrived, Expected, SetupInv, ServerStream
    <3>2. Value = native
      BY <3>1 DEF SetupInv, ServerStream, FromServer, Value
    <3> QED  BY <2>1, <3>2, ConnAssumption
              DEF ReadServerInit, ReadPixelFormat, ConnInv, ShiftsRead
  <2>2. ReadServerInit \/ PixelFormat' = PixelFormat
    BY DEF ConnNext, ClientHandshake, ReadVersion, ReadSecurityTypes, ReadSecurityType,
       ReadChallenge, ReadSecurityResult, ReadReason, ReadFails, ReadMessage, ReadRect,
       Connect, WriteFails, SetPixelFormat, ResetColorMap, SetEncodings, StoreEncodings,
       FramebufferUpdateRequest, ReceiveMessage, RerequestFails,
       AgentEvent, Server, ServerHandshake,
       ServerReceives, ServerSends, ServerGoes, connVars
  <2> QED  BY <2>1, <2>2 DEF ConnInv, ShiftsRead
<1>3. Flags'
  BY DEF ConnNext, ClientHandshake, ReadVersion, ReadSecurityTypes, ReadSecurityType,
     ReadChallenge, ReadSecurityResult, ReadReason, ReadServerInit, ReadFails, ReadMessage,
     ReadRect, Connect, WriteFails, SetPixelFormat, ResetColorMap, SetEncodings,
     StoreEncodings, FramebufferUpdateRequest, ReceiveMessage, RerequestFails,
     AgentEvent, Server, CutText,
     ServerHandshake, ServerReceives, ServerSends, ServerGoes, Fail, Deliver, Goes, Leaves,
     serverVars, connVars, userVars, ConnInv, Flags
<1> SUFFICES OthersTyped'
  BY <1>1, <1>2, <1>3 DEF ConnInv
<1>4. CASE ClientHandshake
  <2>1. CASE ReadVersion
    BY <2>1 DEF ReadVersion, Minor, Fail, ConnInv, OthersTyped, serverVars, userVars, Reads,
       HandshakeReads
  <2>2. CASE ReadSecurityTypes
    <3>1. FirstMatch(Value) \in {0, AuthNone, PasswordAuth}
      BY FirstMatchOf DEF ConnInv
    <3> HIDE DEF FirstMatch
    <3> QED  BY <2>2, <3>1 DEF ReadSecurityTypes, Fail, Handshake, ConnInv, OthersTyped,
             serverVars, userVars, Reads, HandshakeReads
  <2>3. CASE ReadSecurityType
    <3>1. FirstMatch({Value}) = 0 \/ Value \in {AuthNone, PasswordAuth}
      BY FirstMatchOf DEF ConnInv
    <3> QED  BY <2>3, <3>1 DEF ReadSecurityType, Fail, Handshake, ConnInv, OthersTyped,
             serverVars, userVars, Reads, HandshakeReads
  <2>4. CASE ReadChallenge
    BY <2>4 DEF ReadChallenge, ConnInv, OthersTyped, serverVars, connVars, userVars, Reads,
       HandshakeReads
  <2>5. CASE ReadSecurityResult
    BY <2>5 DEF ReadSecurityResult, ConnInv, OthersTyped, serverVars, connVars, userVars,
       Reads, HandshakeReads
  <2>6. CASE ReadReason
    BY <2>6 DEF ReadReason, Fail, ConnInv, OthersTyped, serverVars, userVars
  <2>7. CASE ReadServerInit
    BY <2>7 DEF ReadServerInit, ConnInv, OthersTyped, serverVars, Reads, HandshakeReads
  <2> QED  BY <1>4, <2>1, <2>2, <2>3, <2>4, <2>5, <2>6, <2>7 DEF ClientHandshake
<1>5. CASE ReadFails
  BY <1>5 DEF ReadFails, Fail, ConnInv, OthersTyped, serverVars, userVars
<1>6. CASE ReadMessage
  BY <1>6, Limits DEF ReadMessage, Deliver, Fail, ConnInv, OthersTyped, serverVars, Reads,
     HandshakeReads
<1>7. CASE ReadRect
  BY <1>7, Limits DEF ReadRect, Arrived, Deliver, Fail, ConnInv, OthersTyped, serverVars, Reads
<1>8. CASE Connect
  BY <1>8, Limits DEF Connect, WriteFails, SetPixelFormat, ResetColorMap, SetEncodings,
     StoreEncodings, Stored, FramebufferUpdateRequest, ReceiveMessage, RerequestFails,
     ConnInv, OthersTyped,
     serverVars, connVars, userVars, Reads
<1>9. CASE AgentEvent
  BY <1>9 DEF AgentEvent, CutText, ConnInv, OthersTyped, serverVars, Reads, HandshakeReads
<1>10. CASE Server
  <2>1. UNCHANGED <<pc, connVars, userVars>>
    BY <1>10 DEF Server, ServerHandshake, ServerReceives, ServerSends, ServerGoes
  <2> QED  BY <2>1 DEF ConnInv, OthersTyped, connVars, userVars
<1> QED  BY <1>4, <1>5, <1>6, <1>7, <1>8, <1>9, <1>10 DEF ConnNext

LEMMA ConnAlways == ConnSpec => [](SetupInv /\ ConnInv)
<1>1. SetupInv /\ ConnInv /\ [ConnNext]_clientVars => ConnInv'
  <2>1. ASSUME ConnInv, UNCHANGED clientVars
        PROVE  ConnInv'
    BY <2>1 DEF ConnInv, ShiftsRead, OthersTyped, Flags, clientVars, serverVars, connVars,
       userVars
  <2> QED  BY <2>1, ConnStep
<1> QED  BY <1>1, ConnInitially, SetupAlways, PTL DEF ConnSpec

(* Whatever the types of Auth, the formats of servers and the limits: the  *)
(* reader counts no rectangles it does not owe, the security type is one   *)
(* of the client's, and of a format without true colour the shifts are     *)
(* those ReadPixelFormat leaves.                                           *)
THEOREM ConnTyped == ConnSpec => []ConnTypeOK
<1>1. ConnInv => ConnTypeOK
  BY TypeParts DEF ConnInv
<1> QED  BY <1>1, ConnAlways, PTL

-----------------------------------------------------------------------------
(* A stream the reader finds when n rectangles are due: these, and then    *)
(* whole messages, an update with its rectangles.  owed[i] is how many     *)
(* rectangles are due after i tokens.                                      *)
RectsOf(t) == IF t.k = "update" THEN t.v ELSE 0

Owed(owed, s) ==
  /\ owed \in [0..Len(s) -> Nat] /\ owed[Len(s)] = 0
  /\ \A i \in 1..Len(s) :
       IF owed[i - 1] > 0
         THEN s[i].k = "rect" /\ owed[i] = owed[i - 1] - 1
         ELSE s[i].k \in Messages /\ owed[i] = RectsOf(s[i])

MessageStream(s, n) == Stream(s) /\ \E owed : Owed(owed, s) /\ owed[0] = n

(* What the server adds, and what the reader takes.                        *)
LEMMA NoMessage == MessageStream(<<>>, 0)
<1> DEFINE owed == [i \in 0..0 |-> 0]
<1>1. Len(<<>>) = 0 /\ Stream(<<>>)
  BY EmptyStream
<1>2. Owed(owed, <<>>) /\ owed[0] = 0
  BY <1>1 DEF Owed
<1> QED  BY <1>1, <1>2 DEF MessageStream

LEMMA MessageTaken ==
  ASSUME NEW s, NEW n, MessageStream(s, n), s # <<>>
  PROVE  /\ n \in Nat
         /\ IF n > 0
              THEN Head(s).k = "rect" /\ MessageStream(Tail(s), n - 1)
              ELSE /\ Head(s).k \in Messages /\ RectsOf(Head(s)) \in Nat
                   /\ MessageStream(Tail(s), RectsOf(Head(s)))
<1>1. PICK owed : Owed(owed, s) /\ owed[0] = n
  BY DEF MessageStream
<1>2. PICK S : s \in Seq(S)
  BY DEF MessageStream, Stream
<1>3. /\ Len(s) \in Nat /\ Len(s) > 0 /\ Head(s) = s[1]
      /\ Tail(s) \in Seq(S) /\ Len(Tail(s)) = Len(s) - 1
  BY <1>2
<1>4. \A i \in 1..Len(s) - 1 : Tail(s)[i] = s[i + 1]
  BY <1>2
<1> DEFINE after == [i \in 0..Len(s) - 1 |-> owed[i + 1]]
<1>5. owed \in [0..Len(s) -> Nat] /\ owed[Len(s)] = 0
  BY <1>1 DEF Owed
<1>6. \A i \in 1..Len(s) :
        IF owed[i - 1] > 0
          THEN s[i].k = "rect" /\ owed[i] = owed[i - 1] - 1
          ELSE s[i].k \in Messages /\ owed[i] = RectsOf(s[i])
  BY <1>1 DEF Owed
<1>7. after \in [0..Len(s) - 1 -> Nat] /\ after[Len(s) - 1] = 0
  <2>1. \A i \in 0..Len(s) - 1 : i + 1 \in 0..Len(s)
    BY <1>3
  <2>2. Len(s) - 1 \in 0..Len(s) - 1 /\ (Len(s) - 1) + 1 = Len(s)
    BY <1>3
  <2> QED  BY <1>5, <2>1, <2>2
<1>8. ASSUME NEW i \in 1..Len(s) - 1
      PROVE  IF after[i - 1] > 0
               THEN Tail(s)[i].k = "rect" /\ after[i] = after[i - 1] - 1
               ELSE Tail(s)[i].k \in Messages /\ after[i] = RectsOf(Tail(s)[i])
  <2>1. /\ i - 1 \in 0..Len(s) - 1 /\ i \in 0..Len(s) - 1 /\ (i - 1) + 1 = i
        /\ i + 1 \in 1..Len(s) /\ (i + 1) - 1 = i
    BY <1>3
  <2>2. after[i - 1] = owed[i] /\ after[i] = owed[i + 1] /\ Tail(s)[i] = s[i + 1]
    BY <1>4, <2>1
  <2>3. IF owed[i] > 0
          THEN s[i + 1].k = "rect" /\ owed[i + 1] = owed[i] - 1
          ELSE s[i + 1].k \in Messages /\ owed[i + 1] = RectsOf(s[i + 1])
    BY <1>6, <2>1
  <2> HIDE DEF after
  <2> QED  BY <2>2, <2>3
<1>9. after[0] = owed[1]
  BY <1>3
<1> HIDE DEF after
<1>10. Owed(after, Tail(s))
  BY <1>3, <1>7, <1>8 DEF Owed
<1>11. MessageStream(Tail(s), owed[1])
  BY <1>3, <1>9, <1>10 DEF MessageStream, Stream
<1>12. n \in Nat /\ owed[1] \in Nat
  BY <1>1, <1>3, <1>5
<1>13. 1 \in 1..Len(s) /\ 1 - 1 = 0
  BY <1>3
<1>14. IF n > 0
         THEN s[1].k = "rect" /\ owed[1] = n - 1
         ELSE s[1].k \in Messages /\ owed[1] = RectsOf(s[1])
  BY <1>1, <1>6, <1>13
<1> QED  BY <1>3, <1>11, <1>12, <1>14

LEMMA MessagesJoined ==
  ASSUME NEW s, NEW n, NEW t, MessageStream(s, n), MessageStream(t, 0)
  PROVE  MessageStream(s \o t, n)
<1>1. PICK first : Owed(first, s) /\ first[0] = n
  BY DEF MessageStream
<1>2. PICK second : Owed(second, t) /\ second[0] = 0
  BY DEF MessageStream
<1>3. PICK S : s \in Seq(S)
  BY DEF MessageStream, Stream
<1>4. PICK T : t \in Seq(T)
  BY DEF MessageStream, Stream
<1> DEFINE a == Len(s)
           b == Len(t)
           u == s \o t
           owed == [i \in 0..a + b |-> IF i <= a THEN first[i] ELSE second[i - a]]
<1>5. a \in Nat /\ b \in Nat
  BY <1>3, <1>4
<1>6. Len(u) = a + b /\ \A i \in 1..a + b : u[i] = IF i <= a THEN s[i] ELSE t[i - a]
  <2>1. s \in Seq(S \cup T) /\ t \in Seq(S \cup T)
    BY <1>3, <1>4
  <2> QED  BY <2>1
<1>7. /\ first \in [0..a -> Nat] /\ first[a] = 0
      /\ second \in [0..b -> Nat] /\ second[b] = 0
  BY <1>1, <1>2 DEF Owed
<1>8. \A i \in 1..a :
        IF first[i - 1] > 0
          THEN s[i].k = "rect" /\ first[i] = first[i - 1] - 1
          ELSE s[i].k \in Messages /\ first[i] = RectsOf(s[i])
  BY <1>1 DEF Owed
<1>9. \A i \in 1..b :
        IF second[i - 1] > 0
          THEN t[i].k = "rect" /\ second[i] = second[i - 1] - 1
          ELSE t[i].k \in Messages /\ second[i] = RectsOf(t[i])
  BY <1>2 DEF Owed
<1>10. Stream(u)
  BY JoinedStreams DEF MessageStream
<1> HIDE DEF u
<1>11. \A i \in 0..a : owed[i] = first[i]
  BY <1>5
<1>12. \A i \in 0..b : a + i \in 0..a + b /\ owed[a + i] = second[i]
  <2>1. ASSUME NEW i \in 0..b
        PROVE  a + i \in 0..a + b /\ owed[a + i] = second[i]
    <3>1. a + i \in 0..a + b /\ (a + i) - a = i
      BY <1>5
    <3>2. CASE i = 0
      <4>1. a + i = a
        BY <1>5, <3>2
      <4> QED  BY <1>2, <1>7, <1>11, <3>1, <3>2, <4>1, <1>5
    <3>3. CASE i # 0
      <4>1. ~(a + i <= a)
        BY <1>5, <3>3
      <4> QED  BY <3>1, <4>1
    <3> QED  BY <3>2, <3>3
  <2> QED  BY <2>1
<1>13. owed \in [0..a + b -> Nat]
  <2>1. ASSUME NEW i \in 0..a + b
        PROVE  (IF i <= a THEN first[i] ELSE second[i - a]) \in Nat
    <3>1. i <= a => i \in 0..a
      BY <1>5
    <3>2. ~(i <= a) => i - a \in 0..b
      BY <1>5
    <3> QED  BY <1>7, <3>1, <3>2
  <2> QED  BY <2>1
<1>14. owed[a + b] = 0 /\ owed[0] = n
  <2>1. b \in 0..b /\ 0 \in 0..a
    BY <1>5
  <2> HIDE DEF owed
  <2> QED  BY <1>1, <1>7, <1>11, <1>12, <2>1
<1> HIDE DEF owed
<1>15. ASSUME NEW i \in 1..a + b
       PROVE  IF owed[i - 1] > 0
                THEN u[i].k = "rect" /\ owed[i] = owed[i - 1] - 1
                ELSE u[i].k \in Messages /\ owed[i] = RectsOf(u[i])
  <2>1. CASE i <= a
    <3>1. i \in 1..a /\ i - 1 \in 0..a /\ i \in 0..a
      BY <1>5, <2>1
    <3>2. owed[i - 1] = first[i - 1] /\ owed[i] = first[i] /\ u[i] = s[i]
      BY <1>6, <1>11, <2>1, <3>1
    <3>3. IF first[i - 1] > 0
            THEN s[i].k = "rect" /\ first[i] = first[i - 1] - 1
            ELSE s[i].k \in Messages /\ first[i] = RectsOf(s[i])
      BY <1>8, <3>1
    <3> QED  BY <3>2, <3>3
  <2>2. CASE ~(i <= a)
    <3> DEFINE j == i - a
    <3>1. /\ j \in 1..b /\ j - 1 \in 0..b /\ j \in 0..b
          /\ a + j = i /\ a + (j - 1) = i - 1
      BY <1>5, <2>2
    <3>2. u[i] = t[j]
      BY <1>6, <2>2
    <3> HIDE DEF j
    <3>3. owed[i - 1] = second[j - 1] /\ owed[i] = second[j]
      BY <1>12, <3>1
    <3>4. IF second[j - 1] > 0
            THEN t[j].k = "rect" /\ second[j] = second[j - 1] - 1
            ELSE t[j].k \in Messages /\ second[j] = RectsOf(t[j])
      BY <1>9, <3>1
    <3> QED  BY <3>2, <3>3, <3>4
  <2> QED  BY <2>1, <2>2
<1>16. Owed(owed, u)
  BY <1>6, <1>13, <1>14, <1>15 DEF Owed
<1>17. MessageStream(u, n)
  BY <1>10, <1>14, <1>16 DEF MessageStream
<1> QED  BY <1>17 DEF u

LEMMA RectsStream ==
  ASSUME NEW n \in Nat, NEW rects
  PROVE  MessageStream([i \in 1..n |-> Token("rect", rects[i])], n)
<1> DEFINE s == [i \in 1..n |-> Token("rect", rects[i])]
           owed == [i \in 0..n |-> n - i]
<1>1. Stream(s)
  BY StreamOf
<1>2. Len(s) = n
  OBVIOUS
<1>3. owed \in [0..n -> Nat] /\ owed[n] = 0 /\ owed[0] = n
  OBVIOUS
<1>4. ASSUME NEW i \in 1..n
      PROVE  owed[i - 1] > 0 /\ s[i].k = "rect" /\ owed[i] = owed[i - 1] - 1
  <2>1. s[i] = Token("rect", rects[i])
    OBVIOUS
  <2>2. i - 1 \in 0..n /\ i \in 0..n
    OBVIOUS
  <2>3. owed[i - 1] = n - (i - 1) /\ owed[i] = n - i
    BY <2>2
  <2> HIDE DEF s, owed
  <2> QED  BY <2>1, <2>3 DEF Token
<1> HIDE DEF s, owed
<1>5. Owed(owed, s)
  BY <1>2, <1>3, <1>4 DEF Owed
<1>6. MessageStream(s, n)
  BY <1>1, <1>3, <1>5 DEF MessageStream
<1> QED  BY <1>6 DEF s

LEMMA OneMessage ==
  ASSUME NEW t, t.k \in Messages, NEW s, RectsOf(t) \in Nat, MessageStream(s, RectsOf(t))
  PROVE  MessageStream(<<t>> \o s, 0)
<1>1. PICK after : Owed(after, s) /\ after[0] = RectsOf(t)
  BY DEF MessageStream
<1>2. PICK S : s \in Seq(S)
  BY DEF MessageStream, Stream
<1> DEFINE b == Len(s)
           u == <<t>> \o s
           owed == [i \in 0..b + 1 |-> IF i = 0 THEN 0 ELSE after[i - 1]]
<1>3. b \in Nat
  BY <1>2
<1>4. Len(u) = b + 1 /\ \A i \in 1..b + 1 : u[i] = IF i = 1 THEN t ELSE s[i - 1]
  <2>1. s \in Seq(S \cup {t}) /\ <<t>> \in Seq(S \cup {t}) /\ Len(<<t>>) = 1 /\ <<t>>[1] = t
    BY <1>2
  <2> QED  BY <2>1
<1>5. Stream(u)
  BY OneToken, JoinedStreams DEF MessageStream
<1> HIDE DEF u
<1>6. after \in [0..b -> Nat] /\ after[b] = 0
  BY <1>1 DEF Owed
<1>7. \A i \in 1..b :
        IF after[i - 1] > 0
          THEN s[i].k = "rect" /\ after[i] = after[i - 1] - 1
          ELSE s[i].k \in Messages /\ after[i] = RectsOf(s[i])
  BY <1>1 DEF Owed
<1>8. owed \in [0..b + 1 -> Nat] /\ owed[b + 1] = 0 /\ owed[0] = 0
  BY <1>3, <1>6
<1>9. \A i \in 1..b + 1 : owed[i] = after[i - 1]
  BY <1>3
<1> HIDE DEF owed
<1>10. ASSUME NEW i \in 1..b + 1
       PROVE  IF owed[i - 1] > 0
                THEN u[i].k = "rect" /\ owed[i] = owed[i - 1] - 1
                ELSE u[i].k \in Messages /\ owed[i] = RectsOf(u[i])
  <2>1. CASE i = 1
    <3>1. i \in 1..b + 1 /\ i - 1 = 0
      BY <1>3, <2>1
    <3> QED  BY <1>1, <1>4, <1>8, <1>9, <2>1, <3>1
  <2>2. CASE i # 1
    <3> DEFINE j == i - 1
    <3>1. j \in 1..b /\ j \in 1..b + 1 /\ i - 1 = j
      BY <1>3, <2>2
    <3>2. u[i] = s[j] /\ owed[i] = after[j]
      BY <1>4, <1>9, <2>2
    <3> HIDE DEF j
    <3>3. owed[j] = after[j - 1]
      BY <1>9, <3>1
    <3>4. IF after[j - 1] > 0
            THEN s[j].k = "rect" /\ after[j] = after[j - 1] - 1
            ELSE s[j].k \in Messages /\ after[j] = RectsOf(s[j])
      BY <1>7, <3>1
    <3> QED  BY <3>1, <3>2, <3>3, <3>4
  <2> QED  BY <2>1, <2>2
<1>11. Owed(owed, u)
  BY <1>4, <1>8, <1>10 DEF Owed
<1>12. MessageStream(u, 0)
  BY <1>5, <1>8, <1>11 DEF MessageStream
<1> QED  BY <1>12 DEF u

-----------------------------------------------------------------------------
(* The two ends in step.                                                   *)
Reason == Token("reason", 0)

At(server, answers, requests) ==
  spc = server /\ toClient = answers /\ toServer = requests

(* Where the server is, and what is under way, while the reader is at pc.  *)
HandshakeInStep ==
  /\ pc = "version" =>
       At("version", <<>>, <<>>) \/ \E v : At("reply", <<Token("version", v)>>, <<>>)
  /\ pc = "types" =>
       \/ At("reply", <<>>, <<Token("version", 8)>>)
       \/ \E types : types # {} /\ At("choice", <<Token("types", types)>>, <<>>)
       \/ At("left", <<Token("types", {}), Reason>>, <<>>)
  /\ pc = "type" =>
       \/ At("reply", <<>>, <<Token("version", 3)>>)
       \/ At("left", <<Token("type", 0), Reason>>, <<>>)
       \/ At("shared", <<Token("type", AuthNone)>>, <<>>)
       \/ At("response", <<Token("type", PasswordAuth), Token("challenge", 0)>>, <<>>)
       \/ At("unknown", <<Token("type", 16)>>, <<>>)
  /\ pc = "challenge" =>
       \/ At("choice", <<>>, <<Token("choice", PasswordAuth)>>)
       \/ At("response", <<Token("challenge", 0)>>, <<>>)
  /\ pc = "result" =>
       \/ At("choice", <<>>, <<Token("choice", AuthNone)>>)
       \/ At("response", <<>>, <<Token("response", 0)>>)
       \/ At("shared", <<>>, <<>>) \/ At("shared", <<Token("result", 0)>>, <<>>)
       \/ At("left", <<Token("result", 1)>>, <<>>)
       \/ At("left", <<Token("result", 1), Reason>>, <<>>)
  /\ pc = "reason" => At("left", <<>>, <<>>) \/ At("left", <<Reason>>, <<>>)
  /\ pc = "init" =>
       \/ At("shared", <<>>, <<Token("shared", 0)>>)
       \/ /\ spc = "running" /\ Stream(toClient) /\ toClient # <<>>
          /\ Head(toClient).k = "init" /\ MessageStream(Tail(toClient), 0)

(* After the handshake the server has begun to run, and what is under way  *)
(* starts with the rectangles of the update that is read.                  *)
SessionInStep ==
  /\ pc \in {"message", "deliver"} => MessageStream(toClient, 0)
  /\ pc = "rect" => rectsLeft > 0 /\ MessageStream(toClient, rectsLeft)
  /\ pc \in {"message", "deliver", "rect"} => spc = "running"
  /\ pc \in HandshakeReads => upc = "handshake"

StepsInv == HandshakeInStep /\ SessionInStep

LEMMA StepsInitially == ConnInit => StepsInv
BY DEF ConnInit, StepsInv, HandshakeInStep, SessionInStep, At

(* The reader finds a token of the kind it expects.                        *)
LEMMA StepsShow ==
  ASSUME StepsInv, ConnInv, pc \in Reads, toClient # <<>>
  PROVE  Head(toClient).k \in Expected(pc)
<1>1. \A t, u : Head(<<t>>) = t /\ Head(<<t, u>>) = t
  BY ShortStreams
<1>2. \A k, v : Token(k, v).k = k
  BY DEF Token
<1>3. Reason.k = "reason"
  BY <1>2 DEF Reason
<1>4. CASE pc \in HandshakeReads
  <2>1. Head(toClient).k = pc
    BY <1>1, <1>2, <1>3, <1>4 DEF StepsInv, HandshakeInStep, At, HandshakeReads
  <2> QED  BY <1>4, <2>1 DEF Expected, HandshakeReads
<1>5. CASE pc = "message"
  <2>1. MessageStream(toClient, 0) /\ ~(0 > 0)
    BY <1>5 DEF StepsInv, SessionInStep
  <2>2. Head(toClient).k \in Messages
    BY <2>1, MessageTaken
  <2> QED  BY <1>5, <2>2 DEF Expected
<1>6. CASE pc = "rect"
  BY <1>6, MessageTaken DEF StepsInv, SessionInStep, Expected
<1> QED  BY <1>4, <1>5, <1>6 DEF Reads

LEMMA StepsHandshake ==
  ASSUME StepsInv, ConnInv, ClientHandshake
  PROVE  StepsInv'
<1>1. /\ \A t : <<t>> # <<>> /\ Head(<<t>>) = t /\ Tail(<<t>>) = <<>> /\ <<>> \o <<t>> = <<t>>
      /\ \A t, u : <<t, u>> # <<>> /\ Head(<<t, u>>) = t /\ Tail(<<t, u>>) = <<u>>
  BY ShortStreams
<1>2. \A k, v : Token(k, v).k = k /\ Token(k, v).v = v
  BY DEF Token
<1>3. CASE ReadVersion
  <2>1. PICK v : At("reply", <<Token("version", v)>>, <<>>)
    BY <1>3 DEF ReadVersion, Arrived, StepsInv, HandshakeInStep, At
  <2>2. toClient' = <<>> /\ spc' = "reply"
    BY <1>1, <1>3, <2>1 DEF ReadVersion, Take, At, serverVars
  <2>3. \/ pc' = "failed"
        \/ Minor = 8 /\ pc' = "types" /\ toServer' = <<Token("version", 8)>>
        \/ Minor = 3 /\ pc' = "type" /\ toServer' = <<Token("version", 3)>>
    BY <1>1, <1>3, <2>1 DEF ReadVersion, Fail, Send, At, Minor
  <2>4. upc' = "handshake"
    BY <1>3 DEF ReadVersion, Arrived, userVars, StepsInv, SessionInStep, HandshakeReads
  <2> QED  BY <2>2, <2>3, <2>4 DEF StepsInv, HandshakeInStep, SessionInStep, At
<1>4. CASE ReadSecurityTypes
  <2>1. pc = "types" /\ toClient # <<>> /\ upc = "handshake"
    BY <1>4 DEF ReadSecurityTypes, Arrived, StepsInv, SessionInStep, HandshakeReads
  <2>2. FirstMatch(Value) \in {0, AuthNone, PasswordAuth}
    BY FirstMatchOf DEF ConnInv
  <2>3. \/ \E types : types # {} /\ At("choice", <<Token("types", types)>>, <<>>)
        \/ At("left", <<Token("types", {}), Reason>>, <<>>)
    BY <2>1 DEF StepsInv, HandshakeInStep, At
  <2>4. CASE \E types : types # {} /\ At("choice", <<Token("types", types)>>, <<>>)
    <3>1. PICK types : types # {} /\ At("choice", <<Token("types", types)>>, <<>>)
      BY <2>4
    <3>2. Value # {} /\ toClient' = <<>> /\ spc' = "choice"
      BY <1>1, <1>2, <1>4, <3>1 DEF ReadSecurityTypes, Take, At, Value, serverVars
    <3>3. \/ pc' = "failed"
          \/ /\ auth' \in {AuthNone, PasswordAuth} /\ pc' = Handshake(auth')
             /\ toServer' = <<Token("choice", auth')>>
      BY <1>1, <1>4, <2>2, <3>1, <3>2 DEF ReadSecurityTypes, Fail, Send, At
    <3>4. upc' = "handshake"
      BY <1>4, <2>1 DEF ReadSecurityTypes, userVars
    <3> QED  BY <3>2, <3>3, <3>4
              DEF StepsInv, HandshakeInStep, SessionInStep, At, Handshake, AuthNone, PasswordAuth
  <2>5. CASE At("left", <<Token("types", {}), Reason>>, <<>>)
    <3>1. Value = {} /\ toClient' = <<Reason>> /\ spc' = "left"
      BY <1>1, <1>2, <1>4, <2>5 DEF ReadSecurityTypes, Take, At, Value, serverVars
    <3>2. pc' = "reason" /\ toServer' = <<>> /\ upc' = "handshake"
      BY <1>4, <2>1, <2>5, <3>1 DEF ReadSecurityTypes, At, userVars
    <3> QED  BY <3>1, <3>2 DEF StepsInv, HandshakeInStep, SessionInStep, At
  <2> QED  BY <2>3, <2>4, <2>5
<1>5. CASE ReadSecurityType
  <2>1. pc = "type" /\ toClient # <<>> /\ upc = "handshake"
    BY <1>5 DEF ReadSecurityType, Arrived, StepsInv, SessionInStep, HandshakeReads
  <2>2. FirstMatch({Value}) = 0 \/ Value \in {AuthNone, PasswordAuth}
    BY FirstMatchOf DEF ConnInv
  <2>3. /\ pc' = "failed" \/ (Value \in {AuthNone, PasswordAuth} /\ pc' = Handshake(Value))
        /\ upc' = "handshake" /\ toServer' = toServer /\ spc' = spc
        /\ toClient' = Tail(toClient)
    BY <1>5, <2>1, <2>2 DEF ReadSecurityType, Fail, Take, userVars, serverVars
  <2>4. CASE At("left", <<Token("type", 0), Reason>>, <<>>)
    <3>1. Value = 0
      BY <1>1, <1>2, <2>4 DEF At, Value
    <3> QED  BY <2>3, <3>1
              DEF StepsInv, HandshakeInStep, SessionInStep, AuthNone, PasswordAuth,
                  HandshakeReads
  <2>5. CASE At("shared", <<Token("type", AuthNone)>>, <<>>)
    <3>1. Value = AuthNone /\ toClient' = <<>> /\ spc' = "shared" /\ toServer' = <<>>
      BY <1>1, <1>2, <2>3, <2>5 DEF At, Value
    <3> QED  BY <2>3, <3>1
              DEF StepsInv, HandshakeInStep, SessionInStep, At, Handshake, AuthNone, PasswordAuth
  <2>6. CASE At("response", <<Token("type", PasswordAuth), Token("challenge", 0)>>, <<>>)
    <3>1. /\ Value = PasswordAuth /\ toClient' = <<Token("challenge", 0)>>
          /\ spc' = "response" /\ toServer' = <<>>
      BY <1>1, <1>2, <2>3, <2>6 DEF At, Value
    <3> QED  BY <2>3, <3>1
              DEF StepsInv, HandshakeInStep, SessionInStep, At, Handshake, AuthNone, PasswordAuth
  <2>7. CASE At("unknown", <<Token("type", 16)>>, <<>>)
    <3>1. Value = 16
      BY <1>1, <1>2, <2>7 DEF At, Value
    <3> QED  BY <2>3, <3>1
              DEF StepsInv, HandshakeInStep, SessionInStep, AuthNone, PasswordAuth,
                  HandshakeReads
  <2> QED  BY <2>1, <2>4, <2>5, <2>6, <2>7 DEF StepsInv, HandshakeInStep, At
<1>6. CASE ReadChallenge
  <2>1. upc = "handshake" /\ At("response", <<Token("challenge", 0)>>, <<>>)
    BY <1>6 DEF ReadChallenge, Arrived, StepsInv, HandshakeInStep, SessionInStep, At,
       HandshakeReads
  <2>2. At("response", <<>>, <<Token("response", 0)>>)' /\ upc' = "handshake"
    BY <1>1, <1>6, <2>1 DEF ReadChallenge, Take, Send, At, serverVars, userVars
  <2>3. pc' = "result"
    BY <1>6 DEF ReadChallenge
  <2> QED  BY <2>2, <2>3 DEF StepsInv, HandshakeInStep, SessionInStep
<1>7. CASE ReadSecurityResult
  <2>1. /\ upc = "handshake"
        /\ \/ At("shared", <<Token("result", 0)>>, <<>>)
           \/ At("left", <<Token("result", 1)>>, <<>>)
           \/ At("left", <<Token("result", 1), Reason>>, <<>>)
    BY <1>7 DEF ReadSecurityResult, Arrived, StepsInv, HandshakeInStep, SessionInStep, At,
       HandshakeReads
  <2>2. CASE At("shared", <<Token("result", 0)>>, <<>>)
    <3>1. ~Refused(Value)
      BY <1>1, <1>2, <2>2 DEF At, Value, Refused
    <3>2. At("shared", <<>>, <<Token("shared", 0)>>)'
      BY <1>1, <1>7, <2>2, <3>1 DEF ReadSecurityResult, Take, Send, At, serverVars
    <3>3. pc' = "init" /\ upc' = "handshake"
      BY <1>7, <2>1, <3>1 DEF ReadSecurityResult, userVars
    <3> QED  BY <3>2, <3>3 DEF StepsInv, HandshakeInStep, SessionInStep
  <2>3. CASE At("left", <<Token("result", 1)>>, <<>>)
    <3>1. Refused(Value)
      BY <1>1, <1>2, <2>3 DEF At, Value, Refused
    <3>2. At("left", <<>>, <<>>)'
      BY <1>1, <1>7, <2>3, <3>1 DEF ReadSecurityResult, Take, At, serverVars
    <3>3. pc' = "reason" /\ upc' = "handshake"
      BY <1>7, <2>1, <3>1 DEF ReadSecurityResult, userVars
    <3> QED  BY <3>2, <3>3 DEF StepsInv, HandshakeInStep, SessionInStep
  <2>4. CASE At("left", <<Token("result", 1), Reason>>, <<>>)
    <3>1. Refused(Value)
      BY <1>1, <1>2, <2>4 DEF At, Value, Refused
    <3>2. At("left", <<Reason>>, <<>>)'
      BY <1>1, <1>7, <2>4, <3>1 DEF ReadSecurityResult, Take, At, serverVars, Reason, Token
    <3>3. pc' = "reason" /\ upc' = "handshake"
      BY <1>7, <2>1, <3>1 DEF ReadSecurityResult, userVars
    <3> QED  BY <3>2, <3>3 DEF StepsInv, HandshakeInStep, SessionInStep
  <2> QED  BY <2>1, <2>2, <2>3, <2>4
<1>8. CASE ReadReason
  <2>1. pc' = "failed"
    BY <1>8 DEF ReadReason, Fail
  <2> QED  BY <2>1 DEF StepsInv, HandshakeInStep, SessionInStep, HandshakeReads
<1>9. CASE ReadServerInit
  <2>1. spc = "running" /\ MessageStream(Tail(toClient), 0)
    BY <1>9 DEF ReadServerInit, Arrived, StepsInv, HandshakeInStep, At
  <2>2. /\ pc' = "message" /\ spc' = "running" /\ MessageStream(Tail(toClient), 0)
        /\ toClient' = Tail(toClient)
    BY <1>9, <2>1 DEF ReadServerInit, Take, serverVars
  <2>3. MessageStream(toClient', 0)
    BY <2>2
  <2>4. SessionInStep'
    BY <2>2, <2>3 DEF SessionInStep, MessageStream, Owed, Stream, RectsOf, HandshakeReads
  <2>5. HandshakeInStep'
    BY <2>2 DEF HandshakeInStep
  <2> QED  BY <2>4, <2>5 DEF StepsInv
<1> QED  BY <1>3, <1>4, <1>5, <1>6, <1>7, <1>8, <1>9 DEF ClientHandshake

(* What leaves the streams alone keeps the two ends in step.               *)
LEMMA StepsFrom ==
  ASSUME StepsInv, spc' = spc, toClient' = toClient, rectsLeft' = rectsLeft,
         \/ pc' = pc /\ (pc \in HandshakeReads => toServer' = toServer /\ upc' = upc)
         \/ pc' \in {"failed", "panic"}
         \/ pc = "deliver" /\ pc' = "message"
  PROVE  StepsInv'
<1>1. CASE pc' = pc /\ (pc \in HandshakeReads => toServer' = toServer /\ upc' = upc)
  <2>1. HandshakeInStep'
    BY <1>1 DEF StepsInv, HandshakeInStep, At, HandshakeReads
  <2>2. SessionInStep'
    BY <1>1 DEF StepsInv, SessionInStep
  <2> QED  BY <2>1, <2>2 DEF StepsInv
<1>2. CASE pc' \in {"failed", "panic"}
  BY <1>2 DEF StepsInv, HandshakeInStep, SessionInStep, HandshakeReads
<1>3. CASE pc = "deliver" /\ pc' = "message"
  <2>1. MessageStream(toClient, 0) /\ spc = "running"
    BY <1>3 DEF StepsInv, SessionInStep
  <2> QED  BY <1>3, <2>1 DEF StepsInv, HandshakeInStep, SessionInStep, HandshakeReads
<1> QED  BY <1>1, <1>2, <1>3

LEMMA StepsReadMessage ==
  ASSUME StepsInv, ReadMessage
  PROVE  StepsInv'
<1>1. /\ MessageStream(toClient, 0) /\ ~(0 > 0) /\ spc = "running" /\ toClient # <<>>
      /\ toClient' = Tail(toClient) /\ spc' = spc
  BY DEF ReadMessage, Arrived, Take, StepsInv, SessionInStep, serverVars
<1>2. /\ RectsOf(Head(toClient)) \in Nat
      /\ MessageStream(toClient', RectsOf(Head(toClient)))
  BY <1>1, MessageTaken
<1>3. \/ pc' \in {"failed", "panic"}
      \/ pc' = "deliver" /\ RectsOf(Head(toClient)) = 0
      \/ /\ pc' = "rect" /\ rectsLeft' = RectsOf(Head(toClient))
         /\ RectsOf(Head(toClient)) > 0
  BY Limits DEF ReadMessage, Fail, Deliver, RectsOf
<1>4. HandshakeInStep'
  BY <1>3 DEF HandshakeInStep
<1>5. CASE pc' \in {"failed", "panic"}
  BY <1>4, <1>5 DEF StepsInv, SessionInStep, HandshakeReads
<1>6. CASE pc' = "deliver" /\ RectsOf(Head(toClient)) = 0
  BY <1>1, <1>2, <1>4, <1>6 DEF StepsInv, SessionInStep, HandshakeReads
<1>7. CASE /\ pc' = "rect" /\ rectsLeft' = RectsOf(Head(toClient))
           /\ RectsOf(Head(toClient)) > 0
  BY <1>1, <1>2, <1>4, <1>7 DEF StepsInv, SessionInStep, HandshakeReads
<1> QED  BY <1>3, <1>5, <1>6, <1>7

LEMMA StepsReadRect ==
  ASSUME StepsInv, ReadRect
  PROVE  StepsInv'
<1>1. /\ MessageStream(toClient, rectsLeft) /\ rectsLeft > 0 /\ spc = "running"
      /\ toClient # <<>> /\ toClient' = Tail(toClient) /\ spc' = spc /\ pc = "rect"
  BY DEF ReadRect, Arrived, Take, StepsInv, SessionInStep, serverVars
<1>2. rectsLeft \in Nat /\ MessageStream(toClient', rectsLeft - 1)
  BY <1>1, MessageTaken
<1>3. \/ pc' \in {"failed", "garbled"}
      \/ pc' = "deliver" /\ rectsLeft = 1
      \/ pc' = "rect" /\ rectsLeft' = rectsLeft - 1 /\ rectsLeft # 1
  BY <1>1 DEF ReadRect, Fail, Deliver
<1>4. HandshakeInStep'
  BY <1>3 DEF HandshakeInStep
<1>5. CASE pc' \in {"failed", "garbled"}
  BY <1>4, <1>5 DEF StepsInv, SessionInStep, HandshakeReads
<1>6. CASE pc' = "deliver" /\ rectsLeft = 1
  <2>1. rectsLeft - 1 = 0
    BY <1>6
  <2>2. MessageStream(toClient', 0)
    BY <1>2, <2>1
  <2> QED  BY <1>1, <1>4, <1>6, <2>2 DEF StepsInv, SessionInStep, HandshakeReads
<1>7. CASE pc' = "rect" /\ rectsLeft' = rectsLeft - 1 /\ rectsLeft # 1
  <2>1. rectsLeft' > 0
    BY <1>1, <1>2, <1>7
  <2>2. MessageStream(toClient', rectsLeft')
    BY <1>2, <1>7
  <2> QED  BY <1>1, <1>4, <1>7, <2>1, <2>2 DEF StepsInv, SessionInStep, HandshakeReads
<1> QED  BY <1>3, <1>5, <1>6, <1>7

LEMMA StepsOfClient ==
  ASSUME StepsInv, ReadFails \/ Connect \/ AgentEvent
  PROVE  StepsInv'
<1>1. CASE ReadFails
  BY <1>1, StepsFrom DEF ReadFails, Fail, serverVars
<1>2. CASE Connect
  <2>1. upc # "handshake" /\ UNCHANGED <<spc, toClient, rectsLeft>>
    BY <1>2 DEF Connect, WriteFails, SetPixelFormat, ResetColorMap, SetEncodings,
       StoreEncodings, FramebufferUpdateRequest, ReceiveMessage, RerequestFails,
       serverVars, connVars
  <2>2. pc \notin HandshakeReads
    BY <2>1 DEF StepsInv, SessionInStep
  <2>3. pc' = pc \/ (pc = "deliver" /\ pc' = "message")
    BY <1>2 DEF Connect, WriteFails, SetPixelFormat, ResetColorMap, SetEncodings,
       StoreEncodings, FramebufferUpdateRequest, ReceiveMessage, RerequestFails
  <2> QED  BY <2>1, <2>2, <2>3, StepsFrom
<1>3. CASE AgentEvent
  <2>1. upc # "handshake" /\ UNCHANGED <<spc, toClient, rectsLeft>>
    BY <1>3 DEF AgentEvent, serverVars
  <2>2. pc \notin HandshakeReads
    BY <2>1 DEF StepsInv, SessionInStep
  <2>3. pc' = pc \/ pc' = "panic"
    BY <1>3 DEF AgentEvent, CutText
  <2> QED  BY <2>1, <2>2, <2>3, StepsFrom
<1> QED  BY <1>1, <1>2, <1>3

(* The server answers what the reader waits for.                           *)
LEMMA StepsServerHandshake ==
  ASSUME StepsInv, ConnInv, ServerHandshake
  PROVE  StepsInv'
<1>1. /\ \A t : <<t>> # <<>> /\ Head(<<t>>) = t /\ Tail(<<t>>) = <<>> /\ <<>> \o <<t>> = <<t>>
                /\ <<t>> \o <<>> = <<t>>
      /\ \A t, u : <<>> \o <<t, u>> = <<t, u>> /\ <<t>> \o <<u>> = <<t, u>>
  BY ShortStreams
<1>2. \A k, v : Token(k, v).k = k /\ Token(k, v).v = v
  BY DEF Token
<1>3. spc # "running" /\ UNCHANGED <<pc, upc, rectsLeft>>
  BY DEF ServerHandshake, connVars, userVars
<1>4. SessionInStep'
  BY <1>3 DEF StepsInv, SessionInStep
<1>5. SUFFICES ASSUME pc \in HandshakeReads
               PROVE  HandshakeInStep'
  BY <1>3, <1>4 DEF StepsInv, HandshakeInStep, HandshakeReads
<1>6. CASE spc = "version"
  <2>1. pc = "version" /\ At("version", <<>>, <<>>)
    BY <1>5, <1>6 DEF StepsInv, HandshakeInStep, At, HandshakeReads
  <2>2. /\ spc' = "reply" /\ toServer' = toServer
        /\ \E v : toClient' = toClient \o <<Token("version", v)>>
    BY <1>6 DEF ServerHandshake, Goes, Answer
  <2>3. \E v : At("reply", <<Token("version", v)>>, <<>>)'
    BY <1>1, <2>1, <2>2 DEF At
  <2> QED  BY <1>3, <2>1, <2>3 DEF HandshakeInStep
<1>7. CASE spc = "reply"
  <2>1. toServer # <<>> /\ toServer' = Tail(toServer)
    BY <1>7 DEF ServerHandshake, Received
  <2>2. \/ pc = "types" /\ At("reply", <<>>, <<Token("version", 8)>>)
        \/ pc = "type" /\ At("reply", <<>>, <<Token("version", 3)>>)
    BY <1>5, <1>7, <2>1 DEF StepsInv, HandshakeInStep, At, HandshakeReads
  <2>3. toServer' = <<>>
    BY <1>1, <2>1, <2>2 DEF At
  <2>4. CASE pc = "types" /\ At("reply", <<>>, <<Token("version", 8)>>)
    <3>1. Head(toServer).v = 8
      BY <1>1, <1>2, <2>4 DEF At
    <3>2. \/ \E types : types # {} /\ spc' = "choice"
                                   /\ toClient' = toClient \o <<Token("types", types)>>
          \/ spc' = "left" /\ toClient' = toClient \o <<Token("types", {}), Reason>>
      BY <1>7, <3>1 DEF ServerHandshake, Goes, Leaves, Answer, Reason
    <3>3. \/ \E types : types # {} /\ At("choice", <<Token("types", types)>>, <<>>)'
          \/ At("left", <<Token("types", {}), Reason>>, <<>>)'
      BY <1>1, <2>3, <2>4, <3>2 DEF At, Reason, Token
    <3> QED  BY <1>3, <2>4, <3>3 DEF HandshakeInStep
  <2>5. CASE pc = "type" /\ At("reply", <<>>, <<Token("version", 3)>>)
    <3>1. Head(toServer).v = 3
      BY <1>1, <1>2, <2>5 DEF At
    <3>2. \/ spc' = "left" /\ toClient' = toClient \o <<Token("type", 0), Reason>>
          \/ spc' = "shared" /\ toClient' = toClient \o <<Token("type", AuthNone)>>
          \/ /\ spc' = "response"
             /\ toClient' = toClient \o <<Token("type", PasswordAuth), Token("challenge", 0)>>
          \/ spc' = "unknown" /\ toClient' = toClient \o <<Token("type", 16)>>
      <4>1. 3 # 8
        OBVIOUS
      <4> HIDE DEF Token, AuthNone, PasswordAuth
      <4> QED  BY <1>7, <3>1, <4>1, Zenon
               DEF ServerHandshake, Goes, Leaves, Answer, Reason
    <3>3. \/ At("left", <<Token("type", 0), Reason>>, <<>>)'
          \/ At("shared", <<Token("type", AuthNone)>>, <<>>)'
          \/ At("response", <<Token("type", PasswordAuth), Token("challenge", 0)>>, <<>>)'
          \/ At("unknown", <<Token("type", 16)>>, <<>>)'
      BY <1>1, <2>3, <2>5, <3>2 DEF At, Reason, Token, AuthNone, PasswordAuth
    <3> QED  BY <1>3, <2>5, <3>3 DEF HandshakeInStep
  <2> QED  BY <2>2, <2>4, <2>5
<1>8. CASE spc = "choice"
  <2>1. toServer # <<>> /\ toServer' = Tail(toServer)
    BY <1>8 DEF ServerHandshake, Received
  <2>2. \/ pc = "challenge" /\ At("choice", <<>>, <<Token("choice", PasswordAuth)>>)
        \/ pc = "result" /\ At("choice", <<>>, <<Token("choice", AuthNone)>>)
    BY <1>5, <1>8, <2>1 DEF StepsInv, HandshakeInStep, At, HandshakeReads
  <2>3. toServer' = <<>>
    BY <1>1, <2>1, <2>2 DEF At
  <2>4. \/ /\ Head(toServer).v = AuthNone /\ spc' = "shared"
           /\ toClient' = toClient \o <<Token("result", 0)>>
        \/ /\ Head(toServer).v = PasswordAuth /\ spc' = "response"
           /\ toClient' = toClient \o <<Token("challenge", 0)>>
    BY <1>8 DEF ServerHandshake, Goes, Answer
  <2>5. AuthNone # PasswordAuth
    BY DEF AuthNone, PasswordAuth
  <2>6. CASE pc = "challenge" /\ At("choice", <<>>, <<Token("choice", PasswordAuth)>>)
    <3>1. At("response", <<Token("challenge", 0)>>, <<>>)'
      BY <1>1, <1>2, <2>3, <2>4, <2>5, <2>6 DEF At
    <3> QED  BY <1>3, <2>6, <3>1 DEF HandshakeInStep
  <2>7. CASE pc = "result" /\ At("choice", <<>>, <<Token("choice", AuthNone)>>)
    <3>1. At("shared", <<Token("result", 0)>>, <<>>)'
      BY <1>1, <1>2, <2>3, <2>4, <2>5, <2>7 DEF At
    <3> QED  BY <1>3, <2>7, <3>1 DEF HandshakeInStep
  <2> QED  BY <2>2, <2>6, <2>7
<1>9. CASE spc = "response"
  <2>1. toServer # <<>> /\ toServer' = Tail(toServer)
    BY <1>9 DEF ServerHandshake, Received
  <2>2. pc = "result" /\ At("response", <<>>, <<Token("response", 0)>>)
    BY <1>5, <1>9, <2>1 DEF StepsInv, HandshakeInStep, At, HandshakeReads
  <2>3. toServer' = <<>>
    BY <1>1, <2>1, <2>2 DEF At
  <2>4. \/ spc' = "shared" /\ toClient' = toClient \o <<Token("result", 0)>>
        \/ /\ spc' = "left"
           /\ \E rest \in {<<>>, <<Reason>>} :
                toClient' = toClient \o (<<Token("result", 1)>> \o rest)
    BY <1>9 DEF ServerHandshake, Goes, Leaves, Answer, Reason
  <2>5. \/ At("shared", <<Token("result", 0)>>, <<>>)'
        \/ At("left", <<Token("result", 1)>>, <<>>)'
        \/ At("left", <<Token("result", 1), Reason>>, <<>>)'
    BY <1>1, <2>2, <2>3, <2>4 DEF At, Reason, Token
  <2> QED  BY <1>3, <2>2, <2>5 DEF HandshakeInStep
<1>10. CASE spc = "shared"
  <2>1. Received("shared") /\ spc' = "running" /\ toClient' = toClient \o <<Token("init", native)>>
    BY <1>10 DEF ServerHandshake, Goes, Answer
  <2>2. pc = "init" /\ toClient = <<>>
    BY <1>5, <1>10, <2>1 DEF Received, StepsInv, HandshakeInStep, At, HandshakeReads
  <2>3. toClient' = <<Token("init", native)>>
    BY <1>1, <2>1, <2>2
  <2>4. /\ Stream(toClient') /\ toClient' # <<>> /\ Head(toClient') = Token("init", native)
        /\ Tail(toClient') = <<>>
    BY <1>1, <2>3, OneToken
  <2>5. MessageStream(Tail(toClient'), 0)
    BY <2>4, NoMessage
  <2> QED  BY <1>2, <1>3, <2>1, <2>2, <2>4, <2>5 DEF HandshakeInStep
<1> QED  BY <1>6, <1>7, <1>8, <1>9, <1>10 DEF ServerHandshake

LEMMA StepsServerReceives ==
  ASSUME StepsInv, ConnInv, SetupInv, ServerReceives
  PROVE  StepsInv'
<1>1. /\ spc = "running" /\ UNCHANGED <<toClient, pc, rectsLeft, upc>>
      /\ toServer # <<>> /\ toServer' = Tail(toServer)
  BY DEF ServerReceives, connVars, userVars
<1>2. spc' = "running"
  <2>1. FromClient(Head(toServer))
    BY <1>1, TailOfStream DEF SetupInv, ClientStream
  <2> QED  BY <1>1, <2>1 DEF ServerReceives, FromClient
<1>3. HandshakeInStep'
  BY <1>1, <1>2 DEF StepsInv, HandshakeInStep, At
<1>4. SessionInStep'
  BY <1>1, <1>2 DEF StepsInv, SessionInStep
<1> QED  BY <1>3, <1>4 DEF StepsInv

(* A server that runs adds whole messages.                                 *)
LEMMA StepsServerSends ==
  ASSUME StepsInv, ServerSends
  PROVE  StepsInv'
<1>1. spc = "running" /\ UNCHANGED <<spc, pc, rectsLeft, upc, toServer>>
  BY DEF ServerSends, connVars, userVars
<1>2. PICK s : MessageStream(s, 0) /\ toClient' = toClient \o s
  <2>1. ASSUME NEW n \in 0..(RectLimit + 1), NEW rects,
               toClient' = toClient \o
                 (<<Token("update", n)>> \o [i \in 1..n |-> Token("rect", rects[i])])
        PROVE  \E s : MessageStream(s, 0) /\ toClient' = toClient \o s
    <3> DEFINE sentRects == [i \in 1..n |-> Token("rect", rects[i])]
               t == Token("update", n)
    <3>1. n \in Nat
      BY Limits
    <3>2. MessageStream(sentRects, n)
      BY <3>1, RectsStream
    <3>3. t.k \in Messages /\ RectsOf(t) = n
      BY DEF Token, Messages, RectsOf
    <3> HIDE DEF sentRects, t
    <3>4. MessageStream(<<t>> \o sentRects, 0)
      BY <3>1, <3>2, <3>3, OneMessage
    <3> QED  BY <2>1, <3>4 DEF sentRects, t
  <2>2. ASSUME NEW k \in {"bell", "cut", "odd", "colors"}, NEW v,
               toClient' = toClient \o <<Token(k, v)>>
        PROVE  \E s : MessageStream(s, 0) /\ toClient' = toClient \o s
    <3> DEFINE t == Token(k, v)
    <3>1. t.k \in Messages /\ RectsOf(t) = 0
      BY DEF Token, Messages, RectsOf
    <3> HIDE DEF t
    <3>2. MessageStream(<<>>, RectsOf(t)) /\ RectsOf(t) \in Nat
      BY <3>1, NoMessage
    <3>4. MessageStream(<<t>> \o <<>>, 0)
      BY <3>1, <3>2, OneMessage
    <3>3. <<t>> \o <<>> = <<t>>
      BY ShortStreams
    <3> QED  BY <2>2, <3>3, <3>4 DEF t
  <2>3. \/ \E n \in 0..(RectLimit + 1) : \E rects \in [1..n -> Rects] :
             toClient' = toClient \o
               (<<Token("update", n)>> \o [i \in 1..n |-> Token("rect", rects[i])])
        \/ \E k \in {"bell", "cut", "odd"} : toClient' = toClient \o <<Token(k, 0)>>
        \/ \E first : toClient' = toClient \o <<Token("colors", first)>>
    BY DEF ServerSends, Answer
  <2> QED  BY <2>1, <2>2, <2>3
<1>3. ASSUME NEW n, MessageStream(toClient, n)
      PROVE  MessageStream(toClient', n)
  BY <1>2, <1>3, MessagesJoined
<1>4. SessionInStep'
  BY <1>1, <1>3 DEF StepsInv, SessionInStep
<1>5. ASSUME pc = "init"
      PROVE  /\ Stream(toClient') /\ toClient' # <<>> /\ Head(toClient').k = "init"
             /\ MessageStream(Tail(toClient'), 0)
  <2>1. /\ Stream(toClient) /\ toClient # <<>> /\ Head(toClient).k = "init"
        /\ MessageStream(Tail(toClient), 0)
    BY <1>1, <1>5 DEF StepsInv, HandshakeInStep, At
  <2>2. Stream(s)
    BY <1>2 DEF MessageStream
  <2>3. /\ Stream(toClient') /\ toClient' # <<>> /\ Head(toClient') = Head(toClient)
        /\ Tail(toClient') = Tail(toClient) \o s
    BY <1>2, <2>1, <2>2, JoinedStreams, HeadTailJoined
  <2>4. MessageStream(Tail(toClient'), 0)
    BY <1>2, <2>1, <2>3, MessagesJoined
  <2> QED  BY <2>1, <2>3, <2>4
<1>6. HandshakeInStep'
  BY <1>1, <1>5 DEF StepsInv, HandshakeInStep, At
<1> QED  BY <1>4, <1>6 DEF StepsInv

LEMMA StepsStep ==
  SetupInv /\ ConnInv /\ StepsInv /\ [ConnNext]_clientVars => StepsInv'
<1>1. ASSUME SetupInv, ConnInv, StepsInv, ConnNext
      PROVE  StepsInv'
  <2>1. CASE ServerGoes
    BY <1>1, <2>1, StepsFrom DEF ServerGoes, serverVars, connVars, userVars
  <2> QED  BY <1>1, <2>1, StepsHandshake, StepsReadMessage, StepsReadRect, StepsOfClient,
               StepsServerHandshake, StepsServerReceives, StepsServerSends
            DEF ConnNext, Server
<1>2. ASSUME StepsInv, UNCHANGED clientVars
      PROVE  StepsInv'
  BY <1>2, StepsFrom DEF clientVars, serverVars, connVars, userVars
<1> QED  BY <1>1, <1>2

(* Whatever the types of Auth, the versions, offers and refusals of the    *)
(* server, the number and order of its messages and of the rectangles of   *)
(* its updates: every read of the handshake and of the main loop finds the *)
(* kind of message it expects, and every cut text is as long as it says.   *)
THEOREM AlwaysInStep == ConnSpec => []InStep
<1>1. SetupInv /\ ConnInv /\ StepsInv => InStep
  BY StepsShow DEF InStep, SetupInv
<1> QED  BY <1>1, StepsInitially, StepsStep, ConnAlways, PTL DEF ConnSpec
=============================================================================
