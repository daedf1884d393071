# TLA+ models of go-vncdriver

go-vncdriver connects a Python agent to a number of VNC servers. This directory
holds TLA+ modules that model its core, TLC configurations that check them on
small instances, and proofs that TLAPS checks for every value of the constants.
Line numbers refer to `src/gymvnc/gymvnc.go` unless a file is named.

## 1. Inventory

| part | state | operations | hard behaviour |
|---|---|---|---|
| Double buffer of a session (`gymvnc.go` 258-391) | front and back screen, `backUpdated`, `deferredUpdates`, `pauseUpdates` | `Flip`, the goroutine each flip spawns, `maintainFrameBuffer`, `applyDeferred` | three goroutines take turns at one lock; the agent reads the front screen without it; updates are suspended and must be resumed |
| Window (`Render`, `SetRenderer`, `vncgl/vncgl.go`) | `rendererActive`, the texture, `closed` | init, apply, render, close | is only ever fed differences |
| Session life cycle (140-189, 416-590) | `conn`, `err`, `closed`, the channels `Done`, `Error`, `updates`, the goroutines | dial with retries, set up, publish, forward, close | close while connecting, errors from five places, goroutines that wait for each other |
| Client connection (`vncclient/client.go`, `client_auth.go`, `pixel_format.go`) | socket, `Encs`, `PixelFormat`, `ColorMap` | `handshake`, client messages, `mainLoop` | two versions of the protocol, soft and hard failures, two goroutines share the fields without a lock, an unbuffered channel |
| Server messages (`server_messages.go`) | none | `Read` of four messages | limits, colour maps |
| Decoders (`encoding.go`, `quickbuf.go`) | four zlib streams and their buffers, a shared pixel buffer, tiles, palettes | Raw, ZRLE, Tight with filters | stream resets, aliasing of the shared buffer, bits and lengths packed into bytes |
| `flexzlib`, `flexflate` | inflate window, pending copy, bit buffer | `Read`, `Reset`, `SwapReader` | a stream continued over many readers |
| `VNCBatch` (592-682) | map of sessions | open, close, step, set subscription | eviction |
| Python bridge (`main.go`, `main.c`, `gl.go`) | tables of drivers, sessions, names, arrays; reference counts | connect, step, update, render, close, dealloc | tables that must agree, arrays shared between tables, dictionaries and the program, errors half way |
| Not part of the driver's core | | | DEFLATE compressor, `cmd/`, examples, build scripts |

What makes each part correct: the screen shown and the updates handed out agree
and nothing writes the screen in the agent's hands (double buffer); the window
shows the front screen (window); every update arrives once and in order, the
cycle of requests never dies, every failure reaches the agent, nothing is leaked
(life cycle); the two ends of a connection never take one message for another, and
what the client has set up fits what the server then sends (connection); decoders
yield what the server encoded, whatever was decoded before, and read exactly its
bytes (decoders, `flexzlib`, `flexflate`); the tables agree, and objects are freed
when nothing refers to them, and not before (bridge).
`PROJECT.json` lists the hazards, each at its line, with the properties about it.

## 2. Modules

**`ScreenFeed`** is the promise made to an agent: an observation is the screen
painted with everything received so far, and the updates handed out with it are
exactly those that turned the previous observation into this one.

**`FrameBuffer`** is the double buffer and the window. A screen is represented by
the sequence of the updates painted on it, so that two screens hold the same
pixels if the same updates were painted in the same order; `applyUpdate` and
`applyRect` append to it. Every critical section of `updated.L` is one action:

| action | code |
|---|---|
| `Maintain(u)` | an iteration of `maintainFrameBuffer`, `applyDeferred` included |
| `FlipScreens`, `FlipNothing` | `Flip` with `backUpdated` set or not |
| `Resume` | the goroutine spawned by a flip; `resumers` counts those that wait for the lock |
| `SetRenderer`, `Render`, `CloseRenderer` | the methods, and the end of `Close` |

`received` and `reported` are history variables. `applyUpdate` can return an error
only for an encoding that `FramebufferUpdateMessage.Read` never produces (pseudo
encodings fail in `Read`), so that `maintainFrameBuffer` ends only on `Done`.

**`VNCSession`** EXTENDS `FrameBuffer` and adds one program counter per goroutine
(`connectPc`, `mainPc`, `framePc`, `watchPc`, `listenPc`, `userPc`), the channels
(`updates` with its capacity, `errorCh` and `mgrError` with capacity one, the
unbuffered channel of `mainLoop` as a joint step), the socket, the messages on
their way and the requests the server has not answered. Its actions contain those
of `FrameBuffer`: `PaintUpdate` is `Maintain`, `StepFlips` is `Flip`,
`ResumeUpdates` is `Resume` with the request it sends.

* A critical section of `c.lock` or `updated.L` is one action. There is one
  exception, because it is where the code's locks do not help: `SetSubscription`
  writes the subscription under `c.lock` and `requestUpdate` reads it under
  `updated.L`. The write is two actions, and a read between them sees for each of
  pointer and length the old value or the new one (`RequestCounts`). A
  subscription is 0 for nil and n for n regions: `convertSubscriptionPy`
  (`main.go` 455-496) never makes an empty list that is not nil.
* `LockFree` guards the critical sections of `c.lock`, which is otherwise never
  held between two actions.
* Dialling and the handshake are one step with the three outcomes `connect`
  distinguishes: success, a failure worth retrying, and a refusal. What happens in
  that step is `ClientConn`.
* A write succeeds, or fails once the socket is closed or the peer gone. It does
  not block: TCP backpressure is not modelled.
* `Step` is two steps, because other goroutines run between its look at `conn` and
  `err` and its flip. The agent is one thread, and makes no call after `Close`
  (`VNCBatch.Close` deletes the session).
* The server is external. It may answer all outstanding requests with one update
  or one at a time, sends each update of `Update` at most once, and may send other
  messages at any time. `Calls` and `Faults` say which optional calls and faults a
  run includes.

**`InflateWindow`** is the inflator of the ZRLE decoder: `Inflator` and `Reader` of
`flexzlib` over the decompressor of `flexflate/inflate.go`. `hist`, `hp`, `hw`,
`hfull`, `step`, `final`, `err`, `copyLen` and `copyDist` are its fields, `toRead` is
the slice `hist[readLo:readHi]`, and `at` is the function being executed. A turn of
a loop is one action:

| action | code (`inflate.go` unless named) |
|---|---|
| `Inflate`, `InflateReturns` | a call of `Inflator.Inflate`; `Reader.Read` takes the unexpected end of its input for the end of this piece |
| `ReadSome`, `DoStep` | the two branches of `Read` |
| `LastBlockOver`, `PieceOver`, `HuffmanHeader`, `StoredHeader` | `nextBlock`, `dataBlock` |
| `Literal`, `EndOfBlock`, `CopySymbol` | a symbol read by `huffmanBlock` |
| `CopyHist`, `CopyOver` | a turn of `copyHist`, and its end in `copyHuff` |
| `CopyData`, `DataOver` | a turn of `copyData`, and its end |

* The stream is made up as it is read: an action that reads a symbol chooses one
  that a correct encoder could have written, and appends what it stands for to
  `plain`. Huffman codes and bits are abstracted.
* A piece ends with an empty stored block (a sync flush) and nowhere else, as RFB
  requires. It matters: in the middle of a block that `nextBlock` began, `step` is
  still `nextBlock`, and a piece that ended there would be resumed with a header.
* The zlib header, preset dictionaries, `Reset` and corrupt input are left out. The
  checksum is dead code (`reader.go` 102-116).

**`ForwardCopy`** is the loop of `forwardCopy`, which `CopyHist` calls.
**`MemoryCopy`** holds what both need: Go's `copy`, the closed form `Forward` that
`InflateWindow` uses, and the loop of the comment, `ByteByByte`.

**`TightStreams`** is the Tight decoder (`encoding.go` 487-998) with the zlib
streams of `compress/zlib` it keeps open from one rectangle to the next. A
rectangle, sent and decoded, is one action, because one goroutine reads them one
after the other:

| action | code |
|---|---|
| `Fill`, `Jpeg` | the rectangles without a stream, in `Read` |
| `Small` | `readBasicCompression` of less than twelve bytes, which are not compressed |
| `Basic` | `readBasicCompression` through a stream: `Fed` is `basicCompressionReader`, `Inflates` is `readToBuf` |

* A stream is a sequence of tokens: a header, and for each rectangle a block and a
  flush. `epoch` counts how often the server has started the stream and `index` its
  blocks since; a reader can inflate a block only if it read the same stream up to
  it. `streamBufs` holds what a reader has not read: it may or may not have read the
  flush after its block, which depends on whether the data filled the window of
  the reader.
* `reset` is the bitmap of pending resets. The server may put reset bits on any
  rectangle, as NOTE1 in the code demands of the decoder, and restarts those
  streams itself.
* A rectangle that was decoded owns its pixels or refers to `buf`, which stands for
  `t.buf` and changes with the rectangles that follow.
* Palettes and pixels are one value of `Pixels`. GradientFilter is modelled by what
  it does first, which is to ask for more bytes than there are.
* The server and `compress/zlib` are external. A server may ask to reset any stream,
  also one that it never used.
* `failed` says what refused a rectangle: its filter, or its stream.

**`RectangleData`** is how the bytes of a rectangle become colours: `RawEncoding.Read`,
`parse` and `parseTile` of ZRLE, and `readBasicCompression` of Tight with CopyFilter
and PaletteFilter. Bytes and colours are numbers; a colour is one of its three
components, as the code treats them alike.

| action | code (`encoding.go`) |
|---|---|
| `ReadRectangle` | the limits on place and size (`server_messages.go` 79-112), the choice of the decoder, and what that one refuses: widths and pixel formats (lines 189 and 535-541) |
| `ReadRawPixels` | `RawEncoding.Read`, in every byte order, width, shift and colour map, where a pixel beyond the map is a panic |
| `ReadSubencoding`, `ReadRaw`, `ReadSolid`, `ReadPacked`, `ReadRun`, `ReadPaletteRun` | a tile: `ReadPacked` reads one index, `ReadRun` one run |
| `CopyTile`, `EndRow`, `EndOfData` | the loops of `parse`, and the check that nothing is left |
| `ReadPixels`, `ReadPalette`, `ReadCompactLength`, `ReadIndices` | Tight; `ReadIndices` reads one index |
| `ConnectionBreaks` | the data ends early |

* The server is part of each action: it writes what the decoder is about to read,
  in any way the protocol allows. A run may be cut into shorter ones, a palette may
  hold colours that do not occur, an index of one may be written long.
* `format` is the pixel format that the client reads with, chosen once, and `encoding` the
  one the server chose for the rectangle. A rectangle has its place, `x` and `y`, because
  that is limited like its size; what it is painted on is not modelled.
* The numbers of the code are constants, and smaller in the run: `Tile` 64, `Wrap` 2^16, where
  the counters of the tile loops wrap, `MaxWidth` 5120, `MaxHeight` 2880, `TightWidth` 2048,
  `MaxByte` 255, `Group` 2^7 and `Uncompressed` 12.
* ZRLE reads three bytes a pixel, red first, in every format of 24 bits or more. Only the simplest
  of these formats, and the ones that are refused, are modelled with ZRLE: in the others
  the server may send four bytes, or another three.
* `FillColor` is defined by which copy writes each colour, so that a copy of the
  wrong length leaves colours unwritten.
* `DataAssumption` asks what the protocol does: masks of at most eight ones, lowest
  bits first, and pixels with room for them; palettes of bytes; tiles that fit in a
  uint16 beyond the limits. A ZRLE palette has up to 127 colours, one of Tight 2 to 256.
* A server that writes what the protocol does not allow is not modelled, nor what
  comes after GradientFilter has failed.

**`ClientConn`** is a connection from the version of the server to the end of the main
loop, with three parties: the server, the goroutine of `connect` (`upc`), and the
reader (`pc`), which is first the handshake and then `mainLoop`. The two streams
are sequences of tokens, one for each read.

| action | code |
|---|---|
| `ReadVersion`, `ReadSecurityTypes`, `ReadSecurityType`, `ReadChallenge`, `ReadSecurityResult`, `ReadReason`, `ReadServerInit` | `handshake` and what it calls |
| `ReadMessage`, `ReadRect` | an iteration of `mainLoop`, and a rectangle of an update |
| `SetPixelFormat`, `ResetColorMap`, `SetEncodings`, `StoreEncodings`, `FramebufferUpdateRequest` | `connect` after the handshake; what a message stores after it was sent is an action of its own, because `mainLoop` runs by then |
| `ReceiveMessage` | `connect` takes what `mainLoop` delivers |
| `AgentEvent` | `KeyEvent`, `PointerEvent`, `CutText` |
| `ReadFails`, `WriteFails` | errors of the socket |
| `ServerHandshake`, `ServerReceives`, `ServerSends`, `ServerGoes` | the server, external: what RFC 6143 lets it do, and one unknown message |

* `CutText` sends as many bytes as it announced: a slice of the buffer up to that
  length, which for characters of two bytes is longer than what was written, or a
  panic if the buffer is too small.
* The driver always passes a pixel format of 32 bits and true colour.
* A write that fails in the set-up ends `connect` and closes the socket (`WriteFails`). In
  its loop the request that follows an update is only reported when it fails
  (`RerequestFails`), and `connect` goes on taking messages (`gymvnc.go` 574-582).

**`DriverBridge`** is the Python extension over `VNCBatch`, used by one Python program.
Every call holds `batchLock` throughout, so that a call is one action, named as in
`main.go`: `c_init`, `connect`, `step`, `update`, `render`, `close`, `c_dealloc`. `call` holds
what it returned and whether it left a Python error set.

* The interpreter lock is held as long as `batchLock`, except while `PyIter_Next` runs an iterator
  of the program, which may give it up. The program of the model has one thread, and its
  iterators make no call of the driver: such a call, or one by another thread, waits for
  `batchLock` (for ever if the iterator itself makes it).
* `sessions` is the map of the batch, `names` and `screenNumpy` the tables of
  `sessionInfo`. `screenNumpy` holds under each name a function from screens, which are
  pointers in the code, to arrays. `step` looks the front screen up in it (`Entry`), and makes an
  array only for a screen that is `Missing`; `Address` is what distinguishes two arrays of one
  screen.
* `refs` counts the references to each array, `tupleRefs` those to
  the tuple every step returns; the program keeps and drops both as it likes.
* Odd arguments are a few kinds: an event that is malformed or of no known type, an
  iterator that raises, an object that is no iterable. A step may also run out of
  memory: either a string cannot be allocated, and it raises with some entries of the result
  set, or an object cannot, whose NULL nobody checks, and the process dies (`Dies`).
* A session is here what the bridge sees of it: whether it is connected, and which
  of its two screens is at the `front`. How it comes to that is `VNCSession`.
* Python may use the address of a freed object again: `generation`. A second `__init__`
  of one object, which replaces its entry in `batchMgr` and leaks its sessions, is not
  modelled.

A definition named `Mutant...` is never used. It is the definition below it with
a plausible mistake; with it in place the property named in `PROJECT.json` fails.

## 3. Runs

| run | configuration | checks |
|---|---|---|
| `frame_buffer` | 4 updates, limit of 2 deferred | the whole of `FrameBuffer`: `BufferInv`, `ReportedIsShown`, `WindowMirrorsFront`, `FrontUntouched`, `PauseEnds`, and that it implements `ScreenFeed` |
| `session_pipeline` | 3 updates, limit 1, channel of 1, one or two requests per update; the agent steps, the server answers | `NothingLostOrReordered`, `CycleNeverDies`, `EveryUpdateShown` |
| `session_errors` | 1 update, every fault, one retry, `Close`, `SetSubscription` | `SocketReleased`, `FailureReachesAgent`, `MainLoopErrorSurfaces`, `CloseReleases` |
| `session_retry` | 1 update and other messages, `StartTimeout` 273 s, `Render`, `Close` | `RetryBudget`, `WindowReleased` |
| `client_conn` | 6 versions, every offer of 3 security types, 3 lists of client types, 5 pixel formats, 2 messages, 1 event | `InStep`, `EncodingsKnown`, `OnlyForeignRefused`, `HandshakeEnds` |
| `decoders` | tiles of 3, limits of 6, 4 and 5, uint16 wraps at 9; every picture of 4x2 and 2x4 in two colours, some of 4x4, some empty, too large or too far off; 15 formats; copies on 6 cells | `ShownSoFar`, `ReadsExactly`, `FailsOnlyFor`, `DataEnds`; `ForwardIsByteByByte`, `CopiesForward` |
| `driver_bridge` | 2 names, 2 sessions, 2 drivers, 1 tuple of each and 1 array held, 2 arrays of a screen | `TablesAgree`, `NothingLeaked`, `ResultsShowFront`, `RefCounts`, `ContractKept`, `OneRenderer` |
| `zlib_streams` | Tight: 2 streams, 3 filters, 2 contents, 5 rectangles; ZRLE: ring of 3, streams of up to 7 bytes of 2 values, copies and stored blocks of up to 4 | `DecodedIsEncoded`, `ReadersInStep`, `RefusedAtFirstUse`; `WindowIsHistory`, `NothingSkipped`, `InflatedAll`, `NeverCorrupt` |
| `session_main_loop_leak` | finding | `MainLoopEnds` fails |
| `tight_gradient` | finding, 4 rectangles | `FiltersReadTheirPixels` fails |
| `tight_first_reset` | finding, 4 rectangles | `ResetsAreHeeded` fails |
| `client_format` | finding, the instance of `client_conn` | `FormatHonoured` fails |

The type invariants of the modules with proofs are not in the configurations, since TLAPS
proves them for every instance; `ConnTypeOK` and `DataTypeOK` are.

**Bounds.** `Update` bounds a behaviour, because each update is sent once; four
updates with a limit of two deferred ones pause the session, flip it while paused
and pause it again, three with a limit of one do so three times. Channels of
capacity one are full whenever they hold anything; the code's 4096 only makes that
rarer. Two messages on the wire are enough for one to overtake another. With 273
seconds the retries pass the point where the pause between them is capped at 30,
and a budget exceeded by an uncapped pause is found. `resumers` needs no bound: a
flip spawns one only after an update or another resumer has run.

Seven bytes wrap the ring of three twice, and a copy or stored block of four
is longer than the ring, so that each is interrupted in its middle; distances go
up to the size of the ring, and below a copy's length. A memory of six cells lets
the pattern of `forwardCopy` double twice. With five rectangles a stream can be
used, reset twice by rectangles that do not use it, used again and go on, with
the other stream in between.

A picture of 4x2 with tiles of three has a tile of full width and one that is clipped in
both directions, packed rows that do not fill a byte, and runs that go over the end
of a row; pictures of 4x4 have a full tile and tiles in two rows. Palettes have every size at which the
number of bits changes. Compact lengths of one, two and three bytes are there, on
both sides of each boundary, with the largest that uses the eighth bit of the third
byte. Pictures are on both sides of each limit, in place, width and height, and of the limit of
Tight, and without the limits the tile loops would wrap. The formats have four, two and one
byte, both byte orders, true colour and a colour map, and a depth that Tight refuses.

Two server messages are an update and another message before or after it; more
only repeats them, because the reader keeps nothing between two messages but the
colour map. `RectLimit` of 2 lets an update be empty, short, full and too long.

Two sessions in all, under one name or two, are enough for a name to be opened again, or closed while the
other one is open; two drivers at one address let the results of a freed one be held while the
next one runs. Two arrays of one screen at a time are what it takes for a table or a result to
hold the wrong one.

`decoders` and `zlib_streams` each run two machines that share nothing, one at a time.

**Deadlock.** A closed or failed session stops, so the `Session*` runs do not
check for deadlock; that no goroutine waits in vain while the session lives is
what `CycleNeverDies` and the liveness properties say. `frame_buffer` and
`zlib_streams` check it (there, only the Tight decoder may stop, after its last rectangle); a rectangle, a
copy and the other `tight` runs end, a connection
ends by an error or at its bounds, and a process may die, so that the others do
not.

**Fairness.** `GoFairness`: a goroutine that can run does run; one that waits for a
mutex gets it although others take it again and again; a `select` that finds
`Done` closed again and again chooses it in the end, because Go picks among ready
cases at random. The agent finishes the calls it has begun, and only `LiveSpec`,
for `session_pipeline`, assumes that it goes on stepping and that the server
answers requests. In `ClientConn` the client's goroutine goes on reading, and a server
that is there goes on answering in the handshake: either may wait for the other, and
`HandshakeEnds` says that both never do. In `RectangleData` and `ForwardCopy` one
goroutine runs its loop.

## 4. What the code does not do

* `session_main_loop_leak`: if `mainLoop` has read a message when the session is
  closed, nobody takes it: `connect` has left its loop, and the goroutine and all
  it refers to stay for ever.
* `tight_gradient`: `size` at line 806 of `encoding.go` is a number of bytes, and
  `readTPixels` takes a number of pixels. The driver asks for Tight, and a server
  that chooses this filter is refused with an error at its first rectangle. (Behind
  that, the prediction is computed in eight bits, and stored in a copy of the
  colour: lines 834-841.)
* `tight_first_reset`: the first use of a stream together with
  its reset bit makes `zlib.NewReader` read the header and `Reset` read what follows
  as a header (`encoding.go` 919-932), so that the rectangle is refused. NOTE1, which is quoted
  there, asks for a reset before the rectangle is decoded, and no more. `RefusedAtFirstUse`
  shows that this is the only use of a stream that is ever refused.
* `client_format`: `SetPixelFormat` sends the new format and does not store it, so that
  decoders use the format the server had at first. With a server whose own format
  is 32 bits and true colour the components of a colour can be mixed up, and only in
  raw rectangles; with another one raw rectangles are misread as a whole, ZRLE is
  refused below 24 bits and Tight always (`OnlyForeignRefused`).

Five more observations are described by the models, but are the subject of no run:

* A pause does not stop a request that was already sent, or that `connect` is about
  to send, yet the resumer of the next flip sends one more (line 276). From then on
  two requests are outstanding at a time. `session_pipeline` includes this, and
  nothing is lost or reordered by it.
* With `"SetSubscription"` in `Calls`, `CycleNeverDies` fails: replacing nil by a list
  while a request is being made can send no request at all (line 396), and if no
  other is outstanding, no update will ever come again.
* After a first `render` of a name that is no session, or when the session first rendered
  has been closed, no session ever gets a renderer (`gl.go` 13, `rendererSet`). `OneRenderer`
  says that there are never two; nothing in the repository promises one.
* A server of version 3.3 that asks for no authentication sends no security result,
  while the client waits for one before it sends ClientInit (`client.go` 491-509): both
  wait for ever, which is the exception in `HandshakeEnds`. The test
  `TestClient_LowMinorVersion` (`client_test.go` 48-62) expects that only version 3.8 is
  accepted; the code accepts 3.3 and above.
* Nothing checks the results of `PyArray_SimpleNewFromData`, `PyDict_New` and `PyLong_FromLong`
  (`main.go` 731-760): without memory the process dies (`Dies("memory")`).

`FailsOnlyFor` names the three cases in which the decoders panic: a pixel of more than a byte that
is beyond the 256 entries of the colour map (`encoding.go` 145), a connection that breaks
within less than twelve bytes of indices, and a rectangle of CopyFilter without
pixels. `ContractKept` names the odd arguments that the bridge does not report.

`session_errors` checks `CloseReleases` with room in the `updates` channel: with the
channel full at the time of `Close`, `connect` blocks at line 571 after
`maintainFrameBuffer` has left. The watcher can block at line 474 in the same way.

## 5. Proofs

`FrameBufferProofs` proves, for every set of updates and every limit on the
deferred ones:

| theorem | statement |
|---|---|
| `TypeCorrect` | `FrameSpec => []TypeOK` |
| `BuffersFit` | `FrameSpec => []BufferInv` |
| `HandedWhatIsShown` | `FrameSpec => []ReportedIsShown` |
| `WindowShowsFront` | `FrameSpec => []WindowMirrorsFront` |
| `PausesCanEnd` | `FrameSpec => []PauseWillEnd` |
| `FrontNeverWritten` | `FrameSpec => FrontUntouched` |
| `ImplementsFeed` | `FrameSpec => Feed!Spec` |

The inductive invariant is `TypeOK /\ ShownInv`, with `ShownInv` the conjunction of
`BufferInv`, `ReportedIsShown` and `WindowMirrorsFront`. The last two are not
inductive alone: that a flip shows what it reports rests on the difference between
the two screens being exactly `deferredUpdates` (`BufferInv`). The heart of the
argument is one fact about both cases of `backUpdated`: what `applyDeferred` leaves
on the back screen is everything received, and the front screen followed by what
it leaves in `deferredUpdates` is that too. No assumption on the constants is
needed.

`VNCSessionProofs` proves, for every constant that satisfies `SessionAssumption`:

| theorem | statement |
|---|---|
| `SessionTypeCorrect` | `Spec => []SessionTypeOK` |
| `ImplementsFrameBuffer` | `Spec => FrameSpec` |
| `SessionBuffersFit` | `Spec => []BufferInv /\ []ReportedIsShown` |
| `NoSocketLeaked` | `Spec => []SocketReleased` |
| `NoFailureLost` | `Spec => []FailureReachesAgent` |
| `UpdatesArriveInOrder` | `Spec => []NothingLostOrReordered` |
| `UpdatesPaintedOnce` | `Spec => [](framePc = "paint" => frameMsg \notin Range(received))` |
| `WindowsReleased` | `Spec => []WindowReleased` |
| `RetriesInTime` | `Spec => []RetryBudget` |
| `CycleSurvives` | `Spec => []CycleNeverDies` if `"SetSubscription" \notin Calls` |

* `ImplementsFrameBuffer` needs no refinement mapping, because the session's
  variables include those of the buffer: each action is one of `FrameBuffer`'s or
  leaves its variables alone. The theorems about the buffer carry over.
* `NoSocketLeaked` strengthens `SocketReleased` to `ConnectionInv`, which also says
  in which states of `connect` a socket is open and when `conn` is published.
* `FailureReachesAgent` is inductive given the types: a channel that drops an error
  holds another one, which counts.
* `UpdatesArriveInOrder` needs `HandInv`: a goroutine has a message in hand only where it
  is about to pass it on. The line from the server to the screen, `received \o InTransit`,
  is then a concatenation of seven parts, and every step that moves an update moves it
  from the front of one part to the end of the one before it. What the steps need of
  `UpdatesOf`, the updates among the messages on the wire, are lemmas of `DataLemmas` on
  `FlattenSeq`.
* `UpdatesPaintedOnce` says that a guard of the model is no restriction:
  `FrameBuffer!Maintain` takes only updates that were not received before, which makes
  the buffer's model finite, and no session is ever held up by it. It follows from the
  order and from the server sending each update once.
* `RetriesInTime` uses `ConnectionInv` too: `connect` sleeps only while it has no socket.
* `CycleSurvives` is split in two. `CycleInv` (a living session whose cycle does not
  run is paused) is inductive only while `StableSubscription` holds: nobody is in
  the middle of `SetSubscription`, so that every request asks for something. A
  pause that can end is then `BufferInv`. The assumption is needed (section 4).

`DecodersProofs` proves, for every size of memory and every alphabet, of `ForwardCopy`:

| theorem | statement |
|---|---|
| `CopyTypeCorrect` | `Spec => []CopyTypeOK` |
| `CopyIsForward` | `Spec => []CopiesForward` |
| `CopyIsByteByByte` | `Spec => []ForwardIsByteByByte` |

The invariant says of each turn that what is done so far is
`Forward` of the call, and that the gap between `src` and `dst` is a multiple of the
first one, from which it follows that repeating the longer pattern goes on
repeating the shorter one. `ByteByByteIsForward` shows by induction over the bytes that
the loop of the source's comment, a recursive function, leaves `Forward` as well.

It also proves of `RectangleData`, for every set of pictures, formats, palettes and lengths
and all limits and sizes that satisfy `DataAssumption`, so for tiles of 64 and bytes of 255:

| theorem | statement |
|---|---|
| `DataTypeCorrect` | `DataSpec => []DataTypeOK` |
| `ReadsWhatIsShown` | `DataSpec => []ShownSoFar` |
| `ReadsToTheLastByte` | `DataSpec => []ReadsExactly` |
| `FailsForNothingElse` | `DataSpec => []FailsOnlyFor` |

`ShownSoFar` speaks of the tile in hand. `DataInv` adds what lies behind it: every colour
of the tiles before it is painted (`TilesInv`), the palette has every colour that is still to be
read (`PaletteInv`), and the bits left of a byte are the indices after the last
one that was read (`PartInv`). Each step then needs that what the decoder computes from
the bytes is what the server encoded, which is a lemma for each encoding: the bytes of a
raw pixel in both orders, the fields of a packed byte, the bytes of a run, and those
of a compact length; that the copies of `fillColor`, which double, reach every colour
once; and that a tile's rows and columns are those of the picture. They rest on the arithmetic
of powers of two and of sums, which are recursive functions, computed with
`PrimitiveRecursion`. That uint16 does not wrap is where `MaxWidth + Tile <= Wrap` and
`MaxHeight + Tile <= Wrap` are used. `FormatInv` adds which encoding each stage belongs to and
that the colours of the picture are colours of the format: `FailsForNothingElse` needs it,
because it names for each failure and panic the encoding and the format it comes with, and
a pixel of one byte is inside the colour map by the arithmetic of its bytes.

`DataLemmas` holds what several of the proofs need: the arithmetic of remainders, facts
about `FlattenSeq`, and induction over data without an operator as parameter.
`NatSetInduction` is the induction principle stated for a set of numbers, proved from the
pigeonhole theorem of the library; `PrimitiveRecursion` says that a function defined by
recursion on a number exists, so that it can be computed with.

`InflateWindowProofs` proves, for every size of the ring, every alphabet, every
longest copy and every stream (`WindowAssumption` only asks for positive sizes):

| theorem | statement |
|---|---|
| `WindowTypeCorrect` | `Spec => []WindowTypeOK` |
| `RingHoldsHistory` | `Spec => []WindowIsHistory` |
| `NoByteSkipped` | `Spec => []NothingSkipped` |
| `InflateReturnsAll` | `Spec => []InflatedAll` |
| `StreamAccepted` | `Spec => []NeverCorrupt` |

The inductive invariant `IInv` adds three things to the properties. `ControlInv`
says where the decoder can be interrupted and that nothing is left to be read when
a step runs: otherwise the step would write over the slice handed out.
`PendingInv` is about a copy that a flush interrupted: what is left of it still
repeats the `copyDist` bytes before it, which the ring still holds. `FullInv`
says that a ring that is full was filled by the stream. `ProducedKeeps` is the
heart of the proof: whatever action wrote `n` bytes at `hp` as they stand in the
stream, with or without filling the ring, all of the properties survive.

`TightStreamsProofs` proves, for every set of contents, every number of rectangles
and every choice of streams and filters:

| theorem | statement |
|---|---|
| `TightTypeCorrect` | `TightSpec => []TightTypeOK` |
| `DecodesFaithfully` | `TightSpec => []DecodedIsEncoded` |
| `StayInStep` | `TightSpec => []ReadersInStep` |
| `RefusesFirstUseOnly` | `TightSpec => RefusedAtFirstUse` |

`StreamInv` says of each stream that it was never used, or is to be reset and has
been restarted by the server, or that its reader is at the last block. In each
of the three cases `BlockIsNext` shows that, after the reset that may be due and the
flush that may be left, the reader finds exactly the block of the rectangle, except
in the first case with a reset: that is the only refusal of a stream left, and what
`RefusesFirstUseOnly` says of every step.

`DriverBridgeProofs` proves, for every set of names and every number of sessions, drivers
and objects held (`BridgeAssumption` asks for natural numbers, and for `Py_None` to be no array):

| theorem | statement |
|---|---|
| `BridgeTypeCorrect` | `BridgeSpec => []BridgeTypeOK` |
| `TablesCorrect` | `BridgeSpec => []TablesAgree` |
| `NoLeaks` | `BridgeSpec => []NothingLeaked` |
| `RefCountsExact` | `BridgeSpec => []RefCounts` |
| `RendererUnique` | `BridgeSpec => []OneRenderer` |
| `ResultsCurrent` | `BridgeSpec => []ResultsShowFront` |
| `ContractHolds` | `BridgeSpec => []ContractKept` |

Of these only `ContractKept` is inductive alone. That no count falls below zero follows from
`RefCounts`, which says what is counted; that `connect`, `close` and `c_dealloc` release each
array once follows from `TablesAgree`, because the arrays under two names are those of
two sessions; and a session that `connect` opens is new, because sessions are numbered
and none beyond `opened` occurs anywhere, in tables, results or held arrays.
`ResultsShowFront` is preserved by `FrontInv`. Its hard part is `OneEach`: an array of an open
session to which anybody refers is the one in the table, so that a screen that is `Missing` has none
yet, and the one `step` makes is new. That the program holds no array of a session to come
(`HeldKnown`) is what makes it true of a session that `connect` opens. `EntriesFront` then says of every
result, also of an earlier step that failed half way or of a freed driver, that
it shows the front screens of the sessions still open.

`ClientConnProofs` proves, for every choice of authentications, formats, encodings and
limits that satisfies `ConnAssumption`:

| theorem | statement |
|---|---|
| `ConnTyped` | `ConnSpec => []ConnTypeOK` |
| `AlwaysInStep` | `ConnSpec => []InStep` |
| `EncodingsAlwaysKnown` | `ConnSpec => []EncodingsKnown` |
| `UsualNeverRefused` | `ConnSpec => []OnlyForeignRefused` |

The last two follow from `SetupInv`, which speaks of the tokens under way: a request is only in
the stream to the server, and a rectangle only in the stream to the client, when the
encodings have been stored, and every format on its way is the native one or `RGB32`. That
is an order that no single party keeps: it goes from `StoreEncodings` over the request
and the server's `wanted` to the rectangle that the main loop reads.

`InStep` is far from inductive. `StepsInv` has two parts. `HandshakeInStep` pairs the two ends: for
each of the seven reads of the handshake it lists where the server can be and what is
under way in both directions, 22 situations in all, among them a refusal with and without a reason
and the silence of version 3.3. `SessionInStep` is about streams of any length: what is
under way to the client is `MessageStream(toClient, n)`, the `n` rectangles that are due
and then whole messages, each update followed by its rectangles, with `n` the `rectsLeft` of
the reader. It is stated by a function that counts what is due after each token; taking
a token shifts the function, and adding messages joins two of them. That the server never
reads a cut text of another length than announced is a fact about the tokens, and part of `SetupInv`.

**Only model-checked.** All liveness properties, which are out of the provers' reach. The
invariants that the passing runs check are all proved, `CycleNeverDies` under the assumption
named.

## 6. Not modelled, and plan

Not modelled: the DEFLATE compressor, which only its own tests use; the recording
transcoder and the viewers, which keep no state the driver depends on; build
scripts. Corrupt input is not modelled in the decoders: what they do then is an
error in most places, and an index out of range where a length is not checked, and
no promise of the repository is about it. The arithmetic of GradientFilter cannot be
reached. ZRLE in formats of 32 bits other than the simplest one is not modelled.

What remains:

1. The index arithmetic of `applyRect` against the screen, with rectangles that do not
   lie on it.
