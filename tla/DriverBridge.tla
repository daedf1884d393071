---------------------------- MODULE DriverBridge ----------------------------
(***************************************************************************)
(* The Python extension (main.go, gl.go) over the batch of named sessions  *)
(* (VNCBatch of gymvnc.go), as one Python program uses it.                 *)
(*                                                                         *)
(* Every call holds batchLock from its first to its last step, so a call   *)
(* is one action: it leaves in call what it returned and whether a Python  *)
(* error is set.  The interpreter lock is held as long, except while       *)
(* PyIter_Next runs an iterator of the program: the program has one        *)
(* thread here, and its iterators make no call of the driver, which would  *)
(* wait for batchLock for ever.  The sessions themselves are VNCSession's; *)
(* here a session may be connected, and has a front screen that a step     *)
(* may flip.                                                               *)
(*                                                                         *)
(* The driver keeps three tables that must agree: the sessions of the      *)
(* batch, the C strings of their names, and the numpy arrays that wrap     *)
(* their screens, made when a screen is first seen and looked up from then *)
(* on.  Python counts the references to arrays and to the preallocated     *)
(* tuple of three dictionaries that every step returns.                    *)
(*                                                                         *)
(* A Python object that is freed and another allocated at its address      *)
(* reuse the key of batchMgr: generation g is the g-th object.             *)
(***************************************************************************)
EXTENDS Integers, FiniteSets, Functions

CONSTANTS
  Name,       \* the names a program gives to sessions
  MaxOpens,   \* bound: sessions opened in all
  MaxInits,   \* bound: objects at one address, one after the other
  MaxHeld,    \* bound: results of step and arrays the program holds at a time
  Address,    \* bound: the arrays of one screen that there are at a time
  Py_None

SessionId == 1..MaxOpens
Screen == {"A", "B"}
ScreenPtr == SessionId \X Screen      \* each session makes its two screens
Array == SessionId \X Screen \X Address
Wraps(a) == <<a[1], a[2]>>            \* the screen whose memory the array shows
ScreenTable == UNION {[S -> Array] : S \in SUBSET ScreenPtr}
Generation == 1..MaxInits

ASSUME BridgeAssumption ==
  /\ MaxOpens \in Nat /\ MaxInits \in Nat /\ MaxHeld \in Nat
  /\ Py_None \notin Array

(* What a program may pass: the events for one session, perhaps none, or a *)
(* subscription.                                                           *)
(* "unknown": an event of no known type, "raises": an iterator that raises *)
(* after some items, "noniter": no iterable, "malformed": a short tuple.   *)
Actions == {"good", "malformed", "unknown", "raises", "noniter"}
SubscriptionArgs == {"good", "malformed", "raises", "noniter"}

Good(acts) == {n \in DOMAIN acts : acts[n] = "good"}

VARIABLES
  registered,    \* is there an entry for the object in batchMgr?
  generation,    \* objects made so far
  sessions,      \* info.batch.sessions, from names to sessions
  names,         \* info.names, from names to C strings
  screenNumpy,   \* info.screenNumpy: under each name, an array for each screen seen
  rendererSet,   \* info.rendererSet
  opened,        \* sessions ever opened; the C string of the n-th is string n
  live,          \* sessions whose Close was not called yet
  strings,       \* C strings allocated and not freed
  connected,     \* live sessions with c.conn
  front,         \* the front screen each session last returned
  renderer,      \* live sessions that were given a renderer
  refs,          \* reference count of each array, 0 if there is none
  tupleRefs,     \* reference count of each object's tuple, 0 if there is none
  screenPyDict,  \* the dictionary of screens in each tuple
  heldTuples,    \* references the program has to each tuple
  heldArrays,    \* arrays the program has a reference to
  call,          \* what the last call returned, and to which arguments
  crashed        \* did the process die?

infoVars == <<sessions, names, screenNumpy, strings>>
sessionVars == <<live, connected, front, renderer>>
pythonVars == <<refs, tupleRefs, screenPyDict, heldTuples, heldArrays>>
stateVars == <<registered, generation, infoVars, rendererSet, opened, sessionVars,
               pythonVars, crashed>>
bridgeVars == <<stateVars, call>>

Empty == [n \in {} |-> 0]
NoCall == [ret |-> "none", err |-> FALSE, odd |-> {}]

B(p) == IF p THEN 1 ELSE 0

Arrays(table) == UNION {Range(table[n]) : n \in DOMAIN table}
Shown(d) == Range(d) \ {Py_None}

Nothing ==
  /\ registered = FALSE /\ generation = 0 /\ rendererSet = FALSE /\ opened = 0
  /\ sessions = Empty /\ names = Empty /\ screenNumpy = Empty
  /\ live = {} /\ strings = {} /\ connected = {} /\ renderer = {}
  /\ front = [s \in SessionId |-> "A"]
  /\ refs = [a \in Array |-> 0]
  /\ tupleRefs = [g \in Generation |-> 0]
  /\ screenPyDict = [g \in Generation |-> Empty]
  /\ heldTuples = [g \in Generation |-> 0] /\ heldArrays = {}

BridgeInit == Nothing /\ call = NoCall /\ crashed = FALSE

(* The end of a call: what it returns, and the odd arguments, each of      *)
(* which left a Python error set that the call did not report.             *)
Returns(value, odd) ==
  call' = [NoCall EXCEPT !.ret = value, !.err = odd # {}, !.odd = odd]
Raises == call' = [NoCall EXCEPT !.ret = "NULL", !.err = TRUE]
Refuses == Raises /\ UNCHANGED stateVars
Sets(kinds) == kinds \ {"good"}

(* When the process dies nothing is left of it.  It dies of some odd       *)
(* arguments, and without memory: the results of PyDict_New,               *)
(* PyArray_SimpleNewFromData and PyLong_FromLong are not checked, and a    *)
(* NULL among them is set as an entry or released.  (If the string of the  *)
(* name cannot be allocated either, step raises and leaves the NULL in the *)
(* table; the process then dies only in the call that next uses it.)       *)
Dies(kind) ==
  /\ registered' = FALSE /\ generation' = 0 /\ rendererSet' = FALSE /\ opened' = 0
  /\ sessions' = Empty /\ names' = Empty /\ screenNumpy' = Empty
  /\ live' = {} /\ strings' = {} /\ connected' = {} /\ renderer' = {}
  /\ front' = [s \in SessionId |-> "A"]
  /\ refs' = [a \in Array |-> 0]
  /\ tupleRefs' = [g \in Generation |-> 0]
  /\ screenPyDict' = [g \in Generation |-> Empty]
  /\ heldTuples' = [g \in Generation |-> 0] /\ heldArrays' = {}
  /\ crashed' = TRUE /\ call' = [NoCall EXCEPT !.err = TRUE, !.odd = {kind}]

(* convertSubscriptionPy: only an item that is no tuple of four integers,  *)
(* or no iterable at all, is reported.                                     *)
MutantOnlyIterable(sub) == sub = "noniter"
SubscriptionFails(sub) == sub \in {"malformed", "noniter"}

(* GoVNCDriver_VNCSession_c_init, with preallocatePythonObjects: the tuple *)
(* takes over the references to the dictionaries.                          *)
c_init ==
  /\ ~registered /\ generation < MaxInits
  /\ registered' = TRUE /\ generation' = generation + 1 /\ rendererSet' = FALSE
  /\ tupleRefs' = [tupleRefs EXCEPT ![generation + 1] = 1]
  /\ Returns("none", {})
  /\ UNCHANGED <<infoVars, opened, sessionVars, refs, screenPyDict, heldTuples,
                 heldArrays, crashed>>

(* sessionInfo.close of the names in S, where VNCBatch.Close closes the    *)
(* session and its window: what is left of a table, and what is given up.  *)
(* A name that is not there is no error.                                   *)
MutantNotDeleted(table, S) == table
Without(table, S) == Restrict(table, DOMAIN table \ S)
Given(table, S) == Range(Restrict(table, DOMAIN table \cap S))

GivenUp(S) == Arrays(Restrict(screenNumpy, DOMAIN screenNumpy \cap S))

(* VNCSession.Close; nothing looks at the rest of a closed session.        *)
Close(closed, new) ==
  /\ live' = (live \ closed) \cup new
  /\ connected' = connected \ closed
  /\ renderer' = renderer \ closed
  /\ front' = [s \in SessionId |-> IF s \in closed THEN "A" ELSE front[s]]

(* VNCBatch.Open evicts a session still in its map.                        *)
Put(table, n, v) == [m \in DOMAIN table \cup {n} |-> IF m = n THEN v ELSE table[m]]

(* The names connect closes first.                                         *)
MutantNotReplaced(n) == {}
Replaced(n) == {n} \cap DOMAIN names

(* sessionInfo.open: a new session has no arrays yet.                      *)
MutantArraysKept(n) == IF n \in DOMAIN screenNumpy THEN screenNumpy
                       ELSE Put(screenNumpy, n, Empty)
FreshTable(n) == Put(screenNumpy, n, Empty)

(* GoVNCDriver_VNCSession_connect: info.close, VNCBatch.Open, info.open.   *)
connect(n, sub) ==
  \/ /\ ~registered \/ SubscriptionFails(sub)
     /\ Refuses
  \/ /\ registered /\ ~SubscriptionFails(sub)
     /\ opened < MaxOpens
     /\ LET s == opened + 1 IN
        /\ opened' = s
        /\ sessions' = Put(sessions, n, s)
        /\ names' = Put(names, n, s)
        /\ screenNumpy' = FreshTable(n)
        /\ Close(Given(sessions, {n}), {s})
        /\ strings' = (strings \ Given(names, Replaced(n))) \cup {s}
     /\ LET gone == GivenUp(Replaced(n)) IN
        refs' = [a \in Array |-> refs[a] - B(a \in gone)]
     /\ Returns("None", Sets({sub}))
     /\ UNCHANGED <<registered, generation, rendererSet, tupleRefs, screenPyDict,
                    heldTuples, heldArrays, crashed>>

(* GoVNCDriver_VNCSession_close with a name.                               *)
close(n) ==
  \/ ~registered /\ Refuses
  \/ /\ registered
     /\ Close(Given(sessions, {n}), {})
     /\ strings' = strings \ Given(names, {n})
     /\ sessions' = Without(sessions, {n})
     /\ names' = Without(names, {n})
     /\ screenNumpy' = Without(screenNumpy, {n})
     /\ refs' = [a \in Array |-> refs[a] - B(a \in GivenUp({n}))]
     /\ Returns("None", {})
     /\ UNCHANGED <<registered, generation, rendererSet, opened, tupleRefs,
                    screenPyDict, heldTuples, heldArrays, crashed>>

(* One reference to the tuple of generation g less; the last one frees the *)
(* dictionaries and the references they hold.                              *)
TupleAfter(g) == [tupleRefs EXCEPT ![g] = @ - 1]
Dropped(g) == IF tupleRefs[g] = 1 THEN Shown(screenPyDict[g]) ELSE {}
DictAfter(g) == IF tupleRefs[g] = 1 THEN [screenPyDict EXCEPT ![g] = Empty] ELSE screenPyDict

(* The arrays a driver still has in its table once every name is closed.   *)
MutantAllLeft == Arrays(screenNumpy)
Leftover == Arrays(Without(screenNumpy, DOMAIN names))

(* GoVNCDriver_VNCSession_c_dealloc, for a freed object or close without a *)
(* name: every name, then the tuple, then whatever is left in screenNumpy. *)
c_dealloc ==
  \/ ~registered /\ Returns("None", {}) /\ UNCHANGED stateVars
  \/ /\ registered
     /\ registered' = FALSE
     /\ Close(Given(sessions, DOMAIN names), {})
     /\ strings' = strings \ Given(names, DOMAIN names)
     /\ sessions' = Empty /\ names' = Empty /\ screenNumpy' = Empty
     /\ tupleRefs' = TupleAfter(generation)
     /\ screenPyDict' = DictAfter(generation)
     /\ refs' = [a \in Array |-> refs[a] - B(a \in GivenUp(DOMAIN names))
                   - B(a \in Dropped(generation)) - B(a \in Leftover)]
     /\ Returns("None", {})
     /\ UNCHANGED <<generation, rendererSet, opened, heldTuples, heldArrays, crashed>>

(* step: the loop over info.names converts the events of one session after *)
(* the other, in any order.  It returns at a malformed event, and at the   *)
(* next name if an error was set without being reported.                   *)
Marked(acts) == {n \in DOMAIN acts : acts[n] \in {"unknown", "raises"}}
HasKind(acts, kind) == \E n \in DOMAIN acts : acts[n] = kind

StepRefused(acts) ==
  \/ ~registered
  \/ HasKind(acts, "malformed")
  \/ Cardinality(DOMAIN acts) > 1 /\ Marked(acts) # {}

AllConverted(acts) ==
  /\ registered
  /\ ~HasKind(acts, "malformed") /\ ~HasKind(acts, "noniter")
  /\ Cardinality(Marked(acts)) <= 1

(* VNCSession.Step returns no screen, on an error or before the session is *)
(* connected, or the front screen after a flip that swaps the screens or   *)
(* not.  An event of no known type is nil, which is harmless only if an    *)
(* event before it fails.                                                  *)
StepResults(s, act) ==
  {"nothing"} \cup IF s \in connected /\ act # "unknown" THEN Screen ELSE {}

(* VNCBatch.Step *)
BatchResults(acts) ==
  {r \in [DOMAIN names -> Screen \cup {"nothing"}] :
     \A n \in DOMAIN names : r[n] \in StepResults(sessions[n], acts[n])}

Flipped(r) ==
  [s \in SessionId |->
     LET shown == {n \in DOMAIN names : sessions[n] = s /\ r[n] \in Screen}
     IN  IF shown = {} THEN front[s] ELSE r[CHOOSE n \in shown : TRUE]]

(* The lookup of populateScreenPyDict: an array is made for a screen that  *)
(* is not in the table, of the memory of that screen, and kept there.      *)
Key(r, n) == <<sessions[n], r[n]>>
MutantAlwaysMade(r, S) == {n \in S : r[n] \in Screen}
Missing(r, S) == {n \in S : r[n] \in Screen /\ Key(r, n) \notin DOMAIN screenNumpy[n]}
Free(k) == {a \in Array : Wraps(a) = k /\ refs[a] = 0}
NewArray(k) == CHOOSE a \in Free(k) : TRUE
Tabled(r, S) ==
  [n \in DOMAIN screenNumpy |->
     IF n \in Missing(r, S)
       THEN Put(screenNumpy[n], Key(r, n), NewArray(Key(r, n)))
       ELSE screenNumpy[n]]

(* The entry for a name, by the table.                                     *)
MutantOnePerName(table, r, n) ==
  IF r[n] \in Screen THEN CHOOSE a \in Range(table[n]) : TRUE ELSE Py_None
Entry(table, r, n) == IF r[n] \in Screen THEN table[n][Key(r, n)] ELSE Py_None

(* The old dictionary is cleared, the table keeps a reference to each new  *)
(* array, and the dictionary one to each it holds.                         *)
MutantNotCleared(d, table) ==
  LET made == Arrays(table) \ Arrays(screenNumpy)
      shown == Shown(d)
  IN  [a \in Array |-> refs[a] + B(a \in made) + B(a \in shown)]
Counted(d, table) ==
  LET made == Arrays(table) \ Arrays(screenNumpy)
      before == Shown(screenPyDict[generation])
      shown == Shown(d)
  IN  [a \in Array |-> refs[a] - B(a \in before) + B(a \in made) + B(a \in shown)]

(* populateScreenPyDict, populateInfoPyDict and populateErrorPyDict; with  *)
(* Python out of memory one of them fails, the first perhaps with entries, *)
(* those in left, not set.                                                 *)
Populate(r, left) ==
  LET done == DOMAIN names \ left
      d == [n \in done |-> Entry(screenNumpy', r, n)]
  IN
  /\ \E failed \in IF left = {} THEN {{}} ELSE {{n} : n \in left} :
       screenNumpy' = Tabled(r, done \cup failed)
  /\ screenPyDict' = [screenPyDict EXCEPT ![generation] = d]
  /\ refs' = Counted(d, screenNumpy')

(* The events a program passes, odd ones for one session at most.          *)
StepArgs ==
  {acts \in [DOMAIN names -> Actions] : Cardinality(DOMAIN acts \ Good(acts)) <= 1}

(* GoVNCDriver_VNCSession_step *)
step(acts) ==
  \/ StepRefused(acts) /\ Refuses
  \/ registered /\ HasKind(acts, "noniter") /\ Dies("noniter")   \* PyIter_Next(NULL)
  \/ /\ AllConverted(acts)                                       \* Execute of a nil event
     /\ \E n \in DOMAIN names : acts[n] = "unknown" /\ sessions[n] \in connected
     /\ Dies("unknown")
  \/ AllConverted(acts) /\ DOMAIN names # {} /\ Dies("memory")   \* no object allocated
  \/ /\ AllConverted(acts) /\ heldTuples[generation] < MaxHeld
     /\ \E r \in BatchResults(acts) :
          /\ \A n \in Missing(r, DOMAIN names) : Free(Key(r, n)) # {}
          /\ front' = Flipped(r)
          /\ \/ /\ Populate(r, {})
                /\ tupleRefs' = [tupleRefs EXCEPT ![generation] = @ + 1]
                /\ heldTuples' = [heldTuples EXCEPT ![generation] = @ + 1]
                /\ Returns("tuple", Sets(Range(acts)))
             \/ /\ DOMAIN names # {}
                /\ \E left \in SUBSET DOMAIN names : Populate(r, left)
                /\ Raises
                /\ UNCHANGED <<tupleRefs, heldTuples>>
     /\ UNCHANGED <<registered, generation, sessions, names, strings, rendererSet, opened,
                    live, connected, renderer, heldArrays, crashed>>

(* GoVNCDriver_VNCSession_update: VNCBatch.SetSubscription.                *)
update(n, sub) ==
  /\ IF ~registered \/ SubscriptionFails(sub) \/ n \notin DOMAIN sessions
       THEN Raises
       ELSE Returns("None", Sets({sub}))
  /\ UNCHANGED stateVars

(* GoVNCDriver_VNCSession_render, with OpenGL compiled in: initRenderer    *)
(* gives the first name ever rendered a renderer, and VNCSession.Render,   *)
(* whose window is FrameBuffer's, fails without one or in Init.            *)
MutantRendererEach(n) == n \in DOMAIN sessions
FirstRender(n) == ~rendererSet /\ n \in DOMAIN sessions

render(n) ==
  /\ IF ~registered
       THEN Raises /\ UNCHANGED <<rendererSet, renderer>>
       ELSE /\ rendererSet' = TRUE
            /\ renderer' = IF FirstRender(n) THEN renderer \cup {sessions[n]} ELSE renderer
            /\ \/ /\ n \in DOMAIN sessions =>
                       sessions[n] \notin renderer' \ connected
                  /\ Raises
               \/ /\ n \in DOMAIN sessions /\ sessions[n] \in renderer'
                  /\ Returns("None", {})
  /\ UNCHANGED <<registered, generation, infoVars, opened, live, connected, front,
                 pythonVars, crashed>>

(* connect of a session publishes its connection.                          *)
SessionConnects ==
  /\ \E s \in live \ connected : connected' = connected \cup {s}
  /\ UNCHANGED <<registered, generation, infoVars, rendererSet, opened, live, front, renderer,
                 pythonVars, call, crashed>>

(* The program keeps an array of a result it has, or drops one.            *)
KeepArray ==
  /\ \E g \in Generation : \E a \in Shown(screenPyDict[g]) \ heldArrays :
       /\ heldTuples[g] > 0 /\ Cardinality(heldArrays) < MaxHeld
       /\ heldArrays' = heldArrays \cup {a}
       /\ refs' = [refs EXCEPT ![a] = @ + 1]
  /\ UNCHANGED <<tupleRefs, screenPyDict, heldTuples>>

DropArray ==
  /\ \E a \in heldArrays :
       /\ heldArrays' = heldArrays \ {a}
       /\ refs' = [refs EXCEPT ![a] = @ - 1]
  /\ UNCHANGED <<tupleRefs, screenPyDict, heldTuples>>

DropTuple ==
  /\ \E g \in Generation :
       /\ heldTuples[g] > 0
       /\ heldTuples' = [heldTuples EXCEPT ![g] = @ - 1]
       /\ tupleRefs' = TupleAfter(g)
       /\ screenPyDict' = DictAfter(g)
       /\ refs' = [a \in Array |-> refs[a] - B(a \in Dropped(g))]
  /\ UNCHANGED heldArrays

ProgramStep ==
  /\ KeepArray \/ DropArray \/ DropTuple
  /\ UNCHANGED <<registered, generation, infoVars, rendererSet, opened, sessionVars,
                 call, crashed>>

(* The program takes what a call returned before it does anything else.    *)
ResultTaken ==
  /\ call # NoCall /\ call' = NoCall
  /\ UNCHANGED stateVars

Call(n) ==
  \/ \E sub \in SubscriptionArgs : connect(n, sub) \/ update(n, sub)
  \/ close(n) \/ render(n)

BridgeNext ==
  /\ ~crashed
  /\ \/ /\ call = NoCall
        /\ \/ c_init \/ c_dealloc
           \/ \E n \in Name : Call(n)
           \/ \E acts \in StepArgs : step(acts)
           \/ ProgramStep \/ SessionConnects
     \/ ResultTaken

BridgeSpec == BridgeInit /\ [][BridgeNext]_bridgeVars

(***************************************************************************)
(* Properties.                                                             *)
(***************************************************************************)

(* Every variable holds values of its kind; in particular no reference     *)
(* count falls below zero, so no array or tuple is released twice.         *)
BridgeTypeOK ==
  /\ registered \in BOOLEAN /\ generation \in 0..MaxInits /\ opened \in 0..MaxOpens
  /\ sessions \in [DOMAIN sessions -> SessionId] /\ DOMAIN sessions \subseteq Name
  /\ names \in [DOMAIN names -> SessionId] /\ DOMAIN names \subseteq Name
  /\ screenNumpy \in [DOMAIN screenNumpy -> ScreenTable]
  /\ DOMAIN screenNumpy \subseteq Name
  /\ rendererSet \in BOOLEAN /\ crashed \in BOOLEAN
  /\ live \subseteq SessionId /\ strings \subseteq SessionId
  /\ connected \subseteq SessionId /\ renderer \subseteq SessionId
  /\ front \in [SessionId -> Screen]
  /\ refs \in [Array -> Nat] /\ heldArrays \subseteq Array
  /\ tupleRefs \in [Generation -> Nat] /\ heldTuples \in [Generation -> Nat]
  /\ DOMAIN screenPyDict = Generation
  /\ \A g \in Generation :
       screenPyDict[g] \in [DOMAIN screenPyDict[g] -> Array \cup {Py_None}]

(* The three tables of main.go have the same names, under each the same    *)
(* session, and only screens of that session, each with an array of its    *)
(* own memory: close and connect keep the tables in step through every     *)
(* reconnection under an old name.                                         *)
TablesAgree ==
  /\ sessions = names
  /\ DOMAIN screenNumpy = DOMAIN names
  /\ \A n \in DOMAIN names : \A k \in DOMAIN screenNumpy[n] :
       k[1] = names[n] /\ Wraps(screenNumpy[n][k]) = k
  /\ ~registered => names = Empty

(* A session is closed and the C string of its name freed as soon as its   *)
(* name is closed, opened again or its driver freed, and not before.       *)
NothingLeaked ==
  /\ live = Range(sessions)
  /\ strings = Range(names)

(* The reference counts are those of the references there are: an array is *)
(* freed exactly when no table, no dictionary and no program refers to it, *)
(* through closed sessions, freed drivers and failed steps.                *)
RefCounts ==
  /\ \A a \in Array :
       refs[a] = B(a \in Arrays(screenNumpy))
                   + B(\E g \in Generation : a \in Shown(screenPyDict[g]))
                   + B(a \in heldArrays)
  /\ \A g \in Generation :
       /\ tupleRefs[g] = B(registered /\ g = generation) + heldTuples[g]
       /\ tupleRefs[g] = 0 => screenPyDict[g] = Empty

(* What the program has of a driver shows its sessions: a screen of a      *)
(* session that is open has one array, the one in the table, however often *)
(* it comes to the front; each entry of a result is for as long as its     *)
(* session is open the front screen of the session under that name; and a  *)
(* step that succeeds has an entry for every name.  Tables, dictionaries   *)
(* and the arrays a program kept live on through reconnections, failed     *)
(* steps and freed drivers.                                                *)
ResultsShowFront ==
  /\ \A a \in Array : refs[a] > 0 /\ a[1] \in live =>
       \E n \in DOMAIN names :
         names[n] = a[1] /\ Wraps(a) \in DOMAIN screenNumpy[n] /\ screenNumpy[n][Wraps(a)] = a
  /\ \A g \in Generation : \A n \in DOMAIN screenPyDict[g] :
       LET a == screenPyDict[g][n] IN
       a # Py_None /\ a[1] \in live =>
         n \in DOMAIN sessions /\ Wraps(a) = <<sessions[n], front[sessions[n]]>>
  /\ call.ret = "tuple" => DOMAIN screenPyDict[generation] = DOMAIN names

(* A call returns NULL exactly when it leaves a Python error set, unless   *)
(* it was given an event of no known type, an iterator that raises, or     *)
(* events that cannot be iterated over: those are not reported.  Without   *)
(* memory it may end the process.                                          *)
ContractKept ==
  \/ call.ret = "NULL" <=> call.err
  \/ "unknown" \in call.odd \/ "raises" \in call.odd
  \/ crashed /\ call.odd \in {{"noniter"}, {"memory"}}

(* Of the sessions of a driver one at most ever has a renderer, the one    *)
(* under the name first rendered: all windows of a process would share the *)
(* textures of one context.                                                *)
OneRenderer ==
  /\ renderer \subseteq live
  /\ \A s, t \in renderer : s = t

=============================================================================
