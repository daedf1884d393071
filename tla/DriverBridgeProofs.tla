------------------------- MODULE DriverBridgeProofs -------------------------
(***************************************************************************)
(* Proofs about DriverBridge for any number of names, sessions and         *)
(* objects: its tables agree, nothing is leaked, the reference counts are  *)
(* exact, and what a program holds shows the sessions there are.           *)
(*                                                                         *)
(* Closing a name takes its arrays out of the table, one reference each.   *)
(* That this is all there was needs arrays to be under one name only       *)
(* (OneName), and clearing a dictionary needs them to be in one dictionary *)
(* only: those of the objects before are of sessions that are closed       *)
(* (DictsApart).                                                           *)
(***************************************************************************)
EXTENDS DriverBridge, TLAPS

(* The arrays of a name wrap the screens of its session. *)
Owned(s, t) == \A k \in DOMAIN t : k[1] = s /\ Wraps(t[k]) = k

OneName ==
  /\ \A n, m \in DOMAIN names : names[n] = names[m] => n = m
  /\ \A n \in DOMAIN names : names[n] <= opened

DictsApart ==
  /\ \A g, h \in Generation :
       g # h => Shown(screenPyDict[g]) \cap Shown(screenPyDict[h]) = {}
  /\ \A g \in Generation : \A a \in Shown(screenPyDict[g]) :
       /\ a[1] <= opened
       /\ g # generation => a[1] \notin Range(names)

Started ==
  /\ registered => generation \in Generation
  /\ \A g \in Generation : g > generation => heldTuples[g] = 0

Tables == TablesAgree /\ NothingLeaked /\ OneName
Counts == RefCounts /\ DictsApart /\ Started
BridgeInv == BridgeTypeOK /\ Tables /\ Counts

(* What the tables keep of a name, in terms of the entries. *)
LEMMA RangeWithout ==
  ASSUME NEW f, NEW S, \A n, m \in DOMAIN f : f[n] = f[m] => n = m
  PROVE  /\ Range(Without(f, S)) = Range(f) \ Given(f, S)
         /\ DOMAIN Without(f, S) = DOMAIN f \ S
         /\ \A n \in DOMAIN f \ S : Without(f, S)[n] = f[n]
<1> SUFFICES ASSUME NEW v
             PROVE  v \in Range(Without(f, S)) <=> v \in Range(f) \ Given(f, S)
  BY DEF Without, Restrict
<1>1. v \in Range(Without(f, S)) <=> \E n \in DOMAIN f \ S : v = f[n]
  BY DEF Without, Restrict, Range
<1>2. v \in Given(f, S) <=> \E n \in DOMAIN f \cap S : v = f[n]
  BY DEF Given, Restrict, Range
<1>3. v \in Range(f) <=> \E n \in DOMAIN f : v = f[n]
  BY DEF Range
<1> QED  BY <1>1, <1>2, <1>3

LEMMA RangePut ==
  ASSUME NEW f, NEW n, NEW v, \A k, m \in DOMAIN f : f[k] = f[m] => k = m
  PROVE  Range(Put(f, n, v)) = (Range(f) \ Given(f, {n})) \cup {v}
<1> SUFFICES ASSUME NEW w
             PROVE  w \in Range(Put(f, n, v)) <=> w \in (Range(f) \ Given(f, {n})) \cup {v}
  BY DEF Put
<1>1. w \in Range(Put(f, n, v)) <=> w = v \/ \E m \in DOMAIN f \ {n} : w = f[m]
  BY DEF Put, Range
<1>2. w \in Given(f, {n}) <=> n \in DOMAIN f /\ w = f[n]
  BY DEF Given, Restrict, Range
<1>3. w \in Range(f) <=> \E m \in DOMAIN f : w = f[m]
  BY DEF Range
<1> QED  BY <1>1, <1>2, <1>3

(* Arrays are in the table under one name, that of their session. *)
LEMMA ArraysTabled ==
  ASSUME TablesAgree, OneName, NEW a
  PROVE  /\ a \in Arrays(screenNumpy) <=> \E n \in DOMAIN names : a \in Range(screenNumpy[n])
         /\ \A n, m \in DOMAIN names : a \in Range(screenNumpy[n]) /\ a \in Range(screenNumpy[m]) => n = m
         /\ \A n \in DOMAIN names : a \in Range(screenNumpy[n]) => a[1] = names[n]
         /\ \A S : a \in GivenUp(S) <=>
                     \E n \in DOMAIN names \cap S : a \in Range(screenNumpy[n])
         /\ \A S : a \in Arrays(Without(screenNumpy, S)) <=>
                     \E n \in DOMAIN names \ S : a \in Range(screenNumpy[n])
         /\ \A n : a \in Arrays(FreshTable(n)) <=>
                     \E m \in DOMAIN names \ {n} : a \in Range(screenNumpy[m])
<1>1. DOMAIN screenNumpy = DOMAIN names
  BY DEF TablesAgree
<1>2. ASSUME NEW n \in DOMAIN names, a \in Range(screenNumpy[n])
      PROVE  a[1] = names[n]
  <2>1. PICK k \in DOMAIN screenNumpy[n] : a = screenNumpy[n][k]
    BY <1>2 DEF Range
  <2>2. k[1] = names[n] /\ Wraps(a) = k
    BY <2>1 DEF TablesAgree
  <2> QED  BY <2>2 DEF Wraps
<1>3. \A n, m \in DOMAIN names : a \in Range(screenNumpy[n]) /\ a \in Range(screenNumpy[m]) => n = m
  BY <1>2 DEF OneName
<1>4. a \in Arrays(screenNumpy) <=> \E n \in DOMAIN names : a \in Range(screenNumpy[n])
  BY <1>1 DEF Arrays
<1>5. \A S : a \in GivenUp(S) <=>
               \E n \in DOMAIN names \cap S : a \in Range(screenNumpy[n])
  BY <1>1 DEF GivenUp, Restrict, Arrays
<1>6. \A S : a \in Arrays(Without(screenNumpy, S)) <=>
               \E n \in DOMAIN names \ S : a \in Range(screenNumpy[n])
  BY <1>1 DEF Without, Restrict, Arrays
<1>7. ASSUME NEW n
      PROVE  a \in Arrays(FreshTable(n)) <=>
               \E m \in DOMAIN names \ {n} : a \in Range(screenNumpy[m])
  <2>1. Range(Empty) = {}
    BY DEF Range, Empty
  <2> QED  BY <1>1, <2>1 DEF FreshTable, Put, Arrays
<1> QED  BY <1>2, <1>3, <1>4, <1>5, <1>6, <1>7

LEMMA TablesInit == Nothing => Tables
BY DEF Nothing, Tables, TablesAgree, NothingLeaked, OneName, Empty, Range

LEMMA TablesKept ==
  ASSUME Tables, UNCHANGED <<sessions, names, screenNumpy, strings, registered, opened, live>>
  PROVE  Tables'
BY DEF Tables, TablesAgree, NothingLeaked, OneName

LEMMA DiesNothing == \A kind : Dies(kind) => Nothing'
BY DEF Dies, Nothing

LEMMA TablesDies ==
  ASSUME NEW kind, Dies(kind)
  PROVE  Tables'
<1>1. (Nothing => Tables)'
  BY TablesInit, PTL
<1> QED  BY <1>1, DiesNothing

LEMMA OwnedTables ==
  ASSUME TablesAgree
  PROVE  \A m \in DOMAIN names : Owned(names[m], screenNumpy[m])
BY DEF TablesAgree, Owned

LEMMA TablesConnect ==
  ASSUME BridgeTypeOK, Tables, NEW n, NEW sub, connect(n, sub)
  PROVE  Tables'
<1>1. CASE ~registered \/ SubscriptionFails(sub)
  BY <1>1, TablesKept DEF connect, Refuses, stateVars, infoVars, sessionVars
<1>2. CASE ~(~registered \/ SubscriptionFails(sub))
  <2> DEFINE s == opened + 1
  <2>1. /\ registered /\ registered' = registered /\ opened' = s
        /\ sessions' = Put(sessions, n, s) /\ names' = Put(names, n, s)
        /\ screenNumpy' = FreshTable(n)
        /\ live' = (live \ Given(sessions, {n})) \cup {s}
        /\ strings' = (strings \ Given(names, Replaced(n))) \cup {s}
    BY <1>2 DEF connect, Close
  <2>2. /\ sessions = names /\ DOMAIN screenNumpy = DOMAIN names
        /\ \A m \in DOMAIN names : Owned(names[m], screenNumpy[m])
        /\ live = Range(names) /\ strings = Range(names)
        /\ \A k, m \in DOMAIN names : names[k] = names[m] => k = m
        /\ \A m \in DOMAIN names : names[m] <= opened
    BY OwnedTables DEF Tables, TablesAgree, NothingLeaked, OneName
  <2>3. opened \in Nat /\ \A m \in DOMAIN names : names[m] \in Nat
    BY <2>2, BridgeAssumption DEF BridgeTypeOK, SessionId
  <2>4. /\ Range(names') = (Range(names) \ Given(names, {n})) \cup {s}
        /\ DOMAIN names' = DOMAIN names \cup {n}
        /\ names'[n] = s
        /\ \A m \in DOMAIN names \ {n} : names'[m] = names[m]
    <3>1. \A k, m \in DOMAIN names : names[k] = names[m] => k = m
      BY <2>2
    <3>2. names' = Put(names, n, s)
      BY <2>1
    <3>3. Range(Put(names, n, s)) = (Range(names) \ Given(names, {n})) \cup {s}
      <4> HIDE DEF s
      <4> QED  BY <3>1, RangePut
    <3>4. /\ DOMAIN Put(names, n, s) = DOMAIN names \cup {n}
          /\ Put(names, n, s)[n] = s
          /\ \A m \in DOMAIN names \ {n} : Put(names, n, s)[m] = names[m]
      BY DEF Put
    <3> HIDE DEF s
    <3> QED  BY <3>2, <3>3, <3>4
  <2>5. Given(names, Replaced(n)) = Given(names, {n})
    BY DEF Given, Replaced, Restrict
  <2>6. TablesAgree'
    <3>1. DOMAIN screenNumpy' = DOMAIN names \cup {n}
      BY <2>1, <2>2 DEF FreshTable, Put
    <3>2. screenNumpy'[n] = Empty /\ \A m \in DOMAIN names \ {n} : screenNumpy'[m] = screenNumpy[m]
      BY <2>1, <2>2 DEF FreshTable, Put
    <3>3. \A m \in DOMAIN names' : Owned(names'[m], screenNumpy'[m])
      <4>1. Owned(s, Empty)
        BY DEF Owned, Empty
      <4> HIDE DEF s
      <4> QED  BY <2>2, <2>4, <3>2, <4>1
    <3> QED  BY <2>1, <2>2, <2>4, <3>1, <3>3 DEF TablesAgree, Owned
  <2>7. NothingLeaked'
    BY <2>1, <2>2, <2>4, <2>5 DEF NothingLeaked
  <2>8. OneName'
    BY <2>1, <2>2, <2>3, <2>4 DEF OneName
  <2> QED  BY <2>6, <2>7, <2>8 DEF Tables
<1> QED  BY <1>1, <1>2

LEMMA TablesClose ==
  ASSUME BridgeTypeOK, Tables, NEW n, close(n)
  PROVE  Tables'
<1>1. CASE ~registered
  BY <1>1, TablesKept DEF close, Refuses, stateVars, infoVars, sessionVars
<1>2. CASE registered
  <2>1. /\ registered' = registered /\ opened' = opened
        /\ sessions' = Without(sessions, {n}) /\ names' = Without(names, {n})
        /\ screenNumpy' = Without(screenNumpy, {n})
        /\ live' = live \ Given(sessions, {n})
        /\ strings' = strings \ Given(names, {n})
    BY <1>2 DEF close, Close
  <2>2. /\ sessions = names /\ DOMAIN screenNumpy = DOMAIN names
        /\ \A m \in DOMAIN names : Owned(names[m], screenNumpy[m])
        /\ live = Range(names) /\ strings = Range(names)
        /\ \A k, m \in DOMAIN names : names[k] = names[m] => k = m
        /\ \A m \in DOMAIN names : names[m] <= opened
    BY OwnedTables DEF Tables, TablesAgree, NothingLeaked, OneName
  <2>3. /\ Range(names') = Range(names) \ Given(names, {n})
        /\ DOMAIN names' = DOMAIN names \ {n}
        /\ \A m \in DOMAIN names \ {n} : names'[m] = names[m]
    <3>1. \A k, m \in DOMAIN names : names[k] = names[m] => k = m
      BY <2>2
    <3>2. names' = Without(names, {n})
      BY <2>1
    <3>3. /\ Range(Without(names, {n})) = Range(names) \ Given(names, {n})
          /\ DOMAIN Without(names, {n}) = DOMAIN names \ {n}
          /\ \A m \in DOMAIN names \ {n} : Without(names, {n})[m] = names[m]
      BY <3>1, RangeWithout
    <3> QED  BY <3>2, <3>3
  <2>4. TablesAgree'
    <3>1. /\ DOMAIN screenNumpy' = DOMAIN names \ {n}
          /\ \A m \in DOMAIN names \ {n} : screenNumpy'[m] = screenNumpy[m]
      BY <2>1, <2>2 DEF Without, Restrict
    <3> QED  BY <1>2, <2>1, <2>2, <2>3, <3>1 DEF TablesAgree, Owned
  <2>5. NothingLeaked'
    BY <2>1, <2>2, <2>3 DEF NothingLeaked
  <2>6. OneName'
    BY <2>1, <2>2, <2>3 DEF OneName
  <2> QED  BY <2>4, <2>5, <2>6 DEF Tables
<1> QED  BY <1>1, <1>2

LEMMA TablesDealloc ==
  ASSUME BridgeTypeOK, Tables, c_dealloc
  PROVE  Tables'
<1>1. CASE ~registered
  BY <1>1, TablesKept DEF c_dealloc, stateVars, infoVars, sessionVars
<1>2. CASE registered
  <2>1. /\ sessions' = Empty /\ names' = Empty /\ screenNumpy' = Empty
        /\ live' = live \ Given(sessions, DOMAIN names)
        /\ strings' = strings \ Given(names, DOMAIN names)
    BY <1>2 DEF c_dealloc, Close
  <2>2. live = Range(names) /\ strings = Range(names) /\ sessions = names
    BY DEF Tables, TablesAgree, NothingLeaked
  <2>3. Given(names, DOMAIN names) = Range(names)
    BY DEF Given, Restrict, Range
  <2>4. live' = {} /\ strings' = {}
    BY <2>1, <2>2, <2>3
  <2> QED  BY <2>1, <2>4 DEF Tables, TablesAgree, NothingLeaked, OneName, Empty, Range
<1> QED  BY <1>1, <1>2

(* A table of screens. *)
LEMMA ScreenTableIs ==
  ASSUME NEW t
  PROVE  t \in ScreenTable <=> t \in [DOMAIN t -> Array] /\ DOMAIN t \subseteq ScreenPtr
BY DEF ScreenTable

(* There is room for each array that is missing. *)
Room(r) == \A n \in Missing(r, DOMAIN names) : Free(Key(r, n)) # {}

(* The tables step leaves keep every array they had, and have one of its   *)
(* own memory for each screen of S that came to the front.                 *)
TabledWell(r, S, t) ==
  /\ DOMAIN t = DOMAIN names
  /\ \A n \in DOMAIN names : \A k \in DOMAIN screenNumpy[n] :
       k \in DOMAIN t[n] /\ t[n][k] = screenNumpy[n][k]
  /\ \A n \in DOMAIN names : Owned(names[n], t[n]) /\ t[n] \in ScreenTable
  /\ \A n \in S : r[n] \in Screen => Key(r, n) \in DOMAIN t[n]

LEMMA TabledIsWell ==
  ASSUME BridgeTypeOK, Tables, NEW r, NEW S \in SUBSET DOMAIN names, Room(r)
  PROVE  TabledWell(r, S, Tabled(r, S))
<1> DEFINE t == Tabled(r, S)
<1>1. DOMAIN screenNumpy = DOMAIN names /\ sessions = names
  BY DEF Tables, TablesAgree
<1>2. \A n \in DOMAIN names : Owned(names[n], screenNumpy[n]) /\ screenNumpy[n] \in ScreenTable
  BY <1>1, OwnedTables DEF Tables, BridgeTypeOK
<1>3. ASSUME NEW n \in Missing(r, S)
      PROVE  /\ t[n] = Put(screenNumpy[n], Key(r, n), NewArray(Key(r, n)))
             /\ NewArray(Key(r, n)) \in Array /\ Wraps(NewArray(Key(r, n))) = Key(r, n)
             /\ Key(r, n) \in ScreenPtr /\ Key(r, n)[1] = names[n]
             /\ Key(r, n) \notin DOMAIN screenNumpy[n]
  <2>1. n \in DOMAIN names /\ n \in S /\ r[n] \in Screen /\ n \in Missing(r, DOMAIN names)
    BY <1>3 DEF Missing
  <2>2. t[n] = Put(screenNumpy[n], Key(r, n), NewArray(Key(r, n)))
    BY <1>1, <1>3, <2>1 DEF Tabled
  <2>3. NewArray(Key(r, n)) \in Free(Key(r, n))
    BY <2>1 DEF Room, NewArray
  <2>4. Key(r, n) = <<names[n], r[n]>> /\ names[n] \in SessionId
    BY <1>1, <2>1 DEF Key, BridgeTypeOK
  <2>5. Key(r, n) \notin DOMAIN screenNumpy[n]
    BY <1>3 DEF Missing
  <2> QED  BY <2>1, <2>2, <2>3, <2>4, <2>5 DEF Free, ScreenPtr
<1>4. ASSUME NEW n \in DOMAIN names, n \notin Missing(r, S)
      PROVE  t[n] = screenNumpy[n]
  BY <1>1, <1>4 DEF Tabled
<1>5. DOMAIN t = DOMAIN names
  BY <1>1 DEF Tabled
<1> HIDE DEF t
<1>6. ASSUME NEW n \in DOMAIN names, n \in Missing(r, S)
      PROVE  /\ \A k \in DOMAIN screenNumpy[n] : k \in DOMAIN t[n] /\ t[n][k] = screenNumpy[n][k]
             /\ Owned(names[n], t[n]) /\ t[n] \in ScreenTable
             /\ Key(r, n) \in DOMAIN t[n]
  <2> DEFINE u == screenNumpy[n]
             q == Key(r, n)
             v == NewArray(q)
  <2>1. /\ t[n] = Put(u, q, v) /\ v \in Array /\ Wraps(v) = q
        /\ q \in ScreenPtr /\ q[1] = names[n] /\ q \notin DOMAIN u
    BY <1>3, <1>6
  <2>2. u \in [DOMAIN u -> Array] /\ DOMAIN u \subseteq ScreenPtr /\ Owned(names[n], u)
    BY <1>2, ScreenTableIs
  <2> HIDE DEF u, q, v
  <2>3. /\ DOMAIN t[n] = DOMAIN u \cup {q} /\ t[n][q] = v
        /\ \A j \in DOMAIN u : j # q => t[n][j] = u[j]
    <3>1. /\ DOMAIN Put(u, q, v) = DOMAIN u \cup {q} /\ Put(u, q, v)[q] = v
          /\ \A j \in DOMAIN u : j # q => Put(u, q, v)[j] = u[j]
      BY DEF Put
    <3> QED  BY <2>1, <3>1
  <2>4. Owned(names[n], t[n])
    BY <2>1, <2>2, <2>3 DEF Owned
  <2>5. \A j \in DOMAIN t[n] : t[n][j] \in Array
    BY <2>1, <2>2, <2>3
  <2>6. t[n] = [j \in DOMAIN u \cup {q} |-> IF j = q THEN v ELSE u[j]]
    BY <2>1 DEF Put
  <2>7. t[n] \in [DOMAIN t[n] -> Array]
    BY <2>1, <2>2, <2>6
  <2>8. t[n] \in ScreenTable
    <3> DEFINE w == t[n]
    <3>1. w \in [DOMAIN w -> Array] /\ DOMAIN w \subseteq ScreenPtr
      BY <2>1, <2>2, <2>3, <2>7
    <3> HIDE DEF w
    <3>2. w \in ScreenTable
      BY <3>1, ScreenTableIs
    <3> QED  BY <3>2 DEF w
  <2>9. \A k \in DOMAIN u : k \in DOMAIN t[n] /\ t[n][k] = u[k]
    BY <2>1, <2>3
  <2> QED  BY <2>3, <2>4, <2>8, <2>9 DEF u, q
<1>7. ASSUME NEW n \in S, r[n] \in Screen, n \notin Missing(r, S)
      PROVE  Key(r, n) \in DOMAIN screenNumpy[n]
  BY <1>7 DEF Missing
<1>8. TabledWell(r, S, t)
  BY <1>2, <1>4, <1>5, <1>6, <1>7 DEF TabledWell
<1> QED  BY <1>8 DEF t

(* What step leaves in tables, dictionary and counts. *)
LEMMA PopulateDoes ==
  ASSUME BridgeTypeOK, Tables, NEW r, NEW left, Populate(r, left), Room(r)
  PROVE  \E S \in SUBSET DOMAIN names :
           DOMAIN names \ left \subseteq S /\ TabledWell(r, S, screenNumpy')
<1>1. PICK failed : /\ failed \in IF left = {} THEN {{}} ELSE {{n} : n \in left}
                    /\ screenNumpy' = Tabled(r, (DOMAIN names \ left) \cup failed)
  BY DEF Populate
<1> DEFINE S == ((DOMAIN names \ left) \cup failed) \cap DOMAIN names
<1>2. DOMAIN screenNumpy = DOMAIN names
  BY DEF Tables, TablesAgree
<1>3. Tabled(r, (DOMAIN names \ left) \cup failed) = Tabled(r, S)
  BY <1>2 DEF Tabled, Missing
<1> QED  BY <1>1, <1>3, TabledIsWell

(* step only adds arrays of the sessions' own screens. *)
LEMMA TablesStep ==
  ASSUME BridgeTypeOK, Tables, NEW acts, step(acts)
  PROVE  Tables'
<1>1. CASE UNCHANGED stateVars
  BY <1>1, TablesKept DEF stateVars, infoVars, sessionVars
<1>2. ASSUME NEW r \in BatchResults(acts), NEW left, Populate(r, left), Room(r),
             UNCHANGED <<registered, sessions, names, strings, opened, live>>
      PROVE  Tables'
  <2>1. PICK S \in SUBSET DOMAIN names : TabledWell(r, S, screenNumpy')
    BY <1>2, PopulateDoes
  <2>2. sessions = names /\ (~registered => names = Empty)
    BY DEF Tables, TablesAgree
  <2>3. /\ DOMAIN screenNumpy' = DOMAIN names
        /\ \A m \in DOMAIN names : Owned(names[m], screenNumpy'[m])
    BY <2>1 DEF TabledWell
  <2>4. TablesAgree'
    BY <1>2, <2>2, <2>3 DEF TablesAgree, Owned
  <2> QED  BY <1>2, <2>4 DEF Tables, NothingLeaked, OneName
<1>3. CASE \E kind : Dies(kind)
  BY <1>3, TablesDies
<1> QED  BY <1>1, <1>2, <1>3 DEF step, Refuses, Room

LEMMA TablesNext ==
  ASSUME BridgeTypeOK, Tables, [BridgeNext]_bridgeVars
  PROVE  Tables'
<1>1. CASE UNCHANGED bridgeVars
  BY <1>1, TablesKept DEF bridgeVars, stateVars, infoVars, sessionVars
<1>2. CASE c_init
  BY <1>2 DEF c_init, infoVars, sessionVars, Tables, TablesAgree, NothingLeaked, OneName
<1>3. CASE c_dealloc
  BY <1>3, TablesDealloc
<1>4. ASSUME NEW n \in Name, Call(n)
      PROVE  Tables'
  <2>1. CASE \E sub \in SubscriptionArgs : connect(n, sub)
    BY <2>1, TablesConnect
  <2>2. CASE \E sub \in SubscriptionArgs : update(n, sub)
    BY <2>2, TablesKept DEF update, stateVars, infoVars, sessionVars
  <2>3. CASE close(n)
    BY <2>3, TablesClose
  <2>4. CASE render(n)
    BY <2>4, TablesKept DEF render, infoVars
  <2> QED  BY <1>4, <2>1, <2>2, <2>3, <2>4 DEF Call
<1>5. ASSUME NEW acts \in StepArgs, step(acts)
      PROVE  Tables'
  BY <1>5, TablesStep
<1>6. CASE ProgramStep \/ SessionConnects \/ ResultTaken
  BY <1>6, TablesKept DEF ProgramStep, SessionConnects, ResultTaken, stateVars, infoVars, sessionVars
<1> QED  BY <1>1, <1>2, <1>3, <1>4, <1>5, <1>6 DEF BridgeNext

InDict(a) == \E g \in Generation : a \in Shown(screenPyDict[g])

LEMMA ShownAreArrays ==
  ASSUME BridgeTypeOK, NEW g \in Generation
  PROVE  Shown(screenPyDict[g]) \subseteq Array
BY DEF BridgeTypeOK, Shown, Range

LEMMA ShownEmpty == Shown(Empty) = {}
BY DEF Shown, Empty, Range

(* One dictionary is replaced by one without arrays of the others. *)
LEMMA DictReplaced ==
  ASSUME BridgeTypeOK, DictsApart, NEW g \in Generation, NEW d,
         screenPyDict' = [screenPyDict EXCEPT ![g] = d],
         \A h \in Generation \ {g} : Shown(d) \cap Shown(screenPyDict[h]) = {},
         NEW a
  PROVE  B(InDict(a))' = (B(InDict(a)) - B(a \in Shown(screenPyDict[g]))) + B(a \in Shown(d))
<1> DEFINE other == \E h \in Generation \ {g} : a \in Shown(screenPyDict[h])
<1>1. DOMAIN screenPyDict = Generation
  BY DEF BridgeTypeOK
<1>2. screenPyDict'[g] = d /\ \A h \in Generation \ {g} : screenPyDict'[h] = screenPyDict[h]
  BY <1>1
<1>3. InDict(a)' <=> a \in Shown(d) \/ other
  BY <1>2 DEF InDict
<1>4. InDict(a) <=> a \in Shown(screenPyDict[g]) \/ other
  BY DEF InDict
<1>5. ~(a \in Shown(d) /\ other) /\ ~(a \in Shown(screenPyDict[g]) /\ other)
  BY DEF DictsApart
<1> HIDE DEF other
<1> QED  BY <1>3, <1>4, <1>5 DEF B

LEMMA CountsInit == Nothing => Counts
<1> SUFFICES ASSUME Nothing PROVE Counts
  OBVIOUS
<1>1. \A g \in Generation : Shown(screenPyDict[g]) = {}
  BY ShownEmpty DEF Nothing
<1>2. Arrays(screenNumpy) = {}
  BY DEF Nothing, Arrays, Empty
<1>3. RefCounts
  <2>1. \A g \in Generation : screenPyDict[g] = Empty
    BY DEF Nothing
  <2> QED  BY <1>1, <1>2, <2>1 DEF Nothing, RefCounts, B
<1>4. DictsApart
  BY <1>1 DEF DictsApart
<1>5. Started
  BY DEF Started, Nothing
<1> QED  BY <1>3, <1>4, <1>5 DEF Counts

LEMMA CountsDies ==
  ASSUME NEW kind, Dies(kind)
  PROVE  Counts'
<1>1. (Nothing => Counts)'
  BY CountsInit, PTL
<1> QED  BY <1>1, DiesNothing

countVars == <<screenNumpy, refs, tupleRefs, screenPyDict, heldTuples, heldArrays,
               registered, generation, opened, names>>

LEMMA CountsKept ==
  ASSUME Counts, UNCHANGED countVars
  PROVE  Counts'
BY DEF Counts, RefCounts, DictsApart, Started, countVars

(* The table gives up the arrays in G, one reference each. *)
LEMMA CountsGivenUp ==
  ASSUME RefCounts, BridgeTypeOK, NEW G,
         \A a \in Array : refs'[a] = refs[a] - B(a \in G),
         \A a \in Array : /\ a \in G => a \in Arrays(screenNumpy)
                          /\ a \in Arrays(screenNumpy') <=> a \in Arrays(screenNumpy) /\ a \notin G,
         UNCHANGED <<tupleRefs, screenPyDict, heldTuples, heldArrays, registered, generation>>
  PROVE  RefCounts'
<1>1. ASSUME NEW a \in Array
      PROVE  refs'[a] = B(a \in Arrays(screenNumpy')) + B(InDict(a)) + B(a \in heldArrays)
  <2>1. refs[a] = B(a \in Arrays(screenNumpy)) + B(InDict(a)) + B(a \in heldArrays)
    BY DEF RefCounts, InDict
  <2>2. B(a \in Arrays(screenNumpy')) = B(a \in Arrays(screenNumpy)) - B(a \in G)
    BY DEF B
  <2>3. refs'[a] = refs[a] - B(a \in G)
    OBVIOUS
  <2> QED  BY <2>1, <2>2, <2>3 DEF B
<1> QED  BY <1>1 DEF RefCounts, InDict

LEMMA CountsConnect ==
  ASSUME BridgeInv, NEW n, NEW sub, connect(n, sub)
  PROVE  Counts'
<1> USE DEF BridgeInv, Counts
<1>1. CASE ~registered \/ SubscriptionFails(sub)
  BY <1>1, CountsKept DEF connect, Refuses, stateVars, infoVars, pythonVars, countVars
<1>2. CASE ~(~registered \/ SubscriptionFails(sub))
  <2> DEFINE G == GivenUp(Replaced(n))
  <2>1. /\ opened' = opened + 1 /\ names' = Put(names, n, opened + 1)
        /\ screenNumpy' = FreshTable(n)
        /\ \A a \in Array : refs'[a] = refs[a] - B(a \in G)
        /\ UNCHANGED <<tupleRefs, screenPyDict, heldTuples, heldArrays, registered, generation>>
    BY <1>2 DEF connect
  <2>2. ASSUME NEW a \in Array
        PROVE  /\ a \in G => a \in Arrays(screenNumpy)
               /\ a \in Arrays(screenNumpy') <=> a \in Arrays(screenNumpy) /\ a \notin G
    <3>1. TablesAgree /\ OneName
      BY DEF Tables
    <3>2. a \in G <=> \E m \in DOMAIN names \cap Replaced(n) : a \in Range(screenNumpy[m])
      BY <3>1, ArraysTabled
    <3>3. a \in G <=> n \in DOMAIN names /\ a \in Range(screenNumpy[n])
      BY <3>2 DEF Replaced
    <3>4. /\ a \in Arrays(screenNumpy) <=> \E m \in DOMAIN names : a \in Range(screenNumpy[m])
          /\ \A k, m \in DOMAIN names : a \in Range(screenNumpy[k]) /\ a \in Range(screenNumpy[m]) => k = m
          /\ a \in Arrays(FreshTable(n)) <=>
               \E m \in DOMAIN names \ {n} : a \in Range(screenNumpy[m])
      BY <3>1, ArraysTabled
    <3> HIDE DEF G
    <3> QED  BY <2>1, <3>3, <3>4
  <2>3. RefCounts'
    <3> HIDE DEF G
    <3> QED  BY <2>1, <2>2, CountsGivenUp
  <2>4. DictsApart'
    <3>1. opened \in Nat
      BY BridgeAssumption DEF BridgeTypeOK
    <3>2. Range(names') \subseteq Range(names) \cup {opened + 1}
      BY <2>1 DEF Put, Range
    <3>3. \A g \in Generation : \A a \in Shown(screenPyDict[g]) : a[1] <= opened /\ a[1] \in Int
      BY ShownAreArrays DEF DictsApart, Array, SessionId
    <3>4. \A g \in Generation : \A a \in Shown(screenPyDict[g]) :
            a[1] <= opened' /\ (g # generation => a[1] \notin Range(names'))
      BY <2>1, <3>1, <3>2, <3>3 DEF DictsApart
    <3> QED  BY <2>1, <3>4 DEF DictsApart
  <2>5. Started'
    BY <2>1 DEF Started
  <2> QED  BY <2>3, <2>4, <2>5
<1> QED  BY <1>1, <1>2

LEMMA CountsClose ==
  ASSUME BridgeInv, NEW n, close(n)
  PROVE  Counts'
<1> USE DEF BridgeInv, Counts
<1>1. CASE ~registered
  BY <1>1, CountsKept DEF close, Refuses, stateVars, infoVars, pythonVars, countVars
<1>2. CASE registered
  <2> DEFINE G == GivenUp({n})
  <2>1. /\ opened' = opened /\ names' = Without(names, {n})
        /\ screenNumpy' = Without(screenNumpy, {n})
        /\ \A a \in Array : refs'[a] = refs[a] - B(a \in G)
        /\ UNCHANGED <<tupleRefs, screenPyDict, heldTuples, heldArrays, registered, generation>>
    BY <1>2 DEF close
  <2>2. ASSUME NEW a \in Array
        PROVE  /\ a \in G => a \in Arrays(screenNumpy)
               /\ a \in Arrays(screenNumpy') <=> a \in Arrays(screenNumpy) /\ a \notin G
    <3>1. TablesAgree /\ OneName
      BY DEF Tables
    <3>2. /\ a \in G <=> \E m \in DOMAIN names \cap {n} : a \in Range(screenNumpy[m])
          /\ a \in Arrays(screenNumpy) <=> \E m \in DOMAIN names : a \in Range(screenNumpy[m])
          /\ \A k, m \in DOMAIN names : a \in Range(screenNumpy[k]) /\ a \in Range(screenNumpy[m]) => k = m
          /\ a \in Arrays(Without(screenNumpy, {n})) <=>
               \E m \in DOMAIN names \ {n} : a \in Range(screenNumpy[m])
      BY <3>1, ArraysTabled
    <3> HIDE DEF G
    <3> QED  BY <2>1, <3>2
  <2>3. RefCounts'
    <3> HIDE DEF G
    <3> QED  BY <2>1, <2>2, CountsGivenUp
  <2>4. DictsApart'
    <3>1. Range(names') \subseteq Range(names)
      BY <2>1 DEF Without, Restrict, Range
    <3> QED  BY <2>1, <3>1 DEF DictsApart
  <2>5. Started'
    BY <2>1 DEF Started
  <2> QED  BY <2>3, <2>4, <2>5
<1> QED  BY <1>1, <1>2

(* A reference to the tuple of g is given up. *)
LEMMA TupleGivenUp ==
  ASSUME BridgeTypeOK, DictsApart, NEW g \in Generation, tupleRefs[g] > 0,
         screenPyDict' = DictAfter(g), NEW a
  PROVE  /\ B(InDict(a))' = B(InDict(a)) - B(a \in Dropped(g))
         /\ \A h \in Generation : Shown(screenPyDict'[h]) \subseteq Shown(screenPyDict[h])
         /\ \A h \in Generation : h # g => screenPyDict'[h] = screenPyDict[h]
         /\ tupleRefs[g] = 1 => screenPyDict'[g] = Empty
<1>1. DOMAIN screenPyDict = Generation
  BY DEF BridgeTypeOK
<1>2. CASE tupleRefs[g] = 1
  <2>1. screenPyDict' = [screenPyDict EXCEPT ![g] = Empty] /\ Dropped(g) = Shown(screenPyDict[g])
    BY <1>2 DEF DictAfter, Dropped
  <2>2. \A h \in Generation \ {g} : Shown(Empty) \cap Shown(screenPyDict[h]) = {}
    BY ShownEmpty
  <2>3. B(InDict(a))' = (B(InDict(a)) - B(a \in Shown(screenPyDict[g]))) + B(a \in Shown(Empty))
    BY <2>1, <2>2, DictReplaced
  <2>4. screenPyDict'[g] = Empty /\ \A h \in Generation : h # g => screenPyDict'[h] = screenPyDict[h]
    BY <1>1, <2>1
  <2>5. B(InDict(a))' = B(InDict(a)) - B(a \in Dropped(g))
    BY <2>1, <2>3, ShownEmpty DEF B
  <2> QED  BY <1>2, <2>4, <2>5, ShownEmpty
<1>3. CASE tupleRefs[g] # 1
  <2>1. screenPyDict' = screenPyDict /\ Dropped(g) = {}
    BY <1>3 DEF DictAfter, Dropped
  <2>2. InDict(a)' <=> InDict(a)
    BY <2>1 DEF InDict
  <2> QED  BY <1>3, <2>1, <2>2 DEF B
<1> QED  BY <1>2, <1>3

LEMMA CountsDealloc ==
  ASSUME BridgeInv, c_dealloc
  PROVE  Counts'
<1> USE DEF BridgeInv, Counts
<1>1. CASE ~registered
  BY <1>1, CountsKept DEF c_dealloc, stateVars, infoVars, pythonVars, countVars
<1>2. CASE registered
  <2> DEFINE g == generation
             G == GivenUp(DOMAIN names)
  <2>1. g \in Generation
    BY <1>2 DEF Started
  <2>2. /\ registered' = FALSE /\ generation' = generation /\ opened' = opened
        /\ names' = Empty /\ screenNumpy' = Empty
        /\ tupleRefs' = TupleAfter(g) /\ screenPyDict' = DictAfter(g)
        /\ \A a \in Array :
             refs'[a] = ((refs[a] - B(a \in G)) - B(a \in Dropped(g))) - B(a \in Leftover)
        /\ UNCHANGED <<heldTuples, heldArrays>>
    BY <1>2 DEF c_dealloc
  <2>3. tupleRefs[g] = 1 + heldTuples[g] /\ heldTuples[g] \in Nat /\ tupleRefs[g] \in Nat
    BY <1>2, <2>1 DEF RefCounts, B, BridgeTypeOK
  <2>4. Leftover = {}
    BY DEF Leftover, Without, Restrict, Arrays, Tables, TablesAgree
  <2>5. G = Arrays(screenNumpy)
    <3>1. DOMAIN screenNumpy = DOMAIN names
      BY DEF Tables, TablesAgree
    <3> QED  BY <3>1 DEF GivenUp, Restrict, Arrays
  <2>6. Arrays(screenNumpy') = {}
    BY <2>2 DEF Arrays, Empty
  <2>7. tupleRefs[g] > 0
    BY <2>3
  <2>8. ASSUME NEW a
        PROVE  B(InDict(a))' = B(InDict(a)) - B(a \in Dropped(g))
    <3> HIDE DEF g
    <3> QED  BY <2>1, <2>2, <2>7, TupleGivenUp
  <2>9. /\ \A h \in Generation : Shown(screenPyDict'[h]) \subseteq Shown(screenPyDict[h])
        /\ \A h \in Generation : h # g => screenPyDict'[h] = screenPyDict[h]
        /\ tupleRefs[g] = 1 => screenPyDict'[g] = Empty
    <3> HIDE DEF g
    <3> QED  BY <2>1, <2>2, <2>7, TupleGivenUp
  <2>10. RefCounts'
    <3>1. ASSUME NEW a \in Array
          PROVE  refs'[a] = B(a \in Arrays(screenNumpy')) + B(InDict(a))' + B(a \in heldArrays')
      <4>1. refs[a] = B(a \in Arrays(screenNumpy)) + B(InDict(a)) + B(a \in heldArrays)
        BY DEF RefCounts, InDict
      <4>2. refs'[a] = ((refs[a] - B(a \in Arrays(screenNumpy))) - B(a \in Dropped(g))) - B(a \in {})
        BY <2>2, <2>4, <2>5
      <4>3. B(a \in {}) = 0 /\ B(a \in Arrays(screenNumpy')) = 0
        BY <2>6 DEF B
      <4>4. /\ B(a \in Arrays(screenNumpy)) \in Int /\ B(InDict(a)) \in Int
            /\ B(a \in heldArrays) \in Int /\ B(a \in Dropped(g)) \in Int
        BY DEF B
      <4>5. B(InDict(a))' = B(InDict(a)) - B(a \in Dropped(g)) /\ heldArrays' = heldArrays
        BY <2>2, <2>8
      <4> QED  BY <4>1, <4>2, <4>3, <4>4, <4>5
    <3>2. ASSUME NEW h \in Generation
          PROVE  /\ tupleRefs'[h] = B(registered' /\ h = generation') + heldTuples'[h]
                 /\ tupleRefs'[h] = 0 => screenPyDict'[h] = Empty
      <4>1. /\ tupleRefs[h] = B(registered /\ h = generation) + heldTuples[h]
            /\ tupleRefs[h] = 0 => screenPyDict[h] = Empty
            /\ heldTuples[h] \in Nat
        BY DEF RefCounts, BridgeTypeOK
      <4>2. tupleRefs'[h] = IF h = g THEN tupleRefs[h] - 1 ELSE tupleRefs[h]
        BY <2>1, <2>2 DEF TupleAfter, BridgeTypeOK
      <4>3. CASE h = g
        BY <2>2, <2>3, <2>9, <4>2, <4>3 DEF B
      <4>4. CASE h # g
        BY <2>2, <2>9, <4>1, <4>2, <4>4 DEF B
      <4> QED  BY <4>3, <4>4
    <3> QED  BY <3>1, <3>2 DEF RefCounts, InDict
  <2>11. DictsApart'
    <3>1. Range(names') = {}
      BY <2>2 DEF Empty, Range
    <3> QED  BY <2>2, <2>9, <3>1 DEF DictsApart
  <2>12. Started'
    BY <2>2 DEF Started
  <2> QED  BY <2>10, <2>11, <2>12
<1> QED  BY <1>1, <1>2

LEMMA CountsDropTuple ==
  ASSUME BridgeInv, DropTuple, UNCHANGED <<screenNumpy, registered, generation, opened, names>>
  PROVE  Counts'
<1> USE DEF BridgeInv, Counts
<1>1. PICK g \in Generation :
        /\ heldTuples[g] > 0
        /\ heldTuples' = [heldTuples EXCEPT ![g] = @ - 1]
        /\ tupleRefs' = TupleAfter(g)
        /\ screenPyDict' = DictAfter(g)
        /\ refs' = [a \in Array |-> refs[a] - B(a \in Dropped(g))]
        /\ heldArrays' = heldArrays
  BY DEF DropTuple
<1>2. /\ \A h \in Generation : /\ tupleRefs[h] = B(registered /\ h = generation) + heldTuples[h]
                               /\ heldTuples[h] \in Nat /\ tupleRefs[h] \in Nat
                               /\ tupleRefs[h] = 0 => screenPyDict[h] = Empty
  BY DEF RefCounts, BridgeTypeOK
<1>3. tupleRefs[g] > 0
  BY <1>1, <1>2 DEF B
<1>4. ASSUME NEW a
      PROVE  B(InDict(a))' = B(InDict(a)) - B(a \in Dropped(g))
  BY <1>1, <1>3, TupleGivenUp
<1>5. /\ \A h \in Generation : Shown(screenPyDict'[h]) \subseteq Shown(screenPyDict[h])
      /\ \A h \in Generation : h # g => screenPyDict'[h] = screenPyDict[h]
      /\ tupleRefs[g] = 1 => screenPyDict'[g] = Empty
  BY <1>1, <1>3, TupleGivenUp
<1>6. RefCounts'
  <2>1. ASSUME NEW a \in Array
        PROVE  refs'[a] = B(a \in Arrays(screenNumpy)) + B(InDict(a))' + B(a \in heldArrays)
    <3>1. refs[a] = B(a \in Arrays(screenNumpy)) + B(InDict(a)) + B(a \in heldArrays)
      BY DEF RefCounts, InDict
    <3>2. refs'[a] = refs[a] - B(a \in Dropped(g))
      BY <1>1
    <3>3. /\ B(a \in Arrays(screenNumpy)) \in Int /\ B(InDict(a)) \in Int
          /\ B(a \in heldArrays) \in Int /\ B(a \in Dropped(g)) \in Int
      BY DEF B
    <3> QED  BY <1>4, <3>1, <3>2, <3>3
  <2>2. ASSUME NEW h \in Generation
        PROVE  /\ tupleRefs'[h] = B(registered /\ h = generation) + heldTuples'[h]
               /\ tupleRefs'[h] = 0 => screenPyDict'[h] = Empty
    <3>1. /\ tupleRefs'[h] = IF h = g THEN tupleRefs[h] - 1 ELSE tupleRefs[h]
          /\ heldTuples'[h] = IF h = g THEN heldTuples[h] - 1 ELSE heldTuples[h]
      BY <1>1 DEF TupleAfter, BridgeTypeOK
    <3>2. CASE h = g
      BY <1>2, <1>5, <3>1, <3>2 DEF B
    <3>3. CASE h # g
      BY <1>2, <1>5, <3>1, <3>3 DEF B
    <3> QED  BY <3>2, <3>3
  <2> QED  BY <1>1, <2>1, <2>2 DEF RefCounts, InDict
<1>7. DictsApart'
  BY <1>5 DEF DictsApart
<1>8. Started'
  BY <1>1 DEF Started, BridgeTypeOK
<1> QED  BY <1>6, <1>7, <1>8

LEMMA CountsKeepDrop ==
  ASSUME BridgeInv, KeepArray \/ DropArray,
         UNCHANGED <<screenNumpy, registered, generation, opened, names>>
  PROVE  Counts'
<1> USE DEF BridgeInv, Counts
<1>1. UNCHANGED <<tupleRefs, screenPyDict, heldTuples>>
  BY DEF KeepArray, DropArray
<1>2. ASSUME NEW a \in Array
      PROVE  refs'[a] = B(a \in Arrays(screenNumpy)) + B(InDict(a)) + B(a \in heldArrays')
  <2>1. refs[a] = B(a \in Arrays(screenNumpy)) + B(InDict(a)) + B(a \in heldArrays)
    BY DEF RefCounts, InDict
  <2>2. refs'[a] = refs[a] + (B(a \in heldArrays') - B(a \in heldArrays))
    <3>1. CASE KeepArray
      <4>1. PICK b : /\ b \notin heldArrays /\ heldArrays' = heldArrays \cup {b}
                     /\ refs' = [refs EXCEPT ![b] = @ + 1]
        BY <3>1 DEF KeepArray
      <4>2. refs'[a] = IF a = b THEN refs[a] + 1 ELSE refs[a]
        BY <4>1 DEF BridgeTypeOK
      <4>3. refs[a] \in Int
        BY DEF BridgeTypeOK
      <4> QED  BY <4>1, <4>2, <4>3 DEF B
    <3>2. CASE DropArray
      <4>1. PICK b \in heldArrays : /\ heldArrays' = heldArrays \ {b}
                                    /\ refs' = [refs EXCEPT ![b] = @ - 1]
        BY <3>2 DEF DropArray
      <4>2. refs'[a] = IF a = b THEN refs[a] - 1 ELSE refs[a]
        BY <4>1 DEF BridgeTypeOK
      <4>3. refs[a] \in Int
        BY DEF BridgeTypeOK
      <4> QED  BY <4>1, <4>2, <4>3 DEF B
    <3> QED  BY <3>1, <3>2
  <2>3. /\ B(a \in Arrays(screenNumpy)) \in Int /\ B(InDict(a)) \in Int
        /\ B(a \in heldArrays) \in Int /\ B(a \in heldArrays') \in Int
    BY DEF B
  <2> QED  BY <2>1, <2>2, <2>3
<1>3. RefCounts'
  BY <1>1, <1>2 DEF RefCounts, InDict
<1> QED  BY <1>1, <1>3 DEF DictsApart, Started

(* What a step puts into the dictionary are arrays of the tables, so none  *)
(* of an earlier object's.                                                 *)
LEMMA EntryIs ==
  ASSUME BridgeInv, NEW r, NEW S \in SUBSET DOMAIN names, NEW t, TabledWell(r, S, t),
         NEW n \in S, Entry(t, r, n) # Py_None
  PROVE  /\ r[n] \in Screen /\ Key(r, n) \in DOMAIN t[n]
         /\ Entry(t, r, n) = t[n][Key(r, n)]
         /\ Wraps(Entry(t, r, n)) = <<sessions[n], r[n]>>
         /\ Entry(t, r, n) \in Array /\ Entry(t, r, n)[1] = names[n]
<1>1. r[n] \in Screen /\ Entry(t, r, n) = t[n][Key(r, n)]
  BY DEF Entry
<1>2. Key(r, n) \in DOMAIN t[n] /\ Owned(names[n], t[n]) /\ t[n] \in ScreenTable
  BY <1>1 DEF TabledWell
<1>3. Wraps(t[n][Key(r, n)]) = Key(r, n) /\ Key(r, n)[1] = names[n]
  BY <1>2 DEF Owned
<1>4. t[n][Key(r, n)] \in Array
  <2> DEFINE u == t[n]
  <2>1. u \in ScreenTable /\ Key(r, n) \in DOMAIN u
    BY <1>2
  <2> HIDE DEF u
  <2>2. u[Key(r, n)] \in Array
    BY <2>1, ScreenTableIs
  <2> QED  BY <2>2 DEF u
<1>5. t[n][Key(r, n)][1] = names[n]
  BY <1>3 DEF Wraps
<1> QED  BY <1>1, <1>2, <1>3, <1>4, <1>5 DEF Key

LEMMA EntriesAreTabled ==
  ASSUME BridgeInv, NEW r, NEW S \in SUBSET DOMAIN names, NEW t, TabledWell(r, S, t),
         NEW d, DOMAIN d \subseteq S, \A n \in DOMAIN d : d[n] = Entry(t, r, n),
         NEW a \in Shown(d)
  PROVE  a \in Array /\ a[1] \in Range(names) /\ a[1] <= opened /\ a \in Arrays(t)
<1>1. PICK n \in DOMAIN d : a = Entry(t, r, n) /\ a # Py_None
  BY DEF Shown, Range
<1>2. /\ Key(r, n) \in DOMAIN t[n] /\ a = t[n][Key(r, n)]
      /\ a \in Array /\ a[1] = names[n]
  BY <1>1, EntryIs
<1>3. n \in DOMAIN names /\ names[n] <= opened
  BY DEF BridgeInv, Tables, OneName
<1>4. DOMAIN t = DOMAIN names
  BY DEF TabledWell
<1>5. a \in Range(t[n])
  BY <1>2 DEF Range
<1> QED  BY <1>2, <1>3, <1>4, <1>5 DEF Range, Arrays

LEMMA TableGrows ==
  ASSUME Tables, NEW r, NEW S, NEW t, TabledWell(r, S, t)
  PROVE  Arrays(screenNumpy) \subseteq Arrays(t)
<1> SUFFICES ASSUME NEW a \in Arrays(screenNumpy) PROVE a \in Arrays(t)
  OBVIOUS
<1>1. DOMAIN screenNumpy = DOMAIN names /\ DOMAIN t = DOMAIN names
  BY DEF Tables, TablesAgree, TabledWell
<1>2. PICK n \in DOMAIN names : a \in Range(screenNumpy[n])
  BY <1>1 DEF Arrays
<1>3. PICK k \in DOMAIN screenNumpy[n] : a = screenNumpy[n][k]
  BY <1>2 DEF Range
<1>4. k \in DOMAIN t[n] /\ t[n][k] = a
  BY <1>3 DEF TabledWell
<1>5. a \in Range(t[n])
  BY <1>4 DEF Range
<1> QED  BY <1>1, <1>5 DEF Arrays

LEMMA CountsPopulate ==
  ASSUME BridgeInv, registered, NEW r, NEW left, Populate(r, left), Room(r),
         UNCHANGED <<registered, generation, names, opened, heldArrays>>,
         \/ /\ tupleRefs' = [tupleRefs EXCEPT ![generation] = @ + 1]
            /\ heldTuples' = [heldTuples EXCEPT ![generation] = @ + 1]
         \/ UNCHANGED <<tupleRefs, heldTuples>>
  PROVE  Counts'
<1> USE DEF BridgeInv, Counts
<1> DEFINE g == generation
           done == DOMAIN names \ left
           d == [n \in done |-> Entry(screenNumpy', r, n)]
<1>1. g \in Generation
  BY DEF Started
<1>2. PICK S \in SUBSET DOMAIN names : done \subseteq S /\ TabledWell(r, S, screenNumpy')
  BY PopulateDoes
<1>3. screenPyDict' = [screenPyDict EXCEPT ![g] = d]
  BY DEF Populate
<1>4. \A a \in Array :
        refs'[a] = ((refs[a] - B(a \in Shown(screenPyDict[g])))
                      + B(a \in Arrays(screenNumpy') \ Arrays(screenNumpy)))
                      + B(a \in Shown(d))
  BY DEF Populate, Counted
<1>5. \A a \in Shown(d) : a \in Array /\ a[1] \in Range(names) /\ a[1] <= opened
  <2> SUFFICES ASSUME NEW a \in Shown(d)
               PROVE  a \in Array /\ a[1] \in Range(names) /\ a[1] <= opened
    OBVIOUS
  <2>1. DOMAIN d = done /\ \A n \in DOMAIN d : d[n] = Entry(screenNumpy', r, n)
    OBVIOUS
  <2>2. DOMAIN d \subseteq S
    BY <1>2, <2>1
  <2>3. TabledWell(r, S, screenNumpy') /\ S \in SUBSET DOMAIN names /\ BridgeInv
    BY <1>2 DEF BridgeInv
  <2> HIDE DEF d, done
  <2> QED  BY ONLY <2>1, <2>2, <2>3, a \in Shown(d), EntriesAreTabled
<1>6. \A h \in Generation \ {g} : Shown(d) \cap Shown(screenPyDict[h]) = {}
  <2> HIDE DEF d
  <2> QED  BY <1>5 DEF DictsApart
<1> HIDE DEF d
<1>7. ASSUME NEW a \in Array
      PROVE  refs'[a] = B(a \in Arrays(screenNumpy')) + B(InDict(a))' + B(a \in heldArrays')
  <2>1. refs[a] = B(a \in Arrays(screenNumpy)) + B(InDict(a)) + B(a \in heldArrays)
    BY DEF RefCounts, InDict
  <2>2. B(InDict(a))' = (B(InDict(a)) - B(a \in Shown(screenPyDict[g]))) + B(a \in Shown(d))
    <3> HIDE DEF g
    <3> QED  BY <1>1, <1>3, <1>6, DictReplaced
  <2>3. B(a \in Arrays(screenNumpy')) =
          B(a \in Arrays(screenNumpy))
            + B(a \in Arrays(screenNumpy') \ Arrays(screenNumpy))
    <3>1. Arrays(screenNumpy) \subseteq Arrays(screenNumpy')
      BY <1>2, TableGrows
    <3> QED  BY <3>1 DEF B
  <2>4. /\ B(a \in Arrays(screenNumpy)) \in Int /\ B(InDict(a)) \in Int
        /\ B(a \in heldArrays) \in Int /\ B(a \in Shown(d)) \in Int
        /\ B(a \in Shown(screenPyDict[g])) \in Int
        /\ B(a \in Arrays(screenNumpy') \ Arrays(screenNumpy)) \in Int
    BY DEF B
  <2>5. heldArrays' = heldArrays
    OBVIOUS
  <2>6. refs'[a] = ((refs[a] - B(a \in Shown(screenPyDict[g])))
                      + B(a \in Arrays(screenNumpy') \ Arrays(screenNumpy)))
                      + B(a \in Shown(d))
    BY <1>4
  <2> QED  BY <2>1, <2>2, <2>3, <2>4, <2>5, <2>6
<1>8. ASSUME NEW h \in Generation
      PROVE  /\ tupleRefs'[h] = B(registered' /\ h = generation') + heldTuples'[h]
             /\ tupleRefs'[h] = 0 => screenPyDict'[h] = Empty
  <2>1. /\ tupleRefs[h] = B(registered /\ h = generation) + heldTuples[h]
        /\ heldTuples[h] \in Nat
        /\ tupleRefs[h] = 0 => screenPyDict[h] = Empty
    BY DEF RefCounts, BridgeTypeOK
  <2>2. \/ tupleRefs'[h] = tupleRefs[h] /\ heldTuples'[h] = heldTuples[h]
        \/ h = g /\ tupleRefs'[h] = tupleRefs[h] + 1 /\ heldTuples'[h] = heldTuples[h] + 1
    BY DEF BridgeTypeOK
  <2>3. h # g => screenPyDict'[h] = screenPyDict[h]
    BY <1>3
  <2>4. registered' /\ generation' = g
    OBVIOUS
  <2>5. CASE h = g
    BY <2>1, <2>2, <2>4, <2>5 DEF B
  <2>6. CASE h # g
    BY <2>1, <2>2, <2>3, <2>4, <2>6 DEF B
  <2> QED  BY <2>5, <2>6
<1>9. RefCounts'
  BY <1>7, <1>8 DEF RefCounts, InDict
<1>10. DictsApart'
  <2>1. DOMAIN screenPyDict = Generation
    BY DEF BridgeTypeOK
  <2>2. screenPyDict'[g] = d /\ \A h \in Generation \ {g} : screenPyDict'[h] = screenPyDict[h]
    BY <1>1, <1>3, <2>1
  <2>3. \A h \in Generation : \A a \in Shown(screenPyDict'[h]) :
          a[1] <= opened' /\ (h # generation' => a[1] \notin Range(names'))
    BY <1>5, <2>2 DEF DictsApart
  <2>4. \A h, k \in Generation :
          h # k => Shown(screenPyDict'[h]) \cap Shown(screenPyDict'[k]) = {}
    BY <1>6, <2>2 DEF DictsApart
  <2> QED  BY <2>3, <2>4 DEF DictsApart
<1>11. Started'
  <2>1. \A h \in Generation : h # generation => heldTuples'[h] = heldTuples[h]
    BY DEF BridgeTypeOK
  <2>2. \A h \in Generation : h > generation => h # generation
    BY <1>1 DEF Generation
  <2> QED  BY <1>1, <2>1, <2>2 DEF Started
<1> QED  BY <1>9, <1>10, <1>11

LEMMA CountsStep ==
  ASSUME BridgeInv, NEW acts, step(acts)
  PROVE  Counts'
<1>1. CASE UNCHANGED stateVars
  BY <1>1, CountsKept DEF BridgeInv, stateVars, infoVars, pythonVars, countVars
<1>2. CASE \E kind : Dies(kind)
  BY <1>2, CountsDies
<1>3. CASE ~UNCHANGED stateVars /\ ~\E kind : Dies(kind)
  <2>1. registered /\ UNCHANGED <<registered, generation, names, opened, heldArrays>>
    BY <1>3 DEF step, AllConverted, Refuses
  <2>2. PICK r, left :
          /\ Populate(r, left) /\ Room(r)
          /\ \/ /\ tupleRefs' = [tupleRefs EXCEPT ![generation] = @ + 1]
                /\ heldTuples' = [heldTuples EXCEPT ![generation] = @ + 1]
             \/ UNCHANGED <<tupleRefs, heldTuples>>
    BY <1>3 DEF step, Refuses, Room
  <2> QED  BY <2>1, <2>2, CountsPopulate
<1> QED  BY <1>1, <1>2, <1>3

LEMMA CountsInitCall ==
  ASSUME BridgeInv, c_init
  PROVE  Counts'
<1> USE DEF BridgeInv, Counts
<1>1. /\ ~registered /\ registered' /\ generation' = generation + 1 /\ generation < MaxInits
      /\ tupleRefs' = [tupleRefs EXCEPT ![generation + 1] = 1]
      /\ UNCHANGED <<screenNumpy, refs, screenPyDict, heldTuples, heldArrays, opened, names>>
  BY DEF c_init, infoVars
<1>2. generation \in Nat /\ MaxInits \in Nat /\ generation + 1 \in Generation
  BY <1>1, BridgeAssumption DEF BridgeTypeOK, Generation
<1>3. RefCounts'
  <2>1. ASSUME NEW h \in Generation
        PROVE  /\ tupleRefs'[h] = B(registered' /\ h = generation') + heldTuples'[h]
               /\ tupleRefs'[h] = 0 => screenPyDict'[h] = Empty
    <3>1. /\ tupleRefs[h] = heldTuples[h] /\ heldTuples[h] \in Nat
          /\ tupleRefs[h] = 0 => screenPyDict[h] = Empty
      BY <1>1 DEF RefCounts, BridgeTypeOK, B
    <3>2. tupleRefs'[h] = IF h = generation + 1 THEN 1 ELSE tupleRefs[h]
      BY <1>1 DEF BridgeTypeOK
    <3>3. h = generation + 1 => heldTuples[h] = 0
      BY <1>2 DEF Started
    <3> QED  BY <1>1, <3>1, <3>2, <3>3 DEF B
  <2> QED  BY <1>1, <2>1 DEF RefCounts
<1>4. DictsApart'
  <2>1. Range(names) = {}
    BY <1>1 DEF Tables, TablesAgree, Empty, Range
  <2> QED  BY <1>1, <2>1 DEF DictsApart
<1>5. Started'
  BY <1>1, <1>2 DEF Started, Generation
<1> QED  BY <1>3, <1>4, <1>5

LEMMA CountsNext ==
  ASSUME BridgeInv, [BridgeNext]_bridgeVars
  PROVE  Counts'
<1>1. CASE UNCHANGED countVars
  BY <1>1, CountsKept DEF BridgeInv
<1>2. CASE c_init
  BY <1>2, CountsInitCall
<1>3. CASE c_dealloc
  BY <1>3, CountsDealloc
<1>4. ASSUME NEW n \in Name, Call(n)
      PROVE  Counts'
  <2>1. CASE \E sub \in SubscriptionArgs : connect(n, sub)
    BY <2>1, CountsConnect
  <2>2. CASE \E sub \in SubscriptionArgs : update(n, sub)
    BY <2>2, <1>1 DEF update, stateVars, infoVars, pythonVars, countVars
  <2>3. CASE close(n)
    BY <2>3, CountsClose
  <2>4. CASE render(n)
    BY <2>4, <1>1 DEF render, infoVars, pythonVars, countVars
  <2> QED  BY <1>4, <2>1, <2>2, <2>3, <2>4 DEF Call
<1>5. ASSUME NEW acts \in StepArgs, step(acts)
      PROVE  Counts'
  BY <1>5, CountsStep
<1>6. CASE ProgramStep
  <2>1. UNCHANGED <<screenNumpy, registered, generation, opened, names>>
    BY <1>6 DEF ProgramStep, infoVars
  <2> QED  BY <1>6, <2>1, CountsKeepDrop, CountsDropTuple DEF ProgramStep
<1>7. CASE SessionConnects \/ ResultTaken
  BY <1>1, <1>7 DEF SessionConnects, ResultTaken, stateVars, infoVars, pythonVars, countVars
<1>8. CASE UNCHANGED bridgeVars
  BY <1>1, <1>8 DEF bridgeVars, stateVars, infoVars, pythonVars, countVars
<1> QED  BY <1>2, <1>3, <1>4, <1>5, <1>6, <1>7, <1>8 DEF BridgeNext

(* Every action leaves values of their kinds, but for the reference counts, *)
(* whose kind follows from what they count.                                 *)
CountsTyped ==
  /\ refs \in [Array -> Int] /\ tupleRefs \in [Generation -> Int]
  /\ heldTuples \in [Generation -> Nat] /\ heldArrays \subseteq Array
  /\ DOMAIN screenPyDict = Generation
  /\ \A g \in Generation :
       screenPyDict[g] \in [DOMAIN screenPyDict[g] -> Array \cup {Py_None}]

TablesTyped ==
  /\ registered \in BOOLEAN /\ generation \in 0..MaxInits /\ opened \in 0..MaxOpens
  /\ sessions \in [DOMAIN sessions -> SessionId] /\ DOMAIN sessions \subseteq Name
  /\ names \in [DOMAIN names -> SessionId] /\ DOMAIN names \subseteq Name
  /\ screenNumpy \in [DOMAIN screenNumpy -> ScreenTable]
  /\ DOMAIN screenNumpy \subseteq Name
  /\ rendererSet \in BOOLEAN /\ crashed \in BOOLEAN
  /\ live \subseteq SessionId /\ strings \subseteq SessionId
  /\ connected \subseteq SessionId /\ renderer \subseteq SessionId
  /\ front \in [SessionId -> Screen]

LEMMA TypeFromCounts ==
  ASSUME TablesTyped, CountsTyped, RefCounts
  PROVE  BridgeTypeOK
<1>1. \A a \in Array : refs[a] \in Nat
  BY DEF RefCounts, B
<1>2. \A g \in Generation : tupleRefs[g] \in Nat
  BY DEF CountsTyped, RefCounts, B
<1> QED  BY <1>1, <1>2 DEF TablesTyped, CountsTyped, BridgeTypeOK

LEMMA WithoutTyped ==
  ASSUME NEW T, NEW f, f \in [DOMAIN f -> T], NEW S
  PROVE  /\ Without(f, S) \in [DOMAIN Without(f, S) -> T]
         /\ DOMAIN Without(f, S) \subseteq DOMAIN f
BY DEF Without, Restrict

LEMMA EmptyTyped ==
  /\ Empty \in ScreenTable /\ DOMAIN Empty = {}
  /\ \A T : Empty \in [DOMAIN Empty -> T]
<1>1. DOMAIN Empty = {} /\ Empty \in [DOMAIN Empty -> Array]
  BY DEF Empty
<1>2. Empty \in ScreenTable
  BY <1>1, ScreenTableIs
<1> QED  BY <1>1, <1>2 DEF Empty

LEMMA NothingTyped ==
  ASSUME Nothing, crashed \in BOOLEAN
  PROVE  TablesTyped /\ CountsTyped
<1>1. 0 \in 0..MaxInits /\ 0 \in 0..MaxOpens
  BY BridgeAssumption
<1>2. front \in [SessionId -> Screen]
  BY DEF Nothing, Screen
<1>3. TablesTyped
  BY <1>1, <1>2, EmptyTyped DEF Nothing, TablesTyped
<1>4. CountsTyped
  <2>1. /\ refs \in [Array -> Int] /\ tupleRefs \in [Generation -> Int]
        /\ heldTuples \in [Generation -> Nat]
    BY DEF Nothing
  <2> QED  BY <2>1, EmptyTyped DEF Nothing, CountsTyped
<1> QED  BY <1>3, <1>4

LEMMA DiesTyped ==
  ASSUME NEW kind, Dies(kind)
  PROVE  TablesTyped' /\ CountsTyped'
<1>1. (Nothing /\ crashed \in BOOLEAN => TablesTyped /\ CountsTyped)'
  BY NothingTyped, PTL
<1>2. crashed' \in BOOLEAN
  BY DEF Dies
<1> QED  BY <1>1, <1>2, DiesNothing

LEMMA TablesTypedNext ==
  ASSUME BridgeInv, BridgeNext
  PROVE  TablesTyped'
<1> BridgeTypeOK
  BY DEF BridgeInv
<1>0. \A closed, new : Close(closed, new) => front' \in [SessionId -> Screen]
  BY DEF Close, Screen, BridgeTypeOK
<1> USE DEF BridgeTypeOK
<1>1. CASE c_init
  <2>1. generation' \in 0..MaxInits
    BY <1>1, BridgeAssumption DEF c_init
  <2> QED  BY <1>1, <2>1 DEF c_init, TablesTyped, infoVars, sessionVars
<1>2. CASE c_dealloc
  <2>1. \A T : Empty \in [DOMAIN Empty -> T] /\ DOMAIN Empty = {}
    BY EmptyTyped
  <2>2. CASE registered
    <3>1. /\ registered' = FALSE /\ sessions' = Empty /\ names' = Empty /\ screenNumpy' = Empty
          /\ live' \subseteq live /\ strings' \subseteq strings
          /\ connected' \subseteq connected /\ renderer' \subseteq renderer
          /\ front' \in [SessionId -> Screen]
          /\ UNCHANGED <<generation, opened, rendererSet, crashed>>
      BY <1>0, <1>2, <2>2 DEF c_dealloc, Close
    <3> QED  BY <2>1, <3>1 DEF TablesTyped
  <2>3. CASE ~registered
    BY <1>2, <2>3 DEF c_dealloc, TablesTyped, stateVars, infoVars, sessionVars
  <2> QED  BY <2>2, <2>3
<1>3. ASSUME NEW n \in Name, NEW sub, connect(n, sub)
      PROVE  TablesTyped'
  <2>1. CASE ~registered \/ SubscriptionFails(sub)
    BY <1>3, <2>1 DEF connect, Refuses, TablesTyped, stateVars, infoVars, sessionVars
  <2>2. CASE ~(~registered \/ SubscriptionFails(sub))
    <3> DEFINE s == opened + 1
    <3>1. /\ opened < MaxOpens /\ opened' = s
          /\ sessions' = Put(sessions, n, s) /\ names' = Put(names, n, s)
          /\ screenNumpy' = Put(screenNumpy, n, Empty)
          /\ live' \subseteq live \cup {s} /\ strings' \subseteq strings \cup {s}
          /\ connected' \subseteq connected /\ renderer' \subseteq renderer
          /\ front' \in [SessionId -> Screen]
          /\ UNCHANGED <<registered, generation, rendererSet, crashed>>
      BY <1>0, <1>3, <2>2 DEF connect, Refuses, Close, FreshTable
    <3>2. s \in SessionId /\ s \in 0..MaxOpens
      BY <3>1, BridgeAssumption DEF SessionId
    <3> HIDE DEF s
    <3>3. /\ sessions' \in [DOMAIN sessions' -> SessionId]
          /\ DOMAIN sessions' = DOMAIN sessions \cup {n}
      <4>1. /\ Put(sessions, n, s) \in [DOMAIN Put(sessions, n, s) -> SessionId]
            /\ DOMAIN Put(sessions, n, s) = DOMAIN sessions \cup {n}
        <5>1. sessions \in [DOMAIN sessions -> SessionId]
          OBVIOUS
        <5> QED  BY <3>2, <5>1 DEF Put
      <4> QED  BY <3>1, <4>1
    <3>4. /\ names' \in [DOMAIN names' -> SessionId]
          /\ DOMAIN names' = DOMAIN names \cup {n}
      <4>1. /\ Put(names, n, s) \in [DOMAIN Put(names, n, s) -> SessionId]
            /\ DOMAIN Put(names, n, s) = DOMAIN names \cup {n}
        <5>1. names \in [DOMAIN names -> SessionId]
          OBVIOUS
        <5> QED  BY <3>2, <5>1 DEF Put
      <4> QED  BY <3>1, <4>1
    <3>5. /\ screenNumpy' \in [DOMAIN screenNumpy' -> ScreenTable]
          /\ DOMAIN screenNumpy' = DOMAIN screenNumpy \cup {n}
      <4>1. Empty \in ScreenTable /\ screenNumpy \in [DOMAIN screenNumpy -> ScreenTable]
        BY EmptyTyped
      <4>2. /\ Put(screenNumpy, n, Empty) \in [DOMAIN Put(screenNumpy, n, Empty) -> ScreenTable]
            /\ DOMAIN Put(screenNumpy, n, Empty) = DOMAIN screenNumpy \cup {n}
        BY <4>1 DEF Put
      <4> QED  BY <3>1, <4>2
    <3> QED  BY <3>1, <3>2, <3>3, <3>4, <3>5 DEF TablesTyped
  <2> QED  BY <2>1, <2>2
<1>4. ASSUME NEW n \in Name, close(n)
      PROVE  TablesTyped'
  <2>1. CASE ~registered
    BY <1>4, <2>1 DEF close, Refuses, TablesTyped, stateVars, infoVars, sessionVars
  <2>2. CASE registered
    <3>1. /\ sessions' = Without(sessions, {n}) /\ names' = Without(names, {n})
          /\ screenNumpy' = Without(screenNumpy, {n})
          /\ live' \subseteq live /\ strings' \subseteq strings
          /\ connected' \subseteq connected /\ renderer' \subseteq renderer
          /\ front' \in [SessionId -> Screen]
          /\ UNCHANGED <<registered, generation, opened, rendererSet, crashed>>
      BY <1>0, <1>4, <2>2 DEF close, Close
    <3>2. /\ sessions' \in [DOMAIN sessions' -> SessionId]
          /\ DOMAIN sessions' \subseteq DOMAIN sessions
      BY <3>1, WithoutTyped
    <3>3. /\ names' \in [DOMAIN names' -> SessionId] /\ DOMAIN names' \subseteq DOMAIN names
      BY <3>1, WithoutTyped
    <3>4. /\ screenNumpy' \in [DOMAIN screenNumpy' -> ScreenTable]
          /\ DOMAIN screenNumpy' \subseteq DOMAIN screenNumpy
      BY <3>1, WithoutTyped
    <3> QED  BY <3>1, <3>2, <3>3, <3>4 DEF TablesTyped
  <2> QED  BY <2>1, <2>2
<1>5. ASSUME NEW n \in Name, NEW sub, update(n, sub)
      PROVE  TablesTyped'
  BY <1>5 DEF update, TablesTyped, stateVars, infoVars, sessionVars
<1>6. ASSUME NEW n \in Name, render(n)
      PROVE  TablesTyped'
  <2>1. rendererSet' \in BOOLEAN /\ renderer' \subseteq SessionId
    <3>1. n \in DOMAIN sessions => sessions[n] \in SessionId
      OBVIOUS
    <3>2. \/ rendererSet' = rendererSet /\ renderer' = renderer
          \/ /\ rendererSet' = TRUE
             /\ \/ renderer' = renderer
                \/ n \in DOMAIN sessions /\ renderer' = renderer \cup {sessions[n]}
      BY <1>6 DEF render, FirstRender
    <3> QED  BY <3>1, <3>2
  <2> QED  BY <1>6, <2>1 DEF render, TablesTyped, infoVars
<1>7. ASSUME NEW acts, step(acts)
      PROVE  TablesTyped'
  <2>1. CASE UNCHANGED stateVars
    BY <2>1 DEF TablesTyped, stateVars, infoVars, sessionVars
  <2>2. CASE \E kind : Dies(kind)
    BY <2>2, DiesTyped
  <2>3. CASE ~UNCHANGED stateVars /\ ~\E kind : Dies(kind)
    <3>1. PICK r, left :
            r \in BatchResults(acts) /\ Populate(r, left) /\ Room(r) /\ front' = Flipped(r)
      BY <1>7, <2>3 DEF step, Refuses, Room
    <3>2. PICK S \in SUBSET DOMAIN names : TabledWell(r, S, screenNumpy')
      BY <3>1, PopulateDoes DEF BridgeInv
    <3>3. UNCHANGED <<registered, generation, sessions, names, strings, rendererSet, opened,
                      live, connected, renderer, crashed>>
      BY <1>7, <2>3 DEF step, Refuses
    <3>4. DOMAIN screenNumpy' = DOMAIN names
      BY <3>2 DEF TabledWell
    <3>5. screenNumpy' \in [DOMAIN names -> ScreenTable]
      <4>1. PICK done : screenNumpy' = Tabled(r, done)
        BY <3>1 DEF Populate
      <4>2. \A n \in DOMAIN names : screenNumpy'[n] \in ScreenTable
        BY <3>2 DEF TabledWell
      <4>3. screenNumpy' = [n \in DOMAIN screenNumpy' |-> screenNumpy'[n]]
        BY <4>1 DEF Tabled
      <4> QED  BY <3>4, <4>2, <4>3
    <3>6. front' \in [SessionId -> Screen]
      <4>1. ASSUME NEW s \in SessionId
            PROVE  Flipped(r)[s] \in Screen
        BY <4>1 DEF Flipped
      <4> QED  BY <3>1, <4>1 DEF Flipped
    <3> QED  BY <3>3, <3>4, <3>5, <3>6 DEF TablesTyped
  <2> QED  BY <2>1, <2>2, <2>3
<1>8. CASE ProgramStep \/ ResultTaken
  BY <1>8 DEF ProgramStep, ResultTaken, TablesTyped, stateVars, infoVars, sessionVars
<1>9. CASE SessionConnects
  BY <1>9 DEF SessionConnects, TablesTyped, infoVars
<1> QED  BY <1>1, <1>2, <1>3, <1>4, <1>5, <1>6, <1>7, <1>8, <1>9 DEF BridgeNext, Call

LEMMA CountsTypedNext ==
  ASSUME BridgeInv, BridgeNext
  PROVE  CountsTyped'
<1> BridgeTypeOK
  BY DEF BridgeInv
<1>a. ASSUME NEW S, NEW f, f \in [S -> Nat], NEW x
      PROVE  /\ [f EXCEPT ![x] = @ - 1] \in [S -> Int]
             /\ [f EXCEPT ![x] = @ + 1] \in [S -> Int]
             /\ [f EXCEPT ![x] = 1] \in [S -> Int]
  <2>1. \A y \in S : f[y] \in Int
    BY <1>a
  <2>2. ASSUME NEW v, x \in S => v \in Int
        PROVE  [f EXCEPT ![x] = v] \in [S -> Int]
    BY <1>a, <2>1, <2>2
  <2>3. x \in S => f[x] - 1 \in Int /\ f[x] + 1 \in Int
    BY <2>1
  <2>4. [f EXCEPT ![x] = f[x] - 1] \in [S -> Int]
    BY <2>2, <2>3
  <2>5. [f EXCEPT ![x] = f[x] + 1] \in [S -> Int]
    BY <2>2, <2>3
  <2>6. [f EXCEPT ![x] = 1] \in [S -> Int]
    BY <2>2
  <2> QED  BY <2>4, <2>5, <2>6
<1>0. /\ refs \in [Array -> Nat] /\ heldArrays \subseteq Array
      /\ tupleRefs \in [Generation -> Nat] /\ heldTuples \in [Generation -> Nat]
      /\ DOMAIN screenPyDict = Generation
      /\ \A g \in Generation :
           screenPyDict[g] \in [DOMAIN screenPyDict[g] -> Array \cup {Py_None}]
      /\ CountsTyped
  BY DEF BridgeTypeOK, CountsTyped
<1>1. \A p : B(p) \in Int
  BY DEF B
<1>2. ASSUME NEW g \in Generation, screenPyDict' = DictAfter(g)
      PROVE  /\ DOMAIN screenPyDict' = Generation
             /\ \A h \in Generation :
                  screenPyDict'[h] \in [DOMAIN screenPyDict'[h] -> Array \cup {Py_None}]
  <2>1. Empty \in [DOMAIN Empty -> Array \cup {Py_None}]
    BY DEF Empty
  <2>2. screenPyDict' = screenPyDict \/ screenPyDict' = [screenPyDict EXCEPT ![g] = Empty]
    BY <1>2 DEF DictAfter
  <2> QED  BY <1>0, <2>1, <2>2
<1>3. CASE UNCHANGED <<refs, tupleRefs, heldTuples, heldArrays, screenPyDict>>
  BY <1>0, <1>3 DEF CountsTyped
<1>4. CASE c_init
  <2>1. /\ tupleRefs' = [tupleRefs EXCEPT ![generation + 1] = 1]
        /\ UNCHANGED <<refs, screenPyDict, heldTuples, heldArrays>>
    BY <1>4 DEF c_init
  <2>2. tupleRefs' \in [Generation -> Int]
    BY <1>0, <1>a, <2>1
  <2> QED  BY <1>0, <2>1, <2>2 DEF CountsTyped
<1>5. CASE c_dealloc
  <2>1. CASE registered
    <3>1. generation \in Generation
      BY <2>1 DEF BridgeInv, Counts, Started
    <3>2. /\ tupleRefs' = TupleAfter(generation) /\ screenPyDict' = DictAfter(generation)
          /\ UNCHANGED <<heldTuples, heldArrays>>
      BY <1>5, <2>1 DEF c_dealloc
    <3>3. tupleRefs' \in [Generation -> Int]
      BY <1>0, <1>a, <3>2 DEF TupleAfter
    <3>4. refs' \in [Array -> Int]
      <4>1. refs' = [a \in Array |-> ((refs[a]
                      - B(a \in GivenUp(DOMAIN names)))
                      - B(a \in Dropped(generation))) - B(a \in Leftover)]
        BY <1>5, <2>1 DEF c_dealloc
      <4> QED  BY <1>0, <1>1, <4>1
    <3> QED  BY <1>0, <1>2, <3>1, <3>2, <3>3, <3>4 DEF CountsTyped
  <2>2. CASE ~registered
    BY <1>3, <1>5, <2>2 DEF c_dealloc, stateVars, pythonVars
  <2> QED  BY <2>1, <2>2
<1>6. ASSUME NEW n \in Name, Call(n)
      PROVE  CountsTyped'
  <2>1. UNCHANGED <<tupleRefs, screenPyDict, heldTuples, heldArrays>>
    BY <1>6 DEF Call, connect, update, close, render, Refuses, stateVars, pythonVars
  <2>2. CASE UNCHANGED refs
    BY <1>3, <2>1, <2>2
  <2>3. ASSUME NEW G, refs' = [a \in Array |-> refs[a] - B(a \in G)]
        PROVE  refs' \in [Array -> Int]
    BY <1>0, <1>1, <2>3
  <2>4. CASE \E G : refs' = [a \in Array |-> refs[a] - B(a \in G)]
    BY <1>0, <2>1, <2>3, <2>4 DEF CountsTyped
  <2> QED  BY <1>6, <2>2, <2>4 DEF Call, connect, update, close, render, Refuses, stateVars,
                 pythonVars
<1>7. ASSUME NEW acts, step(acts)
      PROVE  CountsTyped'
  <2>0. CASE \E kind : Dies(kind)
    BY <2>0, DiesTyped
  <2>1. CASE /\ ~UNCHANGED <<refs, tupleRefs, heldTuples, heldArrays, screenPyDict>>
             /\ ~\E kind : Dies(kind)
    <3>1. PICK r, left :
            /\ Populate(r, left) /\ Room(r) /\ heldArrays' = heldArrays
            /\ \/ /\ tupleRefs' = [tupleRefs EXCEPT ![generation] = @ + 1]
                  /\ heldTuples' = [heldTuples EXCEPT ![generation] = @ + 1]
               \/ UNCHANGED <<tupleRefs, heldTuples>>
      BY <1>7, <2>1 DEF step, Refuses, Room, stateVars, pythonVars
    <3> DEFINE d == [n \in DOMAIN names \ left |-> Entry(screenNumpy', r, n)]
    <3>2. tupleRefs' \in [Generation -> Int] /\ heldTuples' \in [Generation -> Nat]
      BY <1>0, <3>1
    <3>3. d \in [DOMAIN d -> Array \cup {Py_None}]
      <4>1. PICK S \in SUBSET DOMAIN names :
              DOMAIN names \ left \subseteq S /\ TabledWell(r, S, screenNumpy')
        BY <3>1, PopulateDoes DEF BridgeInv
      <4>2. \A n \in DOMAIN names \ left : Entry(screenNumpy', r, n) \in Array \cup {Py_None}
        BY <4>1, EntryIs
      <4> QED  BY <4>2
    <3>4. screenPyDict' = [screenPyDict EXCEPT ![generation] = d]
      BY <3>1 DEF Populate
    <3>5. /\ DOMAIN screenPyDict' = Generation
          /\ \A g \in Generation :
               screenPyDict'[g] \in [DOMAIN screenPyDict'[g] -> Array \cup {Py_None}]
      <4> HIDE DEF d
      <4> QED  BY <1>0, <3>3, <3>4
    <3>6. refs' \in [Array -> Int]
      <4>1. refs' = [a \in Array |-> ((refs[a] - B(a \in Shown(screenPyDict[generation])))
                       + B(a \in Arrays(screenNumpy') \ Arrays(screenNumpy)))
                       + B(a \in Shown(d))]
        BY <3>1 DEF Populate, Counted
      <4> HIDE DEF d
      <4> QED  BY <1>0, <1>1, <4>1
    <3> QED  BY <1>0, <3>1, <3>2, <3>5, <3>6 DEF CountsTyped
  <2> QED  BY <1>3, <2>0, <2>1
<1>8. CASE ProgramStep
  <2>1. CASE KeepArray
    <3>1. PICK g, a :
            /\ g \in Generation /\ a \in Shown(screenPyDict[g])
            /\ heldArrays' = heldArrays \cup {a}
            /\ refs' = [refs EXCEPT ![a] = @ + 1]
      BY <2>1 DEF KeepArray
    <3>2. a \in Array
      BY <3>1, ShownAreArrays
    <3>3. refs' \in [Array -> Int]
      BY <1>0, <1>a, <3>1
    <3> QED  BY <1>0, <2>1, <3>1, <3>2, <3>3 DEF CountsTyped, KeepArray
  <2>2. CASE DropArray
    <3>1. PICK a \in heldArrays : /\ heldArrays' = heldArrays \ {a}
                                  /\ refs' = [refs EXCEPT ![a] = @ - 1]
      BY <2>2 DEF DropArray
    <3>2. refs' \in [Array -> Int]
      BY <1>0, <3>1
    <3> QED  BY <1>0, <2>2, <3>1, <3>2 DEF CountsTyped, DropArray
  <2>3. CASE DropTuple
    <3>1. PICK g \in Generation :
            /\ heldTuples[g] > 0
            /\ heldTuples' = [heldTuples EXCEPT ![g] = @ - 1]
            /\ tupleRefs' = TupleAfter(g)
            /\ screenPyDict' = DictAfter(g)
            /\ refs' = [a \in Array |-> refs[a] - B(a \in Dropped(g))]
            /\ heldArrays' = heldArrays
      BY <2>3 DEF DropTuple
    <3>2. refs' \in [Array -> Int]
      BY <1>0, <1>1, <3>1
    <3>3. tupleRefs' \in [Generation -> Int] /\ heldTuples' \in [Generation -> Nat]
      BY <1>0, <3>1 DEF TupleAfter
    <3> QED  BY <1>0, <1>2, <3>1, <3>2, <3>3 DEF CountsTyped
  <2> QED  BY <1>8, <2>1, <2>2, <2>3 DEF ProgramStep
<1>9. CASE SessionConnects \/ ResultTaken
  BY <1>3, <1>9 DEF SessionConnects, ResultTaken, stateVars, pythonVars
<1> QED  BY <1>4, <1>5, <1>6, <1>7, <1>8, <1>9 DEF BridgeNext

LEMMA BridgeInvInit == BridgeInit => BridgeInv
<1> SUFFICES ASSUME BridgeInit PROVE BridgeInv
  OBVIOUS
<1>1. Nothing /\ crashed \in BOOLEAN
  BY DEF BridgeInit
<1>2. Tables /\ Counts
  BY <1>1, TablesInit, CountsInit
<1>3. BridgeTypeOK
  BY <1>1, <1>2, NothingTyped, TypeFromCounts DEF Counts
<1> QED  BY <1>2, <1>3 DEF BridgeInv

LEMMA BridgeInvNext == BridgeInv /\ [BridgeNext]_bridgeVars => BridgeInv'
<1> SUFFICES ASSUME BridgeInv, [BridgeNext]_bridgeVars PROVE BridgeInv'
  OBVIOUS
<1>1. Tables'
  BY TablesNext DEF BridgeInv
<1>2. Counts'
  BY CountsNext
<1>3. BridgeTypeOK'
  <2>1. CASE UNCHANGED bridgeVars
    BY <2>1 DEF BridgeInv, BridgeTypeOK, bridgeVars, stateVars, infoVars, sessionVars,
                pythonVars
  <2>2. CASE BridgeNext
    <3>1. TablesTyped' /\ CountsTyped' /\ RefCounts'
      BY <1>2, <2>2, TablesTypedNext, CountsTypedNext DEF Counts
    <3>2. (TablesTyped /\ CountsTyped /\ RefCounts => BridgeTypeOK)'
      BY TypeFromCounts, PTL
    <3> QED  BY <3>1, <3>2
  <2> QED  BY <2>1, <2>2
<1> QED  BY <1>1, <1>2, <1>3 DEF BridgeInv

(* Every state is typed; no reference count ever falls below zero, however *)
(* often names are opened again, and drivers freed, with arrays still in   *)
(* the hands of the program (main.go, sessionInfo and populateScreenPyDict). *)
THEOREM BridgeTypeCorrect == BridgeSpec => []BridgeTypeOK
<1>1. BridgeInv => BridgeTypeOK
  BY DEF BridgeInv
<1> QED  BY <1>1, BridgeInvInit, BridgeInvNext, PTL DEF BridgeSpec

(* The three tables of main.go stay in step through every connect, close   *)
(* and step, and hold only arrays of the screens of the sessions they name. *)
THEOREM TablesCorrect == BridgeSpec => []TablesAgree
<1>1. BridgeInv => TablesAgree
  BY DEF BridgeInv, Tables
<1> QED  BY <1>1, BridgeInvInit, BridgeInvNext, PTL DEF BridgeSpec

(* Exactly the sessions and C strings in the tables are open or allocated: *)
(* connect under an old name, close and c_dealloc give up all the others.  *)
THEOREM NoLeaks == BridgeSpec => []NothingLeaked
<1>1. BridgeInv => NothingLeaked
  BY DEF BridgeInv, Tables
<1> QED  BY <1>1, BridgeInvInit, BridgeInvNext, PTL DEF BridgeSpec

(* The reference counts of arrays and tuples are those of the references   *)
(* there are, through failed steps and freed drivers.                      *)
THEOREM RefCountsExact == BridgeSpec => []RefCounts
<1>1. BridgeInv => RefCounts
  BY DEF BridgeInv, Counts
<1> QED  BY <1>1, BridgeInvInit, BridgeInvNext, PTL DEF BridgeSpec

RendererInv == OneRenderer /\ (renderer # {} => rendererSet)

LEMMA RendererNext ==
  ASSUME BridgeInv, RendererInv, [BridgeNext]_bridgeVars
  PROVE  RendererInv'
<1> USE DEF RendererInv, OneRenderer
<1>1. CASE UNCHANGED <<live, renderer, rendererSet>>
  BY <1>1
<1>2. CASE c_init
  <2>1. live = {}
    BY <1>2 DEF c_init, BridgeInv, Tables, TablesAgree, NothingLeaked, Empty, Range
  <2> QED  BY <1>2, <2>1 DEF c_init, sessionVars
<1>3. ASSUME NEW closed, NEW new, Close(closed, new), rendererSet' = rendererSet
      PROVE  RendererInv'
  BY <1>3 DEF Close
<1>4. CASE c_dealloc
  BY <1>1, <1>3, <1>4 DEF c_dealloc, stateVars, sessionVars
<1>5. ASSUME NEW n \in Name, Call(n)
      PROVE  RendererInv'
  <2>1. CASE render(n)
    <3>1. live' = live /\ live = Range(sessions)
      BY <2>1 DEF render, BridgeInv, Tables, NothingLeaked
    <3>2. CASE ~registered \/ ~FirstRender(n)
      BY <2>1, <3>1, <3>2 DEF render
    <3>3. CASE registered /\ FirstRender(n)
      <4>1. renderer = {} /\ sessions[n] \in live
        BY <3>1, <3>3 DEF FirstRender, Range
      <4> QED  BY <2>1, <3>1, <3>3, <4>1 DEF render
    <3> QED  BY <3>2, <3>3
  <2>2. CASE close(n) \/ \E sub \in SubscriptionArgs : connect(n, sub) \/ update(n, sub)
    BY <1>1, <1>3, <2>2 DEF close, connect, update, Refuses, stateVars, sessionVars
  <2> QED  BY <1>5, <2>1, <2>2 DEF Call
<1>6. ASSUME NEW acts, step(acts)
      PROVE  RendererInv'
  BY <1>1, <1>6 DEF step, Refuses, Dies, stateVars, sessionVars
<1>7. CASE ProgramStep \/ SessionConnects \/ ResultTaken
  BY <1>1, <1>7 DEF ProgramStep, SessionConnects, ResultTaken, stateVars, sessionVars
<1>8. CASE UNCHANGED bridgeVars
  BY <1>1, <1>8 DEF bridgeVars, stateVars, sessionVars
<1> QED  BY <1>2, <1>4, <1>5, <1>6, <1>7, <1>8 DEF BridgeNext

(* At most one open session has a renderer, through reconnections under the *)
(* name first rendered and objects made anew (rendererSet of sessionInfo).  *)
THEOREM RendererUnique == BridgeSpec => []OneRenderer
<1>1. BridgeInit => RendererInv
  BY DEF BridgeInit, Nothing, RendererInv, OneRenderer
<1>2. BridgeInv /\ RendererInv /\ [BridgeNext]_bridgeVars => RendererInv'
  BY RendererNext
<1>3. RendererInv => OneRenderer
  BY DEF RendererInv
<1> QED  BY <1>1, <1>2, <1>3, BridgeInvInit, BridgeInvNext, PTL DEF BridgeSpec

-----------------------------------------------------------------------------
(* Results.  Arrays of open sessions are all in the table: those that a    *)
(* program holds are of sessions opened so far, so a name opened again     *)
(* cannot meet them (HeldKnown).                                           *)

InTable(a, ns, t) ==
  \E n \in DOMAIN ns : ns[n] = a[1] /\ Wraps(a) \in DOMAIN t[n] /\ t[n][Wraps(a)] = a

EntryShows(n, a, ss, f) ==
  n \in DOMAIN ss /\ Wraps(a) = <<ss[n], f[ss[n]]>>

HeldKnown == \A a \in heldArrays : a[1] <= opened
OneEach ==
  \A a \in Array : refs[a] > 0 /\ a[1] \in live => InTable(a, names, screenNumpy)
EntriesFront ==
  \A g \in Generation : \A n \in DOMAIN screenPyDict[g] :
    screenPyDict[g][n] # Py_None /\ screenPyDict[g][n][1] \in live =>
      EntryShows(n, screenPyDict[g][n], sessions, front)
AllEntries == call.ret = "tuple" => DOMAIN screenPyDict[generation] = DOMAIN names
FrontInv == HeldKnown /\ OneEach /\ EntriesFront

LEMMA ShowFrontParts == ResultsShowFront <=> OneEach /\ EntriesFront /\ AllEntries
BY DEF ResultsShowFront, OneEach, EntriesFront, AllEntries, InTable, EntryShows

LEMMA RefsKnown ==
  ASSUME BridgeInv, HeldKnown
  PROVE  /\ \A a \in Array : refs[a] > 0 => a[1] <= opened
         /\ \A g \in Generation : \A a \in Shown(screenPyDict[g]) : a[1] <= opened /\ refs[a] > 0
         /\ opened \in Nat /\ live = Range(names) /\ sessions = names
         /\ \A a \in Array : a[1] \in Int
<1> USE DEF BridgeInv, Tables, Counts
<1>1. opened \in Nat /\ live = Range(names) /\ sessions = names
  BY BridgeAssumption DEF BridgeTypeOK, NothingLeaked, TablesAgree
<1>2. \A a \in Array :
        refs[a] = B(a \in Arrays(screenNumpy)) + B(InDict(a)) + B(a \in heldArrays)
  BY DEF RefCounts, InDict
<1>3. ASSUME NEW a \in Arrays(screenNumpy)
      PROVE  a[1] <= opened
  <2>1. PICK n \in DOMAIN names : a \in Range(screenNumpy[n])
    BY ArraysTabled
  <2>2. a[1] = names[n]
    BY <2>1, ArraysTabled
  <2> QED  BY <2>2 DEF OneName
<1>4. ASSUME NEW g \in Generation, NEW a \in Shown(screenPyDict[g])
      PROVE  a[1] <= opened /\ refs[a] > 0
  <2>1. a \in Array /\ InDict(a) /\ a[1] <= opened
    BY ShownAreArrays DEF InDict, DictsApart
  <2> QED  BY <1>2, <2>1 DEF B
<1>5. ASSUME NEW a \in Array, refs[a] > 0
      PROVE  a[1] <= opened
  <2>1. a \in Arrays(screenNumpy) \/ InDict(a) \/ a \in heldArrays
    BY <1>2, <1>5 DEF B
  <2> QED  BY <1>3, <1>4, <2>1 DEF InDict, HeldKnown
<1>6. \A a \in Array : a[1] \in Int
  BY DEF Array, SessionId
<1> QED  BY <1>1, <1>4, <1>5, <1>6

(* Sessions are closed and opened, references given up: what is left of    *)
(* tables, dictionaries and fronts is as it was.                           *)
LEMMA FrontKept ==
  ASSUME BridgeInv, FrontInv, NEW closed, NEW new,
         live' = (live \ closed) \cup new, \A s \in new : s > opened,
         opened' \in Nat, opened' >= opened, sessions' = names',
         \A n \in DOMAIN names : names[n] \notin closed =>
           n \in DOMAIN names' /\ names'[n] = names[n] /\ screenNumpy'[n] = screenNumpy[n],
         \A s \in SessionId \ closed : front'[s] = front[s],
         \A a \in Array : refs'[a] > 0 => refs[a] > 0,
         \A g \in Generation : screenPyDict'[g] \in {screenPyDict[g], Empty},
         \A a \in heldArrays' : a \in Array /\ a[1] <= opened
  PROVE  FrontInv'
<1>1. /\ \A a \in Array : refs[a] > 0 => a[1] <= opened
      /\ \A g \in Generation : \A a \in Shown(screenPyDict[g]) : a[1] <= opened
      /\ opened \in Nat /\ sessions = names
      /\ \A a \in Array : a[1] \in Int
  BY RefsKnown DEF FrontInv
<1>2. ASSUME NEW a \in Array, a[1] <= opened, a[1] \in live'
      PROVE  a[1] \in live /\ a[1] \notin closed
  <2>1. a[1] \notin new
    BY <1>1, <1>2
  <2> QED  BY <1>2, <2>1
<1>3. HeldKnown'
  <2> SUFFICES ASSUME NEW a \in heldArrays' PROVE a[1] <= opened'
    BY DEF HeldKnown
  <2>1. a[1] \in Int /\ a[1] <= opened
    BY <1>1
  <2> QED  BY <1>1, <2>1
<1>4. OneEach'
  <2> SUFFICES ASSUME NEW a \in Array, refs'[a] > 0, a[1] \in live'
               PROVE  InTable(a, names', screenNumpy')
    BY DEF OneEach
  <2>1. refs[a] > 0 /\ a[1] <= opened
    BY <1>1
  <2>2. a[1] \in live /\ a[1] \notin closed
    BY <1>2, <2>1
  <2>3. InTable(a, names, screenNumpy)
    BY <2>1, <2>2 DEF FrontInv, OneEach
  <2>4. PICK n \in DOMAIN names :
          names[n] = a[1] /\ Wraps(a) \in DOMAIN screenNumpy[n] /\ screenNumpy[n][Wraps(a)] = a
    BY <2>3 DEF InTable
  <2>5. n \in DOMAIN names' /\ names'[n] = names[n] /\ screenNumpy'[n] = screenNumpy[n]
    BY <2>2, <2>4
  <2> QED  BY <2>4, <2>5 DEF InTable
<1>5. EntriesFront'
  <2> SUFFICES ASSUME NEW g \in Generation, NEW n \in DOMAIN screenPyDict'[g],
                      screenPyDict'[g][n] # Py_None, screenPyDict'[g][n][1] \in live'
               PROVE  EntryShows(n, screenPyDict'[g][n], sessions', front')
    BY DEF EntriesFront
  <2>1. screenPyDict'[g] = screenPyDict[g]
    BY DEF Empty
  <2>2. PICK a : a = screenPyDict[g][n] /\ a # Py_None /\ a[1] \in live'
    BY <2>1
  <2>3. a \in Shown(screenPyDict[g])
    BY <2>1, <2>2 DEF Shown, Range
  <2>4. a \in Array /\ a[1] <= opened
    BY <1>1, <2>3, ShownAreArrays DEF BridgeInv
  <2>5. a[1] \in live /\ a[1] \notin closed
    BY <1>2, <2>2, <2>4
  <2>6. EntryShows(n, a, sessions, front)
    BY <2>1, <2>2, <2>5 DEF FrontInv, EntriesFront
  <2>7. n \in DOMAIN names /\ Wraps(a) = <<names[n], front[names[n]]>> /\ a[1] = names[n]
    BY <1>1, <2>6 DEF EntryShows, Wraps
  <2>8. names[n] \in SessionId \ closed
    BY <2>5, <2>7 DEF BridgeInv, BridgeTypeOK
  <2>9. /\ n \in DOMAIN names' /\ names'[n] = names[n] /\ front'[names[n]] = front[names[n]]
        /\ sessions' = names'
    BY <2>8, <2>7
  <2> QED  BY <2>1, <2>2, <2>7, <2>9 DEF EntryShows
<1> QED  BY <1>3, <1>4, <1>5 DEF FrontInv

LEMMA FrontPopulate ==
  ASSUME BridgeInv, FrontInv, NEW r, NEW left, Populate(r, left), Room(r), registered,
         front' = Flipped(r),
         UNCHANGED <<live, opened, sessions, names, heldArrays>>
  PROVE  FrontInv'
<1> DEFINE done == DOMAIN names \ left
           d == [n \in done |-> Entry(screenNumpy', r, n)]
           g == generation
<1>1. BridgeTypeOK /\ Tables /\ Counts
  BY DEF BridgeInv
<1>2. PICK S \in SUBSET DOMAIN names : done \subseteq S /\ TabledWell(r, S, screenNumpy')
  BY <1>1, PopulateDoes
<1>3. g \in Generation /\ DOMAIN screenPyDict = Generation
  BY <1>1 DEF Counts, Started, BridgeTypeOK
<1>4. screenPyDict' = [screenPyDict EXCEPT ![g] = d]
  BY DEF Populate
<1>5. \A a \in Array :
        refs'[a] = ((refs[a] - B(a \in Shown(screenPyDict[g])))
                      + B(a \in Arrays(screenNumpy') \ Arrays(screenNumpy)))
                      + B(a \in Shown(d))
  BY DEF Populate, Counted
<1>6. DOMAIN d = done /\ \A n \in done : d[n] = Entry(screenNumpy', r, n)
  OBVIOUS
<1> HIDE DEF d, done, g
<1>7. \A a \in Shown(d) : a \in Array /\ a \in Arrays(screenNumpy')
  <2> SUFFICES ASSUME NEW a \in Shown(d) PROVE a \in Array /\ a \in Arrays(screenNumpy')
    OBVIOUS
  <2>1. /\ DOMAIN d \subseteq S /\ \A n \in DOMAIN d : d[n] = Entry(screenNumpy', r, n)
        /\ TabledWell(r, S, screenNumpy') /\ S \in SUBSET DOMAIN names /\ BridgeInv
    BY <1>2, <1>6
  <2> QED  BY ONLY <2>1, a \in Shown(d), EntriesAreTabled
<1>8. live = Range(names) /\ sessions = names /\ \A a \in Array : refs[a] \in Nat
  BY <1>1 DEF Tables, NothingLeaked, TablesAgree, BridgeTypeOK
<1>9. HeldKnown'
  BY DEF FrontInv, HeldKnown
<1>10. OneEach'
  <2> SUFFICES ASSUME NEW a \in Array, refs'[a] > 0, a[1] \in live'
               PROVE  InTable(a, names, screenNumpy')
    BY DEF OneEach
  <2>1. CASE refs[a] > 0
    <3>1. InTable(a, names, screenNumpy)
      BY <2>1 DEF FrontInv, OneEach
    <3>2. PICK n \in DOMAIN names :
            names[n] = a[1] /\ Wraps(a) \in DOMAIN screenNumpy[n] /\ screenNumpy[n][Wraps(a)] = a
      BY <3>1 DEF InTable
    <3>3. Wraps(a) \in DOMAIN screenNumpy'[n] /\ screenNumpy'[n][Wraps(a)] = a
      BY <1>2, <3>2 DEF TabledWell
    <3> QED  BY <3>2, <3>3 DEF InTable
  <2>2. CASE ~(refs[a] > 0)
    <3>1. a \in Arrays(screenNumpy')
      <4>1. refs[a] = 0
        BY <1>8, <2>2
      <4>2. a \in Arrays(screenNumpy') \/ a \in Shown(d)
        BY <1>5, <4>1 DEF B
      <4> QED  BY <1>7, <4>2
    <3>2. PICK n \in DOMAIN names : a \in Range(screenNumpy'[n]) /\ Owned(names[n], screenNumpy'[n])
      BY <1>2, <3>1 DEF Arrays, TabledWell
    <3>3. PICK k \in DOMAIN screenNumpy'[n] : a = screenNumpy'[n][k]
      BY <3>2 DEF Range
    <3>4. Wraps(a) = k /\ k[1] = names[n]
      BY <3>2, <3>3 DEF Owned
    <3>5. a[1] = names[n]
      BY <3>4 DEF Wraps
    <3> QED  BY <3>3, <3>4, <3>5 DEF InTable
  <2> QED  BY <2>1, <2>2
<1>11. EntriesFront'
  <2> SUFFICES ASSUME NEW h \in Generation, NEW n \in DOMAIN screenPyDict'[h],
                      screenPyDict'[h][n] # Py_None, screenPyDict'[h][n][1] \in live'
               PROVE  EntryShows(n, screenPyDict'[h][n], sessions, front')
    BY DEF EntriesFront
  <2>1. CASE h = g
    <3>1. screenPyDict'[h] = d
      BY <1>3, <1>4, <2>1
    <3>2. n \in done /\ n \in S /\ d[n] = Entry(screenNumpy', r, n) /\ d[n] # Py_None
      BY <1>2, <1>6, <3>1
    <3>3. /\ r[n] \in Screen
          /\ Wraps(d[n]) = <<sessions[n], r[n]>>
      <4>1. Entry(screenNumpy', r, n) # Py_None
        BY <3>2
      <4> QED  BY <1>2, <3>2, <4>1, EntryIs
    <3>4. n \in DOMAIN sessions /\ sessions[n] \in SessionId
      BY <1>1, <1>8, <3>2 DEF BridgeTypeOK
    <3>5. Flipped(r)[sessions[n]] = r[n]
      <4>1. {m \in DOMAIN names : sessions[m] = sessions[n] /\ r[m] \in Screen} = {n}
        BY <1>1, <1>8, <3>3, <3>4 DEF Tables, OneName
      <4>2. (CHOOSE m \in {n} : TRUE) = n
        OBVIOUS
      <4> QED  BY <3>4, <4>1, <4>2 DEF Flipped
    <3> QED  BY <3>1, <3>3, <3>4, <3>5 DEF EntryShows
  <2>2. CASE h # g
    <3>1. screenPyDict'[h] = screenPyDict[h]
      BY <1>4, <2>2
    <3>2. screenPyDict[h][n] \in Shown(screenPyDict[h])
      BY <3>1 DEF Shown, Range
    <3>3. screenPyDict[h][n][1] \notin Range(names)
      BY <1>1, <2>2, <3>2 DEF Counts, DictsApart, g
    <3> QED  BY <1>8, <3>1, <3>3
  <2> QED  BY <2>1, <2>2
<1> QED  BY <1>9, <1>10, <1>11 DEF FrontInv

frontVars == <<live, opened, sessions, names, screenNumpy, front, refs, screenPyDict,
               heldArrays>>

LEMMA FrontSame ==
  ASSUME FrontInv, UNCHANGED frontVars
  PROVE  FrontInv'
BY DEF FrontInv, HeldKnown, OneEach, EntriesFront, frontVars

LEMMA FrontNothing == Nothing => FrontInv
<1> SUFFICES ASSUME Nothing PROVE FrontInv
  OBVIOUS
<1>1. HeldKnown /\ OneEach
  BY DEF Nothing, HeldKnown, OneEach
<1>2. EntriesFront
  BY DEF Nothing, EntriesFront, Empty
<1> QED  BY <1>1, <1>2 DEF FrontInv

LEMMA FrontDies ==
  ASSUME NEW kind, Dies(kind)
  PROVE  FrontInv'
<1>1. (Nothing => FrontInv)'
  BY FrontNothing, PTL
<1> QED  BY <1>1, DiesNothing

LEMMA FewerRefs ==
  ASSUME BridgeTypeOK, NEW G, refs' = [a \in Array |-> refs[a] - B(a \in G)]
  PROVE  \A a \in Array : refs'[a] > 0 => refs[a] > 0
<1> SUFFICES ASSUME NEW a \in Array, refs'[a] > 0 PROVE refs[a] > 0
  OBVIOUS
<1>1. refs[a] \in Nat /\ B(a \in G) \in {0, 1}
  BY DEF BridgeTypeOK, B
<1>2. refs'[a] = refs[a] - B(a \in G)
  OBVIOUS
<1> QED  BY <1>1, <1>2

LEMMA FrontConnect ==
  ASSUME BridgeInv, FrontInv, Tables', NEW n, NEW sub, connect(n, sub)
  PROVE  FrontInv'
<1>1. CASE ~registered \/ SubscriptionFails(sub)
  BY <1>1, FrontSame DEF connect, Refuses, stateVars, infoVars, sessionVars, pythonVars, frontVars
<1>2. CASE registered /\ ~SubscriptionFails(sub)
  <2> DEFINE closed == Given(sessions, {n})
             new == {opened + 1}
  <2>1. /\ opened' = opened + 1
        /\ names' = Put(names, n, opened + 1) /\ screenNumpy' = Put(screenNumpy, n, Empty)
        /\ Close(closed, new) /\ UNCHANGED <<screenPyDict, heldArrays>>
        /\ refs' = [a \in Array |-> refs[a] - B(a \in GivenUp(Replaced(n)))]
    BY <1>2 DEF connect, FreshTable, Refuses
  <2>2. /\ opened \in Nat /\ sessions = names /\ DOMAIN screenNumpy = DOMAIN names
        /\ heldArrays \subseteq Array
    BY RefsKnown DEF FrontInv, BridgeInv, BridgeTypeOK, Tables, TablesAgree
  <2>3. ASSUME NEW m \in DOMAIN names, names[m] \notin closed
        PROVE  m \in DOMAIN names' /\ names'[m] = names[m] /\ screenNumpy'[m] = screenNumpy[m]
    <3>1. m # n
      BY <2>2, <2>3 DEF Given, Restrict, Range
    <3> QED  BY <2>1, <2>2, <3>1 DEF Put
  <2>4. /\ live' = (live \ closed) \cup new /\ \A s \in SessionId \ closed : front'[s] = front[s]
    BY <2>1 DEF Close
  <2>5. \A a \in Array : refs'[a] > 0 => refs[a] > 0
    BY <2>1, FewerRefs DEF BridgeInv
  <2>6. \A a \in heldArrays' : a \in Array /\ a[1] <= opened
    BY <2>1, <2>2 DEF FrontInv, HeldKnown
  <2>7. /\ \A s \in new : s > opened
        /\ opened' \in Nat /\ opened' >= opened
    BY <2>1, <2>2
  <2>8. sessions' = names'
    BY DEF Tables, TablesAgree
  <2>9. \A g \in Generation : screenPyDict'[g] \in {screenPyDict[g], Empty}
    BY <2>1
  <2> HIDE DEF closed, new
  <2> QED  BY <2>3, <2>4, <2>5, <2>6, <2>7, <2>8, <2>9, FrontKept
<1> QED  BY <1>1, <1>2

LEMMA FrontClose ==
  ASSUME BridgeInv, FrontInv, Tables', NEW n, close(n)
  PROVE  FrontInv'
<1>1. CASE ~registered
  BY <1>1, FrontSame DEF close, Refuses, stateVars, infoVars, sessionVars, pythonVars, frontVars
<1>2. CASE registered
  <2> DEFINE closed == Given(sessions, {n})
             new == {}
  <2>1. /\ opened' = opened
        /\ names' = Without(names, {n}) /\ screenNumpy' = Without(screenNumpy, {n})
        /\ Close(closed, {}) /\ UNCHANGED <<screenPyDict, heldArrays>>
        /\ refs' = [a \in Array |-> refs[a] - B(a \in GivenUp({n}))]
    BY <1>2 DEF close, Refuses
  <2>2. /\ opened \in Nat /\ sessions = names /\ DOMAIN screenNumpy = DOMAIN names
        /\ heldArrays \subseteq Array
    BY RefsKnown DEF FrontInv, BridgeInv, BridgeTypeOK, Tables, TablesAgree
  <2>3. ASSUME NEW m \in DOMAIN names, names[m] \notin closed
        PROVE  m \in DOMAIN names' /\ names'[m] = names[m] /\ screenNumpy'[m] = screenNumpy[m]
    <3>1. m # n
      BY <2>2, <2>3 DEF Given, Restrict, Range
    <3> QED  BY <2>1, <2>2, <3>1 DEF Without, Restrict
  <2>4. /\ live' = (live \ closed) \cup new /\ \A s \in SessionId \ closed : front'[s] = front[s]
    BY <2>1 DEF Close
  <2>5. \A a \in Array : refs'[a] > 0 => refs[a] > 0
    BY <2>1, FewerRefs DEF BridgeInv
  <2>6. \A a \in heldArrays' : a \in Array /\ a[1] <= opened
    BY <2>1, <2>2 DEF FrontInv, HeldKnown
  <2>7. opened' \in Nat /\ opened' >= opened /\ \A s \in new : s > opened
    BY <2>1, <2>2
  <2>8. sessions' = names'
    BY DEF Tables, TablesAgree
  <2>9. \A g \in Generation : screenPyDict'[g] \in {screenPyDict[g], Empty}
    BY <2>1
  <2> HIDE DEF closed, new
  <2> QED  BY <2>3, <2>4, <2>5, <2>6, <2>7, <2>8, <2>9, FrontKept
<1> QED  BY <1>1, <1>2

LEMMA FrontDealloc ==
  ASSUME BridgeInv, FrontInv, Tables', c_dealloc
  PROVE  FrontInv'
<1>1. CASE ~registered
  BY <1>1, FrontSame DEF c_dealloc, stateVars, infoVars, sessionVars, pythonVars, frontVars
<1>2. CASE registered
  <2>1. /\ opened' = opened /\ names' = Empty /\ heldArrays' = heldArrays
        /\ screenPyDict' = DictAfter(generation)
    BY <1>2 DEF c_dealloc
  <2>2. live' = {}
    <3>1. Range(names') = {}
      BY <2>1 DEF Empty, Range
    <3> QED  BY <3>1 DEF Tables, NothingLeaked, TablesAgree
  <2> QED  BY <2>1, <2>2 DEF FrontInv, HeldKnown, OneEach, EntriesFront
<1> QED  BY <1>1, <1>2

LEMMA FrontProgram ==
  ASSUME BridgeInv, FrontInv, ProgramStep
  PROVE  FrontInv'
<1>1. /\ UNCHANGED <<live, opened, sessions, names, screenNumpy, front>>
  BY DEF ProgramStep, infoVars, sessionVars
<1>2. /\ BridgeTypeOK /\ opened \in Nat /\ sessions = names
      /\ \A g \in Generation : \A a \in Shown(screenPyDict[g]) : a[1] <= opened /\ refs[a] > 0
      /\ \A g \in Generation : Shown(screenPyDict[g]) \subseteq Array
      /\ refs \in [Array -> Nat] /\ DOMAIN screenPyDict = Generation
  BY RefsKnown, ShownAreArrays DEF FrontInv, BridgeInv, BridgeTypeOK
<1>3. \A a \in heldArrays : a \in Array /\ a[1] <= opened
  BY <1>2 DEF FrontInv, HeldKnown, BridgeTypeOK
<1>4. /\ \A a \in heldArrays' : a \in Array /\ a[1] <= opened
      /\ \A a \in Array : refs'[a] > 0 => refs[a] > 0
      /\ \A g \in Generation : screenPyDict'[g] \in {screenPyDict[g], Empty}
  <2>1. CASE KeepArray
    <3>1. PICK g, b :
            /\ g \in Generation /\ b \in Shown(screenPyDict[g])
            /\ heldArrays' = heldArrays \cup {b} /\ refs' = [refs EXCEPT ![b] = @ + 1]
            /\ screenPyDict' = screenPyDict
      BY <2>1 DEF KeepArray
    <3>2. b \in Array /\ b[1] <= opened /\ refs[b] > 0
      BY <1>2, <3>1
    <3>3. ASSUME NEW a \in Array, refs'[a] > 0
          PROVE  refs[a] > 0
      BY <1>2, <3>1, <3>2, <3>3
    <3> QED  BY <1>3, <3>1, <3>2, <3>3
  <2>2. CASE DropArray
    <3>1. PICK b \in heldArrays :
            /\ heldArrays' = heldArrays \ {b} /\ refs' = [refs EXCEPT ![b] = @ - 1]
            /\ screenPyDict' = screenPyDict
      BY <2>2 DEF DropArray
    <3>2. ASSUME NEW a \in Array, refs'[a] > 0
          PROVE  refs[a] > 0
      <4>1. refs[a] \in Nat /\ refs'[a] = IF a = b THEN refs[a] - 1 ELSE refs[a]
        BY <1>2, <3>1
      <4> QED  BY <3>2, <4>1
    <3> QED  BY <1>3, <3>1, <3>2
  <2>3. CASE DropTuple
    <3>1. PICK g \in Generation :
            /\ screenPyDict' = DictAfter(g) /\ heldArrays' = heldArrays
            /\ refs' = [a \in Array |-> refs[a] - B(a \in Dropped(g))]
      BY <2>3 DEF DropTuple
    <3>2. \A h \in Generation : screenPyDict'[h] \in {screenPyDict[h], Empty}
      BY <1>2, <3>1 DEF DictAfter
    <3>3. \A a \in Array : refs'[a] > 0 => refs[a] > 0
      BY <1>2, <3>1, FewerRefs
    <3> QED  BY <1>3, <3>1, <3>2, <3>3
  <2> QED  BY <2>1, <2>2, <2>3 DEF ProgramStep
<1>5. /\ live' = (live \ {}) \cup {} /\ \A s \in {} : s > opened
      /\ opened' \in Nat /\ opened' >= opened /\ sessions' = names'
      /\ \A n \in DOMAIN names : names[n] \notin {} =>
           n \in DOMAIN names' /\ names'[n] = names[n] /\ screenNumpy'[n] = screenNumpy[n]
      /\ \A s \in SessionId \ {} : front'[s] = front[s]
  BY <1>1, <1>2
<1> QED  BY <1>4, <1>5, FrontKept

LEMMA FrontNext ==
  ASSUME BridgeInv, FrontInv, [BridgeNext]_bridgeVars
  PROVE  FrontInv'
<1>1. Tables'
  BY TablesNext DEF BridgeInv
<1>2. CASE UNCHANGED frontVars
  BY <1>2, FrontSame
<1>3. CASE c_init \/ SessionConnects \/ ResultTaken \/ UNCHANGED bridgeVars
  BY <1>2, <1>3 DEF c_init, SessionConnects, ResultTaken, bridgeVars, stateVars, infoVars,
                    sessionVars, pythonVars, frontVars
<1>4. CASE c_dealloc
  BY <1>1, <1>4, FrontDealloc
<1>5. ASSUME NEW n \in Name, Call(n)
      PROVE  FrontInv'
  <2>1. CASE \E sub \in SubscriptionArgs : connect(n, sub)
    BY <1>1, <2>1, FrontConnect
  <2>2. CASE close(n)
    BY <1>1, <2>2, FrontClose
  <2>3. CASE render(n) \/ \E sub \in SubscriptionArgs : update(n, sub)
    BY <1>2, <2>3 DEF render, update, stateVars, infoVars, sessionVars, pythonVars, frontVars
  <2> QED  BY <1>5, <2>1, <2>2, <2>3 DEF Call
<1>6. ASSUME NEW acts \in StepArgs, step(acts)
      PROVE  FrontInv'
  <2>1. CASE UNCHANGED stateVars
    BY <1>2, <2>1 DEF stateVars, infoVars, sessionVars, pythonVars, frontVars
  <2>2. CASE \E kind : Dies(kind)
    BY <2>2, FrontDies
  <2>3. CASE ~UNCHANGED stateVars /\ ~\E kind : Dies(kind)
    <3>1. PICK r, left : Populate(r, left) /\ Room(r) /\ front' = Flipped(r)
      BY <1>6, <2>3 DEF step, Refuses, Room
    <3>2. registered /\ UNCHANGED <<live, opened, sessions, names, heldArrays>>
      BY <1>6, <2>3 DEF step, Refuses, AllConverted
    <3> QED  BY <3>1, <3>2, FrontPopulate
  <2> QED  BY <2>1, <2>2, <2>3
<1>7. CASE ProgramStep
  BY <1>7, FrontProgram
<1> QED  BY <1>3, <1>4, <1>5, <1>6, <1>7 DEF BridgeNext

(* A call returns to a program that has taken what the call before it returned. *)
LEMMA EntriesNext ==
  BridgeInv /\ AllEntries /\ [BridgeNext]_bridgeVars => AllEntries'
<1> SUFFICES ASSUME BridgeInv, AllEntries, [BridgeNext]_bridgeVars, call'.ret = "tuple"
             PROVE  DOMAIN screenPyDict'[generation'] = DOMAIN names'
  BY DEF AllEntries
<1>1. NoCall.ret = "none"
  BY DEF NoCall
<1>2. \A value, odd : Returns(value, odd) => call'.ret = value
  BY DEF Returns, NoCall
<1>3. Raises => call'.ret = "NULL"
  BY DEF Raises, NoCall
<1>4. \A kind : Dies(kind) => call'.ret = "none"
  BY DEF Dies, NoCall
<1>5. ASSUME NEW acts \in StepArgs, step(acts)
      PROVE  DOMAIN screenPyDict'[generation'] = DOMAIN names'
  <2>1. PICK r \in BatchResults(acts) :
          /\ registered /\ Populate(r, {})
          /\ UNCHANGED <<generation, names>>
    BY <1>3, <1>4, <1>5 DEF step, AllConverted, Refuses
  <2>2. generation \in DOMAIN screenPyDict
    BY <2>1 DEF BridgeInv, Counts, Started, BridgeTypeOK
  <2>3. DOMAIN names \ {} = DOMAIN names
    OBVIOUS
  <2>4. screenPyDict'[generation] = [n \in DOMAIN names |-> Entry(screenNumpy', r, n)]
    BY <2>1, <2>2, <2>3 DEF Populate
  <2> QED  BY <2>1, <2>4
<1>6. CASE UNCHANGED bridgeVars
  BY <1>6 DEF AllEntries, bridgeVars, stateVars, infoVars, pythonVars
<1>7. CASE call = NoCall /\ (SessionConnects \/ ProgramStep)
  BY <1>1, <1>7 DEF SessionConnects, ProgramStep
<1>8. CASE ResultTaken
  BY <1>1, <1>8 DEF ResultTaken
<1>9. CASE c_init \/ c_dealloc
  BY <1>2, <1>9 DEF c_init, c_dealloc
<1>10. ASSUME NEW n \in Name, Call(n)
       PROVE  FALSE
  <2>1. call'.ret \in {"None", "NULL"}
    BY <1>2, <1>3, <1>10 DEF Call, connect, update, close, render, Refuses
  <2> QED  BY <2>1
<1> QED
  BY <1>5, <1>6, <1>7, <1>8, <1>9, <1>10 DEF BridgeNext

(* Whatever arrays and results a program has kept, those of open sessions  *)
(* are the one array the table has for the screen, and an entry of a       *)
(* result is the front screen of the session under its name: through       *)
(* reconnections, failed steps and freed drivers the lookup in screenNumpy *)
(* never finds the array of another session or screen, nor makes a second  *)
(* one (main.go, populateScreenPyDict, sessionInfo.open and close).        *)
THEOREM ResultsCurrent == BridgeSpec => []ResultsShowFront
<1>1. BridgeInit => FrontInv /\ AllEntries
  <2>1. BridgeInit => Nothing
    BY DEF BridgeInit
  <2>2. BridgeInit => AllEntries
    BY DEF BridgeInit, NoCall, AllEntries
  <2> QED  BY <2>1, <2>2, FrontNothing
<1>2. BridgeInv /\ FrontInv /\ [BridgeNext]_bridgeVars => FrontInv'
  BY FrontNext
<1>3. FrontInv /\ AllEntries => ResultsShowFront
  BY ShowFrontParts DEF FrontInv
<1> QED
  BY <1>1, <1>2, <1>3, EntriesNext, BridgeInvInit, BridgeInvNext, PTL DEF BridgeSpec

LEMMA ContractNext == ContractKept /\ [BridgeNext]_bridgeVars => ContractKept'
<1> SUFFICES ASSUME ContractKept, [BridgeNext]_bridgeVars
             PROVE  ContractKept'
  OBVIOUS
<1>1. Returns("none", {}) \/ Returns("None", {}) => ContractKept'
  BY DEF Returns, NoCall, ContractKept
<1>2. Raises => ContractKept'
  BY DEF Raises, NoCall, ContractKept
<1>3. Dies("noniter") \/ Dies("unknown") \/ Dies("memory") => ContractKept'
  BY DEF Dies, NoCall, ContractKept
<1>4. ASSUME NEW sub \in SubscriptionArgs, ~SubscriptionFails(sub),
             Returns("None", Sets({sub}))
      PROVE  ContractKept'
  <2>1. CASE sub = "good"
    <3>1. Sets({sub}) = {}
      BY <2>1 DEF Sets
    <3> QED  BY <1>1, <1>4, <3>1
  <2>2. CASE sub = "raises"
    <3>1. "raises" \in Sets({sub})
      BY <2>2 DEF Sets
    <3> QED  BY <1>4, <3>1 DEF Returns, NoCall, ContractKept
  <2> QED  BY <1>4, <2>1, <2>2 DEF SubscriptionArgs, SubscriptionFails
<1>5. ASSUME NEW acts \in StepArgs, step(acts)
      PROVE  ContractKept'
  <2>1. CASE Raises \/ Dies("noniter") \/ Dies("unknown") \/ Dies("memory")
    BY <1>2, <1>3, <2>1
  <2>2. ASSUME AllConverted(acts), Returns("tuple", Sets(Range(acts)))
        PROVE  ContractKept'
    <3>1. \A n \in DOMAIN acts : acts[n] \in {"good", "unknown", "raises"}
      BY <2>2 DEF AllConverted, HasKind, StepArgs, Actions
    <3>2. Sets(Range(acts)) \subseteq {"unknown", "raises"}
      BY <3>1 DEF Sets, Range
    <3>3. CASE Sets(Range(acts)) = {}
      BY <2>2, <3>3 DEF Returns, NoCall, ContractKept
    <3>4. CASE Sets(Range(acts)) # {}
      BY <2>2, <3>2, <3>4 DEF Returns, NoCall, ContractKept
    <3> QED  BY <3>3, <3>4
  <2> QED  BY <1>5, <2>1, <2>2 DEF step, Refuses
<1>6. CASE UNCHANGED bridgeVars
  BY <1>6 DEF ContractKept, bridgeVars, stateVars
<1>7. CASE SessionConnects \/ ProgramStep
  BY <1>7 DEF ContractKept, SessionConnects, ProgramStep, stateVars
<1>8. CASE ResultTaken
  BY <1>8 DEF ResultTaken, NoCall, ContractKept
<1>9. CASE c_init \/ c_dealloc
  BY <1>1, <1>9 DEF c_init, c_dealloc
<1>10. ASSUME NEW n \in Name, Call(n)
       PROVE  ContractKept'
  <2>1. ASSUME NEW sub \in SubscriptionArgs, connect(n, sub)
        PROVE  ContractKept'
    BY <1>2, <1>4, <2>1 DEF connect, Refuses
  <2>2. ASSUME NEW sub \in SubscriptionArgs, update(n, sub)
        PROVE  ContractKept'
    BY <1>2, <1>4, <2>2 DEF update
  <2>3. CASE close(n) \/ render(n)
    BY <1>1, <1>2, <2>3 DEF close, render, Refuses
  <2> QED  BY <1>10, <2>1, <2>2, <2>3 DEF Call
<1> QED
  BY <1>5, <1>6, <1>7, <1>8, <1>9, <1>10 DEF BridgeNext

(* A call returns NULL exactly when it leaves a Python error set, but for  *)
(* the three kinds of argument whose error is not reported, or the process *)
(* dies of an unchecked NULL (main.go, convertActionPy,                    *)
(* convertSubscriptionPy, step).                                           *)
THEOREM ContractHolds == BridgeSpec => []ContractKept
<1>1. BridgeInit => ContractKept
  BY DEF BridgeInit, NoCall, ContractKept
<1> QED  BY <1>1, ContractNext, PTL DEF BridgeSpec
=============================================================================
