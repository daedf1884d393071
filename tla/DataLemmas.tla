----------------------------- MODULE DataLemmas -----------------------------
(***************************************************************************)
(* What the proofs about data need: remainders, induction over the natural *)
(* numbers, and that a function defined by recursion exists.  Induction is *)
(* stated for a set T of numbers instead of a predicate.                   *)
(***************************************************************************)
EXTENDS Integers, SequencesExt, FiniteSetTheorems, SequenceTheorems, TLAPS

(* If x were not in T, mapping each number up to x that is not in T to the *)
(* one before it would be an injection into fewer numbers.                 *)
LEMMA NatSetInduction ==
  ASSUME NEW T, 0 \in T, \A m \in Nat : m \in T => m + 1 \in T
  PROVE  Nat \subseteq T
<1>1. SUFFICES ASSUME NEW x \in Nat, x \notin T
               PROVE  FALSE
  OBVIOUS
<1> DEFINE D == {i \in 0..x : i \notin T}
           R == D \ {x}
           before == [i \in D |-> i - 1]
<1>2. \A i \in D : i - 1 \in R
  OBVIOUS
<1>3. /\ IsFiniteSet(D) /\ IsFiniteSet(R)
      /\ Cardinality(D) \in Nat /\ Cardinality(R) = Cardinality(D) - 1
  <2>1. IsFiniteSet(0..x)
    BY FS_Interval
  <2>2. D \in SUBSET (0..x) /\ x \in D
    BY <1>1
  <2>3. IsFiniteSet(D)
    BY <2>1, <2>2, FS_Subset
  <2> HIDE DEF D
  <2> QED  BY <2>2, <2>3, FS_RemoveElement, FS_CardinalityType
<1>4. before \in [D -> R]
  BY <1>2
<1>5. \A i, j \in D : before[i] = before[j] => i = j
  OBVIOUS
<1> HIDE DEF D, R, before
<1>6. Cardinality(R) < Cardinality(D)
  BY <1>3
<1> QED  BY <1>3, <1>4, <1>5, <1>6, FS_PigeonHole

(* A set of natural numbers that is not empty has a least element.         *)
LEMMA MinOfNats ==
  ASSUME NEW S \in SUBSET Nat, S # {}
  PROVE  Min(S) \in S /\ \A i \in S : Min(S) <= i
<1>1. \E x \in S : \A i \in S : x <= i
  <2>1. SUFFICES ASSUME \A x \in S : \E i \in S : ~(x <= i)
                 PROVE  FALSE
    OBVIOUS
  <2> DEFINE T == {m \in Nat : \A i \in 0..m : i \notin S}
  <2>2. 0 \in T
    <3>1. 0 \notin S
      BY <2>1
    <3> QED  BY <3>1
  <2>3. \A m \in Nat : m \in T => m + 1 \in T
    BY <2>1
  <2> HIDE DEF T
  <2>4. Nat \subseteq T
    BY <2>2, <2>3, NatSetInduction
  <2>5. \A m \in Nat : m \notin S
    BY <2>4 DEF T
  <2> QED  BY <2>5
<1> QED  BY <1>1 DEF Min

(* The function f over 0..k is defined by recursion from c by step. *)
Recurses(f, D, c, k, step) ==
  /\ f \in [0..k -> D]
  /\ f[0] = c
  /\ \A i \in 1..k : f[i] = step[<<f[i - 1], i>>]

(* Primitive recursion over 0..k, with a step that is a function.          *)
LEMMA PrimitiveRecursion ==
  ASSUME NEW D, NEW c \in D, NEW k \in Nat, NEW step \in [D \X (1..k) -> D]
  PROVE  \E f : Recurses(f, D, c, k, step)
<1> DEFINE Good(m) == \E f \in [0..m -> D] :
                        /\ f[0] = c
                        /\ \A i \in 1..m : f[i] = step[<<f[i - 1], i>>]
           T == {m \in Nat : m <= k => Good(m)}
<1>1. 0 \in T
  <2>1. [i \in 0..0 |-> c] \in [0..0 -> D] /\ [i \in 0..0 |-> c][0] = c
    OBVIOUS
  <2>2. \A i \in 1..0 : FALSE
    OBVIOUS
  <2> QED  BY <2>1, <2>2
<1>2. ASSUME NEW m \in Nat, m \in T, m + 1 <= k
      PROVE  Good(m + 1)
  <2>1. PICK f \in [0..m -> D] : f[0] = c /\ \A i \in 1..m : f[i] = step[<<f[i - 1], i>>]
    BY <1>2
  <2> DEFINE g == [i \in 0..m + 1 |-> IF i <= m THEN f[i] ELSE step[<<f[m], m + 1>>]]
  <2>2. step[<<f[m], m + 1>>] \in D
    <3>1. f[m] \in D /\ m + 1 \in 1..k
      BY <1>2
    <3> QED  BY <3>1
  <2>3. g \in [0..m + 1 -> D]
    BY <2>2
  <2>4. g[0] = c
    BY <2>1
  <2>5. ASSUME NEW i \in 1..m + 1
        PROVE  g[i] = step[<<g[i - 1], i>>]
    <3>1. CASE i \in 1..m
      <4>1. g[i] = f[i] /\ g[i - 1] = f[i - 1]
        BY <3>1
      <4> QED  BY <2>1, <3>1, <4>1
    <3>2. CASE i = m + 1
      <4>1. g[i] = step[<<f[m], m + 1>>] /\ g[i - 1] = f[m] /\ i - 1 = m
        BY <3>2
      <4> QED  BY <3>2, <4>1
    <3> QED  BY <3>1, <3>2
  <2> HIDE DEF g
  <2> QED  BY <2>3, <2>4, <2>5
<1>3. \A m \in Nat : m \in T => m + 1 \in T
  BY <1>2
<1>4. Nat \subseteq T
  <2> HIDE DEF T
  <2> QED  BY <1>1, <1>3, NatSetInduction
<1>5. k \in T
  BY <1>4
<1> QED  BY <1>5 DEF Recurses

-----------------------------------------------------------------------------
LEMMA ModSmall == \A j \in Nat, d \in Nat \ {0} : j < d => j % d = j
  BY Z3

LEMMA ModRange == \A j \in Nat, d \in Nat \ {0} : j % d \in 0..d-1
  BY Z3

LEMMA DivMod ==
  \A j \in Nat, d \in Nat \ {0} : (j \div d) \in Nat /\ j = d * (j \div d) + (j % d)
  BY Z3

(* The quotient and the remainder are unique. *)
LEMMA ModUnique ==
  \A d \in Nat \ {0} : \A q1, q2 \in Int : \A r1, r2 \in 0..d-1 :
    d * q1 + r1 = d * q2 + r2 => r1 = r2
<1> SUFFICES ASSUME NEW d \in Nat \ {0}, NEW q1 \in Int, NEW q2 \in Int,
                    NEW r1 \in 0..d-1, NEW r2 \in 0..d-1, d * q1 + r1 = d * q2 + r2
             PROVE  r1 = r2
  OBVIOUS
<1>1. \A t \in Int : t >= 1 => d * t >= d
  BY Z3
<1>2. d * q1 - d * q2 = d * (q1 - q2) /\ d * q2 - d * q1 = d * (q2 - q1)
  BY Z3
<1>3. d * q1 \in Int /\ d * q2 \in Int /\ d * (q1 - q2) \in Int /\ d * (q2 - q1) \in Int
  OBVIOUS
<1>4. ~(q1 - q2 >= 1)
  <2>1. ASSUME q1 - q2 >= 1 PROVE FALSE
    <3>1. d * (q1 - q2) >= d
      BY <1>1, <2>1
    <3> QED  BY <3>1, <1>2, <1>3
  <2> QED  BY <2>1
<1>5. ~(q2 - q1 >= 1)
  <2>1. ASSUME q2 - q1 >= 1 PROVE FALSE
    <3>1. d * (q2 - q1) >= d
      BY <1>1, <2>1
    <3> QED  BY <3>1, <1>2, <1>3
  <2> QED  BY <2>1
<1>6. q1 = q2
  BY <1>4, <1>5
<1> QED  BY <1>3, <1>6

(* Adding a remainder is adding the number. *)
LEMMA ModAdd ==
  ASSUME NEW a \in Nat, NEW b \in Nat, NEW d \in Nat \ {0}
  PROVE  (a + (b % d)) % d = (a + b) % d
<1> DEFINE c == a + (b % d)
           q == b \div d
           k == c \div d
           l == (a + b) \div d
<1>1. b % d \in 0..d-1 /\ c \in Nat /\ a + b \in Nat
  BY ModRange
<1>2. q \in Nat /\ b = d * q + (b % d)
  BY DivMod
<1>3. k \in Nat /\ c = d * k + (c % d) /\ c % d \in 0..d-1
  BY <1>1, DivMod, ModRange
<1>4. l \in Nat /\ a + b = d * l + ((a + b) % d) /\ (a + b) % d \in 0..d-1
  BY <1>1, DivMod, ModRange
<1>5. d * (q + k) = d * q + d * k
  BY <1>2, <1>3, Z3
<1>6. d * q \in Int /\ d * k \in Int /\ d * (q + k) \in Int /\ d * l \in Int
  BY <1>2, <1>3, <1>4
<1>0. c = a + (b % d)
  OBVIOUS
<1> HIDE DEF q, k, l, c
<1>7. d * (q + k) + (c % d) = d * l + ((a + b) % d)
  <2>1. (a + b) = a + (d * q + (b % d))
    BY <1>2
  <2>2. (a + b) = d * q + c
    BY <2>1, <1>0, <1>1, <1>6
  <2>3. (a + b) = d * q + (d * k + (c % d))
    BY <2>2, <1>3
  <2>4. (a + b) = d * (q + k) + (c % d)
    BY <2>3, <1>3, <1>5, <1>6
  <2> QED  BY <2>4, <1>4
<1>8. q + k \in Int /\ l \in Int
  BY <1>2, <1>3, <1>4
<1>9. c % d = (a + b) % d
  BY <1>3, <1>4, <1>7, <1>8, ModUnique
<1> QED  BY <1>9 DEF c

(* One period more or less makes no difference. *)
LEMMA ModPeriod ==
  \A j \in Nat, d \in Nat \ {0} : j >= d => j % d = (j - d) % d
<1> SUFFICES ASSUME NEW j \in Nat, NEW d \in Nat \ {0}, j >= d
             PROVE  j % d = (j - d) % d
  OBVIOUS
<1> DEFINE q == (j - d) \div d
           l == j \div d
<1>1. j - d \in Nat
  OBVIOUS
<1>2. q \in Nat /\ j - d = d * q + ((j - d) % d) /\ (j - d) % d \in 0..d-1
  BY <1>1, DivMod, ModRange
<1>3. l \in Nat /\ j = d * l + (j % d) /\ j % d \in 0..d-1
  BY DivMod, ModRange
<1>4. d * (q + 1) = d * q + d /\ d * q \in Int /\ d * l \in Int
  BY <1>2, <1>3, Z3
<1> HIDE DEF q, l
<1>5. d * (q + 1) + ((j - d) % d) = d * l + (j % d)
  BY <1>2, <1>3, <1>4
<1>6. q + 1 \in Int /\ l \in Int
  BY <1>2, <1>3
<1> QED  BY <1>2, <1>3, <1>5, <1>6, ModUnique
-----------------------------------------------------------------------------
(* Joining a sequence of sequences *)

(* What the recursive function in FlattenSeq is: g[i] joins the first i.   *)
Joins(g, S, ss) ==
  /\ g \in [0..Len(ss) -> Seq(S)]
  /\ g[0] = <<>>
  /\ \A i \in 1..Len(ss) : g[i] = g[i - 1] \o ss[i]

LEMMA JoinsExists ==
  ASSUME NEW S, NEW ss \in Seq(Seq(S))
  PROVE  \E g : Joins(g, S, ss)
<1> DEFINE k == Len(ss)
           step == [p \in Seq(S) \X (1..k) |-> p[1] \o ss[p[2]]]
<1>1. k \in Nat /\ <<>> \in Seq(S) /\ \A i \in 1..k : ss[i] \in Seq(S)
  BY LenProperties, EmptySeq, ElementOfSeq
<1>2. step \in [Seq(S) \X (1..k) -> Seq(S)]
  <2>1. ASSUME NEW q \in Seq(S), NEW i \in 1..k
        PROVE  q \o ss[i] \in Seq(S)
    BY <1>1, ConcatProperties
  <2> QED  BY <2>1
<1>3. PICK g : Recurses(g, Seq(S), <<>>, k, step)
  <2> HIDE DEF step, k
  <2> QED  BY <1>1, <1>2, PrimitiveRecursion
<1>4. ASSUME NEW i \in 1..k
      PROVE  g[i] = g[i - 1] \o ss[i]
  <2>1. <<g[i - 1], i>> \in Seq(S) \X (1..k)
    <3>1. i - 1 \in 0..k /\ g \in [0..k -> Seq(S)]
      BY <1>1, <1>3 DEF Recurses
    <3>2. g[i - 1] \in Seq(S)
      BY <3>1
    <3> HIDE DEF k
    <3> QED  BY <3>2
  <2>2. g[i] = step[<<g[i - 1], i>>]
    BY <1>3 DEF Recurses
  <2> QED  BY <2>1, <2>2
<1> QED  BY <1>3, <1>4 DEF Joins, Recurses

LEMMA JoinsUnique ==
  ASSUME NEW S, NEW ss \in Seq(Seq(S)), NEW g, Joins(g, S, ss)
  PROVE  FlattenSeq(ss) = g[Len(ss)]
<1> DEFINE k == Len(ss)
           Turn(f, i) == IF i = 1 THEN ss[i] ELSE f[i - 1] \o ss[i]
           flatten == CHOOSE f : f = [i \in 1..k |-> Turn(f, i)]
           T == {i \in Nat : i \in 1..k => flatten[i] = g[i]}
<1>1. k \in Nat /\ \A i \in 1..k : ss[i] \in Seq(S)
  BY LenProperties, ElementOfSeq
<1>2. CASE k = 0
  <2>1. ss = <<>>
    BY <1>2, EmptySeq
  <2>2. FlattenSeq(ss) = ss
    BY <1>2 DEF FlattenSeq
  <2> QED  BY <1>2, <2>1, <2>2 DEF Joins
<1>3. CASE k # 0
  <2>1. FlattenSeq(ss) = flatten[k]
    BY <1>3 DEF FlattenSeq
  <2>2. ASSUME NEW i \in 1..k
        PROVE  g[i] = Turn(g, i)
    <3>1. g[i] = g[i - 1] \o ss[i] /\ g[0] = <<>>
      BY DEF Joins
    <3>2. <<>> \o ss[i] = ss[i]
      BY <1>1, ConcatEmptySeq
    <3>3. CASE i = 1
      <4>1. g[i - 1] = <<>>
        BY <3>1, <3>3
      <4>2. g[i] = ss[i]
        BY <3>1, <3>2, <4>1
      <4> QED  BY <3>3, <4>2
    <3>4. CASE i # 1
      BY <3>1, <3>4
    <3> QED  BY <3>3, <3>4
  <2> DEFINE h == [i \in 1..k |-> g[i]]
  <2>3. h = [i \in 1..k |-> Turn(h, i)]
    <3>1. ASSUME NEW i \in 1..k
          PROVE  Turn(h, i) = Turn(g, i)
      <4>1. CASE i = 1
        BY <4>1
      <4>2. CASE i # 1
        <5>1. i - 1 \in 1..k
          BY <1>1, <4>2
        <5> QED  BY <4>2, <5>1
      <4> QED  BY <4>1, <4>2
    <3> HIDE DEF Turn
    <3> QED  BY <2>2, <3>1
  <2>4. flatten = [i \in 1..k |-> Turn(flatten, i)]
    <3> HIDE DEF Turn, h
    <3> QED  BY <2>3
  <2> HIDE DEF flatten
  <2>5. \A i \in Nat : i \in T => i + 1 \in T
    <3> SUFFICES ASSUME NEW i \in Nat, i \in T, i + 1 \in 1..k
                 PROVE  flatten[i + 1] = g[i + 1]
      OBVIOUS
    <3>1. flatten[i + 1] = Turn(flatten, i + 1)
      BY <2>4
    <3>2. CASE i = 0
      BY <2>2, <3>1, <3>2
    <3>3. CASE i # 0
      <4>1. i \in 1..k /\ (i + 1) - 1 = i
        BY <1>1, <3>3
      <4>2. flatten[i] = g[i]
        BY <4>1
      <4>3. Turn(flatten, i + 1) = Turn(g, i + 1)
        BY <4>1, <4>2
      <4> QED  BY <2>2, <3>1, <4>3
    <3> QED  BY <3>2, <3>3
  <2>6. Nat \subseteq T
    <3>1. 0 \in T
      OBVIOUS
    <3> HIDE DEF T
    <3> QED  BY <2>5, <3>1, NatSetInduction
  <2>7. k \in 1..k
    BY <1>1, <1>3
  <2> QED  BY <2>1, <2>6, <2>7
<1> QED  BY <1>2, <1>3

LEMMA FlattenTyped ==
  ASSUME NEW S, NEW ss \in Seq(Seq(S))
  PROVE  FlattenSeq(ss) \in Seq(S)
<1>1. PICK g : Joins(g, S, ss)
  BY JoinsExists
<1>2. FlattenSeq(ss) = g[Len(ss)]
  BY <1>1, JoinsUnique
<1>3. Len(ss) \in 0..Len(ss)
  BY LenProperties
<1> QED  BY <1>1, <1>2, <1>3 DEF Joins

LEMMA FlattenAppend ==
  ASSUME NEW S, NEW ss \in Seq(Seq(S)), NEW q \in Seq(S)
  PROVE  FlattenSeq(Append(ss, q)) = FlattenSeq(ss) \o q
<1> DEFINE tt == Append(ss, q)
           k == Len(ss)
<1>1. /\ k \in Nat /\ tt \in Seq(Seq(S)) /\ Len(tt) = k + 1 /\ tt[k + 1] = q
      /\ \A i \in 1..k : tt[i] = ss[i]
  BY AppendProperties, LenProperties
<1>2. PICK g : Joins(g, S, ss)
  BY JoinsExists
<1> DEFINE h == [i \in 0..k + 1 |-> IF i <= k THEN g[i] ELSE g[k] \o q]
<1>3. Joins(h, S, tt)
  <2>1. g[k] \in Seq(S)
    BY <1>1, <1>2 DEF Joins
  <2>2. g[k] \o q \in Seq(S)
    BY <2>1, ConcatProperties
  <2>3. h \in [0..k + 1 -> Seq(S)]
    BY <1>1, <1>2, <2>2 DEF Joins
  <2>4. h[0] = <<>>
    BY <1>1, <1>2 DEF Joins
  <2>5. ASSUME NEW i \in 1..k + 1
        PROVE  h[i] = h[i - 1] \o tt[i]
    <3>1. CASE i \in 1..k
      <4>1. h[i] = g[i] /\ h[i - 1] = g[i - 1]
        BY <1>1, <3>1
      <4>2. g[i] = g[i - 1] \o ss[i] /\ tt[i] = ss[i]
        BY <1>1, <1>2, <3>1 DEF Joins
      <4> HIDE DEF h, tt
      <4> QED  BY <4>1, <4>2
    <3>2. CASE i = k + 1
      <4>1. h[i] = g[k] \o q /\ h[i - 1] = g[k]
        BY <1>1, <3>2
      <4> HIDE DEF h, tt
      <4> QED  BY <1>1, <3>2, <4>1
    <3>3. i \in 1..k \/ i = k + 1
      BY <1>1
    <3> QED  BY <3>1, <3>2, <3>3
  <2> HIDE DEF h, tt
  <2> QED  BY <1>1, <2>3, <2>4, <2>5 DEF Joins
<1>4. h[Len(tt)] = g[k] \o q
  BY <1>1
<1> HIDE DEF h, tt
<1>5. FlattenSeq(tt) = h[Len(tt)]
  BY <1>1, <1>3, JoinsUnique
<1>6. FlattenSeq(ss) = g[k]
  BY <1>2, JoinsUnique
<1> QED  BY <1>4, <1>5, <1>6 DEF tt

LEMMA FlattenFirst ==
  ASSUME NEW S, NEW ss \in Seq(Seq(S)), ss # <<>>
  PROVE  FlattenSeq(ss) = Head(ss) \o FlattenSeq(Tail(ss))
<1> DEFINE tt == Tail(ss)
           k == Len(tt)
<1>0. \A a, b, c \in Seq(S) : (a \o b) \o c = a \o (b \o c)
  BY ConcatAssociative
<1>1. /\ k \in Nat /\ tt \in Seq(Seq(S)) /\ Len(ss) = k + 1 /\ Head(ss) = ss[1]
      /\ ss[1] \in Seq(S)
      /\ \A i \in 1..k : tt[i] = ss[i + 1] /\ tt[i] \in Seq(S)
  BY HeadTailProperties, LenProperties, ElementOfSeq, EmptySeq
<1> HIDE DEF tt
<1>2. PICK h : Joins(h, S, tt)
  BY <1>1, JoinsExists
<1> DEFINE g == [i \in 0..k + 1 |-> IF i = 0 THEN <<>> ELSE ss[1] \o h[i - 1]]
<1>3. \A i \in 0..k : h[i] \in Seq(S)
  BY <1>2 DEF Joins
<1>4. Joins(g, S, ss)
  <2>1. ASSUME NEW i \in 0..k + 1
        PROVE  g[i] \in Seq(S)
    <3>1. CASE i = 0
      BY <3>1, EmptySeq
    <3>2. CASE i # 0
      <4>1. h[i - 1] \in Seq(S)
        BY <1>1, <1>3, <3>2
      <4>2. ss[1] \o h[i - 1] \in Seq(S)
        BY <1>1, <4>1, ConcatProperties
      <4> QED  BY <3>2, <4>2
    <3> QED  BY <3>1, <3>2
  <2>2. g \in [0..k + 1 -> Seq(S)]
    BY <2>1
  <2>3. g[0] = <<>>
    BY <1>1
  <2>4. ASSUME NEW i \in 1..k + 1
        PROVE  g[i] = g[i - 1] \o ss[i]
    <3>1. CASE i = 1
      <4>1. h[0] = <<>>
        BY <1>2 DEF Joins
      <4>2. g[i] = ss[1] \o <<>> /\ g[i - 1] = <<>>
        BY <1>1, <3>1, <4>1
      <4>3. ss[1] \o <<>> = ss[1] /\ <<>> \o ss[1] = ss[1]
        BY <1>1, ConcatEmptySeq
      <4> QED  BY <3>1, <4>2, <4>3
    <3>2. CASE i # 1
      <4>1. PICK j \in 1..k : i = j + 1
        <5>1. i - 1 \in 1..k /\ i = (i - 1) + 1
          BY <1>1, <3>2
        <5> QED  BY <5>1
      <4>2. h[j] = h[j - 1] \o tt[j]
        BY <1>2 DEF Joins
      <4>3. tt[j] = ss[i] /\ tt[j] \in Seq(S)
        BY <1>1, <4>1
      <4>4. h[j - 1] \in Seq(S)
        BY <1>1, <1>3
      <4>5. g[i] = ss[1] \o h[j]
        <5>1. i \in 0..k + 1 /\ i # 0 /\ i - 1 = j
          BY <1>1, <4>1
        <5>2. g[i] = ss[1] \o h[i - 1]
          BY <5>1
        <5> QED  BY <5>1, <5>2
      <4>6. g[i - 1] = ss[1] \o h[j - 1]
        <5>1. i - 1 = j /\ j \in 0..k + 1 /\ j # 0
          BY <1>1, <4>1
        <5>2. g[j] = ss[1] \o h[j - 1]
          BY <5>1
        <5> QED  BY <5>1, <5>2
      <4> HIDE DEF g
      <4> DEFINE q == h[j - 1]
      <4>7. (ss[1] \o q) \o tt[j] = ss[1] \o (q \o tt[j])
        <5>1. q \in Seq(S)
          BY <4>4
        <5>2. ss[1] \in Seq(S) /\ tt[j] \in Seq(S)
          BY <1>1, <4>3
        <5> HIDE DEF q
        <5> QED  BY <5>1, <5>2, <1>0, Zenon
      <4> QED  BY <4>2, <4>3, <4>5, <4>6, <4>7
    <3> QED  BY <3>1, <3>2
  <2> HIDE DEF g
  <2> QED  BY <1>1, <2>2, <2>3, <2>4 DEF Joins
<1>5. g[Len(ss)] = ss[1] \o h[k]
  <2>1. k + 1 \in 0..k + 1 /\ k + 1 # 0 /\ (k + 1) - 1 = k
    BY <1>1
  <2>2. g[k + 1] = ss[1] \o h[(k + 1) - 1]
    BY <2>1
  <2> HIDE DEF g, k
  <2> QED  BY <1>1, <2>1, <2>2
<1> HIDE DEF g
<1>6. FlattenSeq(ss) = g[Len(ss)]
  BY <1>4, JoinsUnique
<1>7. FlattenSeq(tt) = h[k]
  BY <1>1, <1>2, JoinsUnique
<1> QED  BY <1>1, <1>5, <1>6, <1>7 DEF tt
=============================================================================
