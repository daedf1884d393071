--------------------------- MODULE DecodersProofs ---------------------------
(***************************************************************************)
(* The loop of forwardCopy repeats the overlap, for every memory; and the  *)
(* bytes of every rectangle are read as they were written, whichever way   *)
(* the server chose.                                                       *)
(***************************************************************************)
EXTENDS ForwardCopy, RectangleData, DataLemmas

-----------------------------------------------------------------------------
(* forwardCopy *)

(* Before the loop ends, what it has copied is a repetition of the pattern *)
(* of dst0 - src cells, and what it will copy next starts with a whole one. *)
LoopInv ==
  /\ dst0 <= dst /\ dst + n = dst0 + n0
  /\ dst0 <= src => dst = dst0
  /\ dst0 > src => (dst - src) % (dst0 - src) = 0
  /\ pc = "copy" => mem = Forward(mem0, dst0, src, dst - dst0)

CopyInv == CopyTypeOK /\ LoopInv /\ CopiesForward

LEMMA RangeTyped ==
  ASSUME NEW m \in Memory, NEW d \in Nat, NEW s \in Nat, NEW k \in Nat, s + k <= Size
  PROVE  CopyRange(m, d, s, k) \in Memory
<1>1. \A i \in 0..Size-1 : d <= i /\ i < d + k => s + (i - d) \in 0..Size-1
  BY CopyAssumption
<1> QED  BY <1>1 DEF CopyRange, Memory

LEMMA InitCopy == Init => CopyInv
<1> SUFFICES ASSUME Init
             PROVE  CopyInv
  OBVIOUS
<1> USE DEF Init
<1>1. CopyTypeOK
  BY DEF CopyTypeOK
<1>2. mem = Forward(mem0, dst0, src, 0)
  BY DEF Forward, Memory
<1>3. dst0 > src => (dst - src) % (dst0 - src) = 0
  <2>1. ASSUME dst0 > src PROVE (dst0 - src) % (dst0 - src) = 0
    <3>1. dst0 - src \in Nat \ {0} /\ (dst0 - src) - (dst0 - src) = 0
      BY <2>1
    <3> QED  BY <3>1, ModPeriod, ModSmall
  <2> QED  BY <2>1
<1> QED  BY <1>1, <1>2, <1>3 DEF CopyInv, LoopInv, CopiesForward

(* The cells from src up to dst repeat the pattern, and dst is where the   *)
(* pattern starts again.                                                   *)
LEMMA Repetition ==
  ASSUME CopyTypeOK, LoopInv, pc = "copy", dst0 > src
  PROVE  \A a \in 0..(dst - src - 1) :
           /\ mem[src + a] = mem0[src + (a % (dst0 - src))]
           /\ (a + (dst - dst0)) % (dst0 - src) = a % (dst0 - src)
<1> SUFFICES ASSUME NEW a \in 0..(dst - src - 1)
             PROVE  /\ mem[src + a] = mem0[src + (a % (dst0 - src))]
                    /\ (a + (dst - dst0)) % (dst0 - src) = a % (dst0 - src)
  OBVIOUS
<1> DEFINE p == dst0 - src
           k == dst - src
<1>1. p \in Nat \ {0} /\ k \in Nat /\ k >= p /\ a \in Nat /\ a < k /\ src \in Nat
  BY DEF CopyTypeOK, LoopInv
<1>2. k % p = 0
  BY DEF LoopInv
<1>3. mem = Forward(mem0, dst0, src, dst - dst0)
  BY DEF LoopInv
<1>4. mem[src + a] = mem0[src + (a % p)]
  <2>1. src + a \in DOMAIN mem0 /\ src + a < dst0 + (dst - dst0)
    <3>1. dst \in Nat /\ dst0 \in Nat /\ dst <= Size /\ src + a < dst
      BY <1>1, CopyAssumption DEF CopyTypeOK
    <3>2. src + a \in 0..Size-1
      BY <1>1, <3>1, CopyAssumption
    <3> QED  BY <3>1, <3>2 DEF CopyTypeOK, Memory
  <2>2. CASE a < p
    <3>1. ~(dst0 <= src + a) /\ a % p = a
      BY <1>1, <2>2, ModSmall DEF CopyTypeOK
    <3> QED  BY <1>3, <2>1, <3>1 DEF Forward
  <2>3. CASE a >= p
    <3>1. dst0 <= src + a /\ (src + a) - dst0 = a - p /\ ~(dst0 <= src)
      BY <1>1, <2>3 DEF CopyTypeOK
    <3>2. mem[src + a] = mem0[src + ((a - p) % p)]
      BY <1>3, <2>1, <3>1 DEF Forward
    <3>3. a % p = (a - p) % p
      BY <1>1, <2>3, ModPeriod
    <3> QED  BY <3>2, <3>3
  <2> QED  BY <1>1, <2>2, <2>3
<1>5. (a + (dst - dst0)) % p = a % p
  <2>1. (a + k) % p = (a + (k % p)) % p
    BY <1>1, ModAdd
  <2>2. a + k \in Nat /\ a + k >= p /\ (a + k) - p = a + (dst - dst0)
    BY <1>1 DEF CopyTypeOK
  <2>3. (a + k) % p = (a + (dst - dst0)) % p
    BY <1>1, <2>2, ModPeriod
  <2>4. a + 0 = a
    BY <1>1
  <2> QED  BY <1>2, <2>1, <2>3, <2>4
<1> QED  BY <1>4, <1>5

(* Copying m of the cells from src on to dst continues the repetition. *)
LEMMA Continues ==
  ASSUME CopyTypeOK, LoopInv, pc = "copy", dst0 > src,
         NEW m \in 0..(dst - src), m <= n
  PROVE  CopyRange(mem, dst, src, m) = Forward(mem0, dst0, src, (dst - dst0) + m)
<1> DEFINE copied == CopyRange(mem, dst, src, m)
           wanted == Forward(mem0, dst0, src, (dst - dst0) + m)
<1>1. mem = Forward(mem0, dst0, src, dst - dst0)
  BY DEF LoopInv
<1>2. DOMAIN mem = 0..Size-1 /\ DOMAIN mem0 = 0..Size-1
  BY DEF CopyTypeOK, Memory
<1>3. dst \in Nat /\ dst0 \in Nat /\ src \in Nat /\ m \in Nat /\ dst0 <= dst
  BY DEF CopyTypeOK, LoopInv
<1>4. ASSUME NEW i \in 0..Size-1
      PROVE  copied[i] = wanted[i]
  <2>1. CASE dst <= i /\ i < dst + m
    <3>1. i - dst \in 0..(dst - src - 1) /\ i - dst + (dst - dst0) = i - dst0
      BY <1>3, <2>1
    <3>2. copied[i] = mem[src + (i - dst)]
      BY <1>2, <2>1 DEF CopyRange
    <3>3. copied[i] = mem0[src + ((i - dst0) % (dst0 - src))]
      BY <3>1, <3>2, Repetition
    <3>4. dst0 <= i /\ i < dst0 + ((dst - dst0) + m) /\ ~(dst0 <= src)
      BY <1>3, <2>1
    <3> QED  BY <1>2, <3>3, <3>4 DEF Forward
  <2>2. CASE ~(dst <= i /\ i < dst + m)
    <3>1. copied[i] = mem[i]
      BY <1>2, <2>2 DEF CopyRange
    <3>2. (dst0 <= i /\ i < dst0 + ((dst - dst0) + m))
            <=> (dst0 <= i /\ i < dst0 + (dst - dst0))
      BY <1>3, <2>2
    <3> QED  BY <1>1, <1>2, <3>1, <3>2 DEF Forward
  <2> QED  BY <2>1, <2>2
<1>5. copied = [i \in 0..Size-1 |-> copied[i]] /\ wanted = [i \in 0..Size-1 |-> wanted[i]]
  BY <1>2 DEF CopyRange, Forward
<1> HIDE DEF copied, wanted
<1>6. copied = wanted
  BY <1>4, <1>5
<1> QED  BY <1>6 DEF copied, wanted

LEMMA StepCopy == CopyInv /\ [Next]_copyVars => CopyInv'
<1> SUFFICES ASSUME CopyTypeOK, LoopInv, CopiesForward, [Next]_copyVars
             PROVE  CopyInv'
  BY DEF CopyInv
<1>1. CASE CopyAll
  <2> USE <1>1 DEF CopyAll
  <2>1. CopyTypeOK'
    <3>1. mem' \in Memory
      BY RangeTyped, CopyAssumption DEF CopyTypeOK
    <3> QED  BY <3>1 DEF CopyTypeOK
  <2>2. CASE dst0 > src
    <3>1. n \in 0..(dst - src) /\ (dst - dst0) + n = n0
      BY <2>2 DEF CopyTypeOK, LoopInv, Disjoint
    <3>2. mem' = Forward(mem0, dst0, src, n0)
      BY <2>2, <3>1, Continues DEF CopyTypeOK
    <3> QED  BY <2>1, <3>2 DEF CopyInv, LoopInv, CopiesForward
  <2>3. CASE dst0 <= src
    <3>1. dst = dst0 /\ n = n0 /\ dst - dst0 = 0
      BY <2>3 DEF CopyTypeOK, LoopInv
    <3>2. mem = Forward(mem0, dst0, src, 0)
      BY <3>1 DEF LoopInv
    <3>3. mem = mem0
      BY <3>2 DEF Forward, CopyTypeOK, Memory
    <3>4. mem' = Forward(mem0, dst0, src, n0)
      BY <2>3, <3>1, <3>3 DEF Forward, CopyRange
    <3> QED  BY <2>1, <3>4 DEF CopyInv, LoopInv, CopiesForward
  <2> QED  BY <2>2, <2>3 DEF CopyTypeOK
<1>2. CASE CopyPattern
  <2> USE <1>2 DEF CopyPattern, Pattern, Remaining
  <2>1. dst0 > src /\ dst > src /\ dst - src < n
    BY DEF CopyTypeOK, LoopInv, Disjoint
  <2>2. CopyTypeOK'
    <3>1. dst - src \in Nat /\ src + (dst - src) <= Size /\ src \in Nat /\ dst \in Nat
      BY <2>1, CopyAssumption DEF CopyTypeOK
    <3>2. mem' \in Memory
      BY <3>1, RangeTyped DEF CopyTypeOK
    <3>3. /\ dst + (dst - src) \in 0..Size /\ n - (dst - src) \in 0..Size
          /\ dst + (dst - src) + (n - (dst - src)) <= Size
          /\ src + (n - (dst - src)) <= Size
      BY <2>1, CopyAssumption DEF CopyTypeOK
    <3> QED  BY <3>2, <3>3 DEF CopyTypeOK
  <2>3. mem' = Forward(mem0, dst0, src, dst' - dst0)
    <3>1. dst - src \in 0..(dst - src) /\ dst - src <= n
      BY <2>1 DEF CopyTypeOK
    <3>2. (dst - dst0) + (dst - src) = dst' - dst0
      BY DEF CopyTypeOK
    <3> QED  BY <2>1, <3>1, <3>2, Continues
  <2>4. (dst' - src) % (dst0 - src) = 0
    <3> DEFINE k == dst - src
               p == dst0 - src
    <3>1. k \in Nat /\ p \in Nat \ {0} /\ k % p = 0 /\ dst' - src = k + k /\ k + 0 = k
      BY <2>1 DEF CopyTypeOK, LoopInv
    <3>2. (k + (k % p)) % p = (k + k) % p
      BY <3>1, ModAdd
    <3> HIDE DEF k
    <3> QED  BY <3>1, <3>2
  <2>5. dst0 <= dst' /\ dst' + n' = dst0 + n0
    BY <2>1 DEF CopyTypeOK, LoopInv
  <2> QED
    BY <2>1, <2>2, <2>3, <2>4, <2>5 DEF CopyInv, LoopInv, CopiesForward, CopyTypeOK
<1>3. CASE UNCHANGED copyVars
  BY <1>3
  DEF copyVars, CopyInv, CopyTypeOK, LoopInv, CopiesForward
<1> QED  BY <1>1, <1>2, <1>3 DEF Next

(* forwardCopy leaves the periodic repetition of the overlap, whatever the *)
(* memory, the ranges and their overlap (copy.go:13-31).                   *)
THEOREM CopyIsForward == Spec => []CopiesForward
<1>1. CopyInv => CopiesForward
  BY DEF CopyInv
<1> QED  BY <1>1, InitCopy, StepCopy, PTL DEF Spec

(* Every variable of the loop keeps its type: nothing outside the memory   *)
(* is read or written (copy.go:13-31).                                     *)
THEOREM CopyTypeCorrect == Spec => []CopyTypeOK
<1>1. CopyInv => CopyTypeOK
  BY DEF CopyInv
<1> QED  BY <1>1, InitCopy, StepCopy, PTL DEF Spec

-----------------------------------------------------------------------------
(* The loop of the comment                                                 *)

(* One more byte of the closed form is one more turn of the loop.          *)
LEMMA ForwardTurn ==
  ASSUME NEW m \in Memory, NEW d \in Nat, NEW s \in Nat, NEW i \in Nat,
         d + i < Size, s + i < Size
  PROVE  Forward(m, d, s, i + 1) =
           [Forward(m, d, s, i) EXCEPT ![d + i] = Forward(m, d, s, i)[s + i]]
<1> DEFINE before == Forward(m, d, s, i)
           after == Forward(m, d, s, i + 1)
<1>1. DOMAIN m = 0..Size-1 /\ Size \in Nat
  BY CopyAssumption DEF Memory
<1>2. d + i \in 0..Size-1 /\ s + i \in 0..Size-1
  BY <1>1
<1>3. \A j \in 0..Size-1 : j # d + i => after[j] = before[j]
  BY <1>1 DEF Forward
<1>4. after[d + i] = before[s + i]
  <2>1. d <= d + i /\ d + i < d + (i + 1) /\ (d + i) - d = i
    OBVIOUS
  <2>2. CASE d <= s
    <3>1. after[d + i] = m[s + i]
      BY <1>1, <1>2, <2>1, <2>2 DEF Forward
    <3>2. ~(s + i < d + i)
      BY <2>2
    <3> QED  BY <1>1, <1>2, <3>1, <3>2 DEF Forward
  <2>3. CASE d > s
    <3>1. after[d + i] = m[s + (i % (d - s))] /\ d - s \in Nat \ {0}
      BY <1>1, <1>2, <2>1, <2>3 DEF Forward
    <3>2. CASE s + i < d
      <4>1. i % (d - s) = i
        BY <3>1, <3>2, ModSmall
      <4>2. before[s + i] = m[s + i]
        BY <1>1, <1>2, <3>2 DEF Forward
      <4> QED  BY <3>1, <4>1, <4>2
    <3>3. CASE s + i >= d
      <4>1. i >= d - s /\ (s + i) - d = i - (d - s) /\ s + i < d + i /\ ~(d <= s)
        BY <2>3, <3>3
      <4>2. before[s + i] = m[s + ((i - (d - s)) % (d - s))]
        BY <1>1, <1>2, <3>3, <4>1 DEF Forward
      <4>3. i % (d - s) = (i - (d - s)) % (d - s)
        BY <3>1, <4>1, ModPeriod
      <4> QED  BY <3>1, <4>2, <4>3
    <3> QED  BY <3>2, <3>3
  <2> QED  BY <2>2, <2>3
<1>5. after = [j \in 0..Size-1 |-> after[j]] /\ before = [j \in 0..Size-1 |-> before[j]]
  BY <1>1 DEF Forward
<1> HIDE DEF before, after
<1>6. after = [before EXCEPT ![d + i] = before[s + i]]
  BY <1>3, <1>4, <1>5
<1> QED  BY <1>6 DEF before, after

LEMMA ForwardTyped ==
  ASSUME NEW m \in Memory, NEW d \in Nat, NEW s \in Nat, NEW k \in Nat,
         d + k <= Size, s + k <= Size
  PROVE  Forward(m, d, s, k) \in Memory
<1>1. DOMAIN m = 0..Size-1 /\ Size \in Nat
  BY CopyAssumption DEF Memory
<1>2. ASSUME NEW i \in 0..Size-1, d <= i, i < d + k
      PROVE  /\ d <= s => s + (i - d) \in 0..Size-1
             /\ ~(d <= s) => s + ((i - d) % (d - s)) \in 0..Size-1
  <2>1. d <= s => s + (i - d) \in 0..Size-1
    BY <1>1, <1>2
  <2>2. ASSUME ~(d <= s)
        PROVE  s + ((i - d) % (d - s)) \in 0..Size-1
    <3>1. i - d \in Nat /\ d - s \in Nat \ {0}
      BY <1>2, <2>2
    <3>2. (i - d) % (d - s) \in 0..(d - s) - 1
      BY <3>1, ModRange
    <3> QED  BY <1>1, <1>2, <3>2
  <2> QED  BY <2>1, <2>2
<1> QED  BY <1>1, <1>2 DEF Forward, Memory

(* By induction on the turns; that the recursive function of ByteByByte    *)
(* exists is PrimitiveRecursion.                                           *)
LEMMA ByteByByteIsForward ==
  ASSUME NEW m \in Memory, NEW d \in Nat, NEW s \in Nat, NEW k \in Nat,
         d + k <= Size, s + k <= Size
  PROVE  ByteByByte(m, d, s, k) = Forward(m, d, s, k)
<1> DEFINE Turn(g, i) == IF i = 0 THEN m
                         ELSE [g[i - 1] EXCEPT ![d + (i - 1)] = g[i - 1][s + (i - 1)]]
           turn == CHOOSE g : g = [i \in 0..k |-> Turn(g, i)]
           step == [p \in Memory \X (1..k) |->
                      [p[1] EXCEPT ![d + (p[2] - 1)] = p[1][s + (p[2] - 1)]]]
<1>1. step \in [Memory \X (1..k) -> Memory]
  <2>1. ASSUME NEW q \in Memory, NEW i \in 1..k
        PROVE  [q EXCEPT ![d + (i - 1)] = q[s + (i - 1)]] \in Memory
    <3>1. s + (i - 1) \in 0..Size-1
      BY CopyAssumption
    <3> QED  BY <3>1 DEF Memory
  <2> QED  BY <2>1
<1>2. \E g : g = [i \in 0..k |-> Turn(g, i)]
  <2>1. PICK f : Recurses(f, Memory, m, k, step)
    <3> HIDE DEF step, Turn, turn
    <3> QED  BY <1>1, PrimitiveRecursion
  <2>2. \A i \in 0..k : f[i] = Turn(f, i)
    <3>1. ASSUME NEW i \in 1..k
          PROVE  f[i] = Turn(f, i)
      <4>1. <<f[i - 1], i>> \in Memory \X (1..k)
        BY <2>1 DEF Recurses
      <4>2. f[i] = step[<<f[i - 1], i>>]
        BY <2>1 DEF Recurses
      <4> QED  BY <4>1, <4>2
    <3>2. f[0] = Turn(f, 0)
      BY <2>1 DEF Recurses
    <3> HIDE DEF Turn
    <3>3. \A i \in 0..k : i = 0 \/ i \in 1..k
      OBVIOUS
    <3> QED  BY <3>1, <3>2, <3>3
  <2>3. f = [i \in 0..k |-> Turn(f, i)]
    <3>1. f = [i \in 0..k |-> f[i]]
      BY <2>1 DEF Recurses
    <3> HIDE DEF Turn
    <3> QED  BY <2>2, <3>1
  <2> QED  BY <2>3
<1>3. turn = [i \in 0..k |-> Turn(turn, i)]
  <2> HIDE DEF Turn
  <2> QED  BY <1>2
<1>4. ByteByByte(m, d, s, k) = turn[k]
  BY DEF ByteByByte
<1> HIDE DEF turn
<1> DEFINE T == {i \in Nat : i <= k => turn[i] = Forward(m, d, s, i)}
<1>5. 0 \in T
  <2>1. turn[0] = m
    BY <1>3
  <2>2. Forward(m, d, s, 0) = m
    BY DEF Forward, Memory
  <2> QED  BY <2>1, <2>2
<1>6. ASSUME NEW i \in Nat, i \in T
      PROVE  i + 1 \in T
  <2>1. SUFFICES ASSUME i + 1 <= k
                 PROVE  turn[i + 1] = Forward(m, d, s, i + 1)
    OBVIOUS
  <2>2. turn[i + 1] = [turn[i] EXCEPT ![d + i] = turn[i][s + i]]
    <3>1. i + 1 \in 0..k /\ i + 1 # 0 /\ (i + 1) - 1 = i
      BY <2>1
    <3>2. turn[i + 1] = Turn(turn, i + 1)
      BY <1>3, <3>1
    <3> QED  BY <3>1, <3>2
  <2>3. turn[i] = Forward(m, d, s, i)
    BY <1>6, <2>1
  <2>4. d + i < Size /\ s + i < Size
    BY <2>1, CopyAssumption
  <2> QED  BY <2>2, <2>3, <2>4, ForwardTurn
<1>7. Nat \subseteq T
  <2> HIDE DEF T
  <2> QED  BY <1>5, <1>6, NatSetInduction
<1> QED  BY <1>4, <1>7

(* However it doubles what it copies, forwardCopy leaves what its comment  *)
(* says: the loop that copies byte after byte (copy.go:9-31).              *)
THEOREM CopyIsByteByByte == Spec => []ForwardIsByteByByte
<1>1. CopyInv => ForwardIsByteByByte
  <2> SUFFICES ASSUME CopyInv, pc = "done"
               PROVE  mem = ByteByByte(mem0, dst0, src, n0)
    BY DEF ForwardIsByteByByte
  <2>1. mem0 \in Memory /\ dst0 \in Nat /\ src \in Nat /\ n0 \in Nat
    BY DEF CopyInv, CopyTypeOK
  <2>2. dst0 + n0 <= Size /\ src + n0 <= Size
    BY CopyAssumption DEF CopyInv, CopyTypeOK, LoopInv
  <2>3. mem = Forward(mem0, dst0, src, n0)
    BY DEF CopyInv, CopiesForward
  <2> QED  BY <2>1, <2>2, <2>3, ByteByByteIsForward
<1> QED  BY <1>1, InitCopy, StepCopy, PTL DEF Spec

-----------------------------------------------------------------------------
(* Powers of two *)

LEMMA TwoToSteps ==
  /\ TwoTo[0] = 1
  /\ \A num \in Nat : TwoTo[num] \in Nat \ {0} /\ TwoTo[num + 1] = 2 * TwoTo[num]
<1> DEFINE Doubles(g, k) == g \in [0..k -> Nat] /\ g[0] = 1 /\ \A i \in 1..k : g[i] = 2 * g[i - 1]
           G(k) == CHOOSE g : Doubles(g, k)
           h == [num \in Nat |-> G(num)[num]]
           Turn(f, num) == IF num = 0 THEN 1 ELSE 2 * f[num - 1]
<1>1. ASSUME NEW k \in Nat
      PROVE  Doubles(G(k), k)
  <2> DEFINE step == [p \in Nat \X (1..k) |-> 2 * p[1]]
  <2>1. step \in [Nat \X (1..k) -> Nat] /\ 1 \in Nat
    OBVIOUS
  <2>2. PICK g : Recurses(g, Nat, 1, k, step)
    <3> HIDE DEF step
    <3> QED  BY <2>1, PrimitiveRecursion
  <2>3. ASSUME NEW i \in 1..k
        PROVE  g[i] = 2 * g[i - 1]
    <3>1. g \in [0..k -> Nat] /\ g[i] = step[<<g[i - 1], i>>]
      BY <2>2 DEF Recurses
    <3>2. g[i - 1] \in Nat
      BY <3>1
    <3>3. <<g[i - 1], i>> \in Nat \X (1..k)
      BY <3>2
    <3> QED  BY <3>1, <3>3
  <2>4. Doubles(g, k)
    BY <2>2, <2>3 DEF Recurses
  <2> QED  BY <2>4
<1> HIDE DEF G
<1>2. ASSUME NEW k \in Nat
      PROVE  G(k + 1)[k] = G(k)[k]
  <2> DEFINE T == {i \in Nat : i <= k => G(k + 1)[i] = G(k)[i]}
  <2>1. Doubles(G(k), k) /\ Doubles(G(k + 1), k + 1)
    <3>1. k + 1 \in Nat
      OBVIOUS
    <3> HIDE DEF Doubles
    <3> QED  BY <1>1, <3>1
  <2>2. 0 \in T
    BY <2>1
  <2>3. ASSUME NEW m \in Nat, m \in T, m + 1 <= k
        PROVE  G(k + 1)[m + 1] = G(k)[m + 1]
    <3>1. m + 1 \in 1..k /\ m + 1 \in 1..k + 1 /\ (m + 1) - 1 = m /\ G(k + 1)[m] = G(k)[m]
      BY <2>3
    <3> QED  BY <2>1, <3>1
  <2>4. \A m \in Nat : m \in T => m + 1 \in T
    BY <2>3
  <2>5. Nat \subseteq T
    <3> HIDE DEF T
    <3> QED  BY <2>2, <2>4, NatSetInduction
  <2> QED  BY <2>5
<1>3. h = [num \in Nat |-> Turn(h, num)]
  <2>1. ASSUME NEW num \in Nat
        PROVE  h[num] = Turn(h, num)
    <3>1. CASE num = 0
      BY <1>1, <3>1
    <3>2. CASE num # 0
      <4>1. num - 1 \in Nat /\ (num - 1) + 1 = num /\ num \in 1..num
        BY <3>2
      <4>2. G(num)[num - 1] = G(num - 1)[num - 1]
        BY <1>2, <4>1
      <4>3. G(num)[num] = 2 * G(num)[num - 1]
        BY <1>1, <4>1
      <4> QED  BY <3>2, <4>1, <4>2, <4>3
    <3> QED  BY <3>1, <3>2
  <2> QED  BY <2>1
<1> HIDE DEF h
<1>4. TwoTo = [num \in Nat |-> Turn(TwoTo, num)]
  BY <1>3 DEF TwoTo
<1>5. TwoTo[0] = 1 /\ \A num \in Nat : TwoTo[num + 1] = 2 * TwoTo[num]
  <2>1. \A num \in Nat : TwoTo[num] = Turn(TwoTo, num)
    BY <1>4
  <2> QED  BY <2>1
<1> DEFINE T == {num \in Nat : TwoTo[num] \in Nat \ {0}}
<1>6. 0 \in T /\ \A m \in Nat : m \in T => m + 1 \in T
  BY <1>5
<1>7. Nat \subseteq T
  <2> HIDE DEF T
  <2> QED  BY <1>6, NatSetInduction
<1> QED  BY <1>5, <1>7

LEMMA TwoToTyped == \A num \in Nat : TwoTo[num] \in Nat /\ TwoTo[num] >= 1
BY TwoToSteps

LEMMA Bytewise ==
  /\ TwoTo[0] = 1 /\ TwoTo[1] = 2 /\ TwoTo[2] = 4 /\ TwoTo[3] = 8 /\ TwoTo[4] = 16
  /\ TwoTo[5] = 32 /\ TwoTo[6] = 64 /\ TwoTo[7] = 128 /\ TwoTo[8] = 256
<1>1. TwoTo[0] = 1 /\ TwoTo[0 + 1] = 2 * TwoTo[0] /\ TwoTo[1 + 1] = 2 * TwoTo[1]
  BY TwoToSteps
<1>2. TwoTo[2 + 1] = 2 * TwoTo[2] /\ TwoTo[3 + 1] = 2 * TwoTo[3] /\ TwoTo[4 + 1] = 2 * TwoTo[4]
  BY TwoToSteps
<1>3. TwoTo[5 + 1] = 2 * TwoTo[5] /\ TwoTo[6 + 1] = 2 * TwoTo[6] /\ TwoTo[7 + 1] = 2 * TwoTo[7]
  BY TwoToSteps
<1> QED  BY <1>1, <1>2, <1>3

LEMMA TwoToAdds == \A a, b \in Nat : TwoTo[a + b] = TwoTo[a] * TwoTo[b]
<1> SUFFICES ASSUME NEW a \in Nat
             PROVE  \A b \in Nat : TwoTo[a + b] = TwoTo[a] * TwoTo[b]
  OBVIOUS
<1> DEFINE T == {b \in Nat : TwoTo[a + b] = TwoTo[a] * TwoTo[b]}
<1>1. 0 \in T
  BY TwoToSteps
<1>2. ASSUME NEW m \in Nat, m \in T
      PROVE  m + 1 \in T
  <2>1. a + m \in Nat /\ a + (m + 1) = (a + m) + 1
    OBVIOUS
  <2>2. TwoTo[a + (m + 1)] = 2 * TwoTo[a + m] /\ TwoTo[m + 1] = 2 * TwoTo[m]
    BY <2>1, TwoToSteps
  <2>3. TwoTo[a] \in Nat /\ TwoTo[m] \in Nat /\ TwoTo[a + m] = TwoTo[a] * TwoTo[m]
    BY <1>2, TwoToTyped
  <2>4. \A x, y \in Nat : 2 * (x * y) = x * (2 * y)
    OBVIOUS
  <2> QED  BY <2>2, <2>3, <2>4
<1>3. Nat \subseteq T
  <2> HIDE DEF T
  <2> QED  BY <1>1, <1>2, NatSetInduction
<1> QED  BY <1>3

LEMMA TwoToGrows == \A a, b \in Nat : a <= b => TwoTo[a] <= TwoTo[b]
<1> SUFFICES ASSUME NEW a \in Nat, NEW b \in Nat, a <= b
             PROVE  TwoTo[a] <= TwoTo[b]
  OBVIOUS
<1>1. b - a \in Nat /\ a + (b - a) = b
  OBVIOUS
<1>2. TwoTo[b] = TwoTo[a] * TwoTo[b - a]
  BY <1>1, TwoToAdds
<1>3. \A x, y \in Nat : y >= 1 => x <= x * y
  OBVIOUS
<1> QED  BY <1>1, <1>2, <1>3, TwoToTyped

(* Every number but zero lies between two of them. *)
LEMMA TwoToBrackets ==
  \A i \in Nat \ {0} : \E t \in 0..i : TwoTo[t] <= i /\ i < 2 * TwoTo[t]
<1> DEFINE T == {m \in Nat : \E t \in 0..m : TwoTo[t] <= m + 1 /\ m + 1 < 2 * TwoTo[t]}
<1>1. 0 \in T
  <2>1. 0 \in 0..0 /\ TwoTo[0] <= 0 + 1 /\ 0 + 1 < 2 * TwoTo[0]
    BY TwoToSteps
  <2> QED  BY <2>1
<1>2. ASSUME NEW m \in Nat, m \in T
      PROVE  m + 1 \in T
  <2>1. PICK t \in 0..m : TwoTo[t] <= m + 1 /\ m + 1 < 2 * TwoTo[t]
    BY <1>2
  <2>2. t \in Nat /\ t + 1 \in 0..m + 1 /\ TwoTo[t] \in Nat /\ TwoTo[t] >= 1
        /\ TwoTo[t + 1] = 2 * TwoTo[t]
    BY TwoToSteps
  <2>3. CASE m + 2 < 2 * TwoTo[t]
    BY <2>1, <2>2, <2>3
  <2>4. CASE ~(m + 2 < 2 * TwoTo[t])
    <3>1. TwoTo[t + 1] <= (m + 1) + 1 /\ (m + 1) + 1 < 2 * TwoTo[t + 1]
      BY <2>1, <2>2, <2>4
    <3> QED  BY <2>2, <3>1
  <2> QED  BY <2>3, <2>4
<1>3. Nat \subseteq T
  <2> HIDE DEF T
  <2> QED  BY <1>1, <1>2, NatSetInduction
<1> SUFFICES ASSUME NEW i \in Nat \ {0}
             PROVE  \E t \in 0..i : TwoTo[t] <= i /\ i < 2 * TwoTo[t]
  OBVIOUS
<1>4. i - 1 \in Nat /\ (i - 1) + 1 = i
  OBVIOUS
<1>5. PICK t \in 0..i - 1 : TwoTo[t] <= (i - 1) + 1 /\ (i - 1) + 1 < 2 * TwoTo[t]
  BY <1>3, <1>4
<1>6. t \in 0..i
  OBVIOUS
<1> QED  BY <1>4, <1>5, <1>6

-----------------------------------------------------------------------------
(* Sums *)

(* The sum of a sequence is the last of its partial sums. *)
LEMMA PartialSums ==
  ASSUME NEW s \in Seq(Nat)
  PROVE  \E sum \in [0..Len(s) -> Nat] :
           /\ sum[0] = 0
           /\ \A i \in 1..Len(s) : sum[i] = sum[i - 1] + s[i]
           /\ Total(s) = sum[Len(s)]
<1> DEFINE k == Len(s)
           Turn(f, i) == IF i = 0 THEN 0 ELSE f[i - 1] + s[i]
           step == [p \in Nat \X (1..k) |-> p[1] + s[p[2]]]
           sum == CHOOSE f : f = [i \in 0..k |-> Turn(f, i)]
<1>1. k \in Nat /\ \A i \in 1..k : s[i] \in Nat
  BY LenProperties, ElementOfSeq
<1>2. step \in [Nat \X (1..k) -> Nat] /\ 0 \in Nat
  BY <1>1
<1>3. PICK g : Recurses(g, Nat, 0, k, step)
  <2> HIDE DEF step, k
  <2> QED  BY <1>1, <1>2, PrimitiveRecursion
<1>4. ASSUME NEW i \in 1..k
      PROVE  g[i] = g[i - 1] + s[i]
  <2>1. g \in [0..k -> Nat] /\ g[i] = step[<<g[i - 1], i>>]
    BY <1>3 DEF Recurses
  <2>2. g[i - 1] \in Nat
    <3>1. i - 1 \in 0..k
      BY <1>1
    <3> HIDE DEF k
    <3> QED  BY <2>1, <3>1
  <2>3. <<g[i - 1], i>> \in Nat \X (1..k)
    BY <2>2
  <2> QED  BY <2>1, <2>3
<1>5. g = [i \in 0..k |-> Turn(g, i)]
  <2> HIDE DEF k
  <2>1. g \in [0..k -> Nat] /\ g[0] = 0
    BY <1>3 DEF Recurses
  <2>2. \A i \in 0..k : g[i] = Turn(g, i)
    BY <1>1, <1>4, <2>1
  <2> HIDE DEF Turn
  <2> QED  BY <2>1, <2>2
<1>6. sum = [i \in 0..k |-> Turn(sum, i)]
  <2> HIDE DEF k, Turn
  <2> QED  BY <1>5
<1>7. Total(s) = sum[k]
  BY DEF Total
<1> HIDE DEF sum
<1>8. sum[0] = 0 /\ \A i \in 1..k : sum[i] = sum[i - 1] + s[i]
  <2>1. \A i \in 0..k : sum[i] = Turn(sum, i)
    BY <1>1, <1>6
  <2> HIDE DEF k
  <2> QED  BY <1>1, <2>1
<1>9. sum \in [0..k -> Nat]
  <2> DEFINE T == {i \in Nat : i <= k => sum[i] \in Nat}
  <2>1. 0 \in T
    BY <1>8
  <2>2. ASSUME NEW m \in Nat, m \in T, m + 1 <= k
        PROVE  sum[m + 1] \in Nat
    <3> HIDE DEF k
    <3>1. m + 1 \in 1..k /\ (m + 1) - 1 = m /\ sum[m] \in Nat
      BY <1>1, <2>2
    <3> QED  BY <1>1, <1>8, <3>1
  <2>3. \A m \in Nat : m \in T => m + 1 \in T
    BY <2>2
  <2>4. Nat \subseteq T
    <3> HIDE DEF T
    <3> QED  BY <2>1, <2>3, NatSetInduction
  <2>5. \A i \in 0..k : sum[i] \in Nat
    BY <2>4
  <2> HIDE DEF k
  <2> QED  BY <1>6, <2>5
<1> QED  BY <1>7, <1>8, <1>9

-----------------------------------------------------------------------------
(* Rows and columns *)

LEMMA QuotientUnique ==
  ASSUME NEW d \in Nat \ {0}, NEW q \in Nat, NEW r \in 0..d-1
  PROVE  (d * q + r) \div d = q /\ (d * q + r) % d = r
<1> DEFINE num == d * q + r
<1>1. num \in Nat
  OBVIOUS
<1>2. (num \div d) \in Nat /\ num = d * (num \div d) + (num % d) /\ num % d \in 0..d-1
  BY <1>1, DivMod, ModRange
<1> DEFINE l == num \div d
           m == num % d
<1>3. m = r
  <2>1. l \in Int /\ q \in Int /\ m \in 0..d-1 /\ d * l + m = d * q + r
    BY <1>2
  <2> HIDE DEF l, m, num
  <2> QED  BY <2>1, ModUnique
<1>4. l = q
  <2>1. l \in Nat /\ d * l = d * q
    BY <1>2, <1>3
  <2> HIDE DEF l, m, num
  <2>2. \A t \in Int : t >= 1 => d * t >= d
    OBVIOUS
  <2>3. l - q \in Int /\ q - l \in Int /\ d * (l - q) = 0 /\ d * (q - l) = 0
    BY <2>1
  <2>4. ~(l - q >= 1) /\ ~(q - l >= 1)
    BY <2>2, <2>3
  <2> QED  BY <2>1, <2>4
<1> QED  BY <1>3, <1>4

LEMMA GridCell ==
  ASSUME NEW w \in Nat, NEW h \in Nat, NEW i \in 0..w * h - 1
  PROVE  /\ w > 0 /\ i % w \in 0..w-1 /\ i \div w \in 0..h-1
         /\ i = (i \div w) * w + (i % w)
<1>1. w # 0 /\ i \in Nat
  <2>1. w = 0 => w * h = 0
    OBVIOUS
  <2> QED  BY <2>1
<1>2. i % w \in 0..w-1 /\ (i \div w) \in Nat /\ i = w * (i \div w) + (i % w)
  BY <1>1, DivMod, ModRange
<1> DEFINE y == i \div w
           x == i % w
<1>3. y < h
  <2>1. SUFFICES ASSUME y >= h
                 PROVE  FALSE
    BY <1>2
  <2>2. y \in Nat /\ x \in Nat /\ i = w * y + x /\ i < w * h
    BY <1>2
  <2> HIDE DEF x, y
  <2>3. w * y >= w * h
    <3>1. y - h \in Nat
      BY <2>1, <2>2
    <3>2. w * (y - h) \in Nat /\ w * y = w * h + w * (y - h)
      BY <2>2, <3>1
    <3> QED  BY <3>2
  <2> QED  BY <2>2, <2>3
<1>4. w * y = y * w
  BY <1>2
<1> QED  BY <1>1, <1>2, <1>3, <1>4

LEMMA GridIndex ==
  ASSUME NEW w \in Nat, NEW h \in Nat, NEW x \in 0..w-1, NEW y \in 0..h-1
  PROVE  /\ y * w + x \in 0..w * h - 1
         /\ (y * w + x) % w = x /\ (y * w + x) \div w = y
<1>1. w \in Nat \ {0} /\ y \in Nat /\ x \in 0..w-1 /\ w * y = y * w
  OBVIOUS
<1>2. (w * y + x) \div w = y /\ (w * y + x) % w = x
  BY <1>1, QuotientUnique
<1>3. w * y + x < w * h
  <2>1. h - y - 1 \in Nat
    OBVIOUS
  <2>2. w * (h - y - 1) \in Nat /\ w * h = w * y + w + w * (h - y - 1)
    BY <2>1
  <2> QED  BY <2>2
<1>4. y * w \in Nat
  OBVIOUS
<1> QED  BY <1>1, <1>2, <1>3, <1>4

LEMMA GridMonotone ==
  ASSUME NEW w \in Nat, NEW h \in Nat, NEW v \in 0..w, NEW g \in 0..h
  PROVE  v * g \in Nat /\ v * g <= w * h
<1>1. v * g <= w * g
  <2>1. (w - v) * g \in Nat /\ w * g = v * g + (w - v) * g
    OBVIOUS
  <2> QED  BY <2>1
<1>2. w * g <= w * h
  <2>1. w * (h - g) \in Nat /\ w * h = w * g + w * (h - g)
    OBVIOUS
  <2> QED  BY <2>1
<1> QED  BY <1>1, <1>2

(* The next column, or the first of the next row. *)
LEMMA NextColumn ==
  ASSUME NEW w \in Nat \ {0}, NEW k \in Nat
  PROVE  (k + 1) % w = IF (k % w) + 1 = w THEN 0 ELSE (k % w) + 1
<1> DEFINE y == k \div w
           x == k % w
<1>1. x \in 0..w-1 /\ y \in Nat /\ k = w * y + x
  BY DivMod, ModRange
<1> HIDE DEF x, y
<1>2. CASE x + 1 = w
  <2>1. k + 1 = w * (y + 1) + 0 /\ y + 1 \in Nat /\ 0 \in 0..w-1
    BY <1>1, <1>2
  <2>2. (k + 1) % w = 0
    BY <2>1, QuotientUnique
  <2> QED  BY <1>2, <2>2 DEF x
<1>3. CASE x + 1 # w
  <2>1. k + 1 = w * y + (x + 1) /\ x + 1 \in 0..w-1
    BY <1>1, <1>3
  <2>2. (k + 1) % w = x + 1
    BY <1>1, <2>1, QuotientUnique
  <2> QED  BY <1>3, <2>2 DEF x
<1> QED  BY <1>2, <1>3

(* Columns before k in its row. *)
LEMMA ColumnBefore ==
  ASSUME NEW w \in Nat \ {0}, NEW k \in Nat, NEW j \in 0..k % w
  PROVE  k - j \in Nat /\ (k - j) % w = (k % w) - j
<1> DEFINE y == k \div w
           x == k % w
<1>1. x \in 0..w-1 /\ y \in Nat /\ k = w * y + x /\ j \in 0..x
  BY DivMod, ModRange
<1> HIDE DEF x, y
<1>2. k - j = w * y + (x - j) /\ x - j \in 0..w-1 /\ w * y \in Nat
  BY <1>1
<1>3. (k - j) % w = x - j
  BY <1>1, <1>2, QuotientUnique
<1> QED  BY <1>2, <1>3 DEF x

-----------------------------------------------------------------------------
(* fillColor *)

LEMMA Fills ==
  ASSUME NEW s, NEW from \in Nat, NEW count \in Nat, NEW c
  PROVE  FillColor(s, from, count, c) =
           [i \in DOMAIN s |-> IF i \in from..from + count - 1 THEN c ELSE s[i]]
<1> DEFINE Copies(i) == {turn \in 0..i : i \in Bp(turn)..2 * Bp(turn) - 1}
           Turn(f, i) == IF i = 0 THEN c
                         ELSE IF Copies(i) = {} THEN s[from + i]
                         ELSE f[i - Bp(CHOOSE turn \in Copies(i) : TRUE)]
           filled == CHOOSE f : f = [i \in 0..count - 1 |-> Turn(f, i)]
           all == [i \in 0..count - 1 |-> c]
           From(i) == i - Bp(CHOOSE turn \in Copies(i) : TRUE)
<1>1. ASSUME NEW i \in 1..count - 1
      PROVE  Copies(i) # {} /\ From(i) \in 0..i - 1
  <2>1. PICK t \in 0..i : TwoTo[t] <= i /\ i < 2 * TwoTo[t]
    BY TwoToBrackets
  <2>2. t \in Copies(i)
    BY <2>1, TwoToTyped DEF Bp
  <2> DEFINE u == CHOOSE turn \in Copies(i) : TRUE
  <2>3. u \in Copies(i)
    BY <2>2
  <2> HIDE DEF u
  <2>4. u \in Nat /\ TwoTo[u] \in Nat /\ TwoTo[u] >= 1 /\ TwoTo[u] <= i
    BY <2>3, TwoToTyped DEF Bp
  <2> QED  BY <2>2, <2>4 DEF Bp, u
<1> HIDE DEF Copies, From
<1>2. all = [i \in 0..count - 1 |-> Turn(all, i)]
  <2>1. ASSUME NEW i \in 0..count - 1
        PROVE  Turn(all, i) = c
    <3>1. CASE i # 0
      <4>1. i \in 1..count - 1
        BY <3>1
      <4>2. Copies(i) # {} /\ From(i) \in 0..count - 1
        BY <1>1, <4>1
      <4>3. Turn(all, i) = all[From(i)]
        BY <3>1, <4>2 DEF From
      <4> QED  BY <4>2, <4>3
    <3> QED  BY <3>1
  <2> HIDE DEF Turn
  <2> QED  BY <2>1
<1>3. filled = [i \in 0..count - 1 |-> Turn(filled, i)]
  <2> HIDE DEF Turn
  <2> QED  BY <1>2
<1> HIDE DEF filled
<1>4. \A i \in 0..count - 1 : filled[i] = c
  <2> DEFINE T == {m \in Nat : \A i \in 0..m : i < count => filled[i] = c}
  <2>1. 0 \in T
    BY <1>3
  <2>2. ASSUME NEW m \in Nat, m \in T, m + 1 < count
        PROVE  filled[m + 1] = c
    <3>1. m + 1 \in 1..count - 1 /\ m + 1 # 0
      BY <2>2
    <3>2. Copies(m + 1) # {} /\ From(m + 1) \in 0..(m + 1) - 1
      BY <1>1, <3>1
    <3>3. filled[m + 1] = Turn(filled, m + 1)
      <4>1. \A i \in 0..count - 1 : filled[i] = Turn(filled, i)
        <5> HIDE DEF Turn
        <5> QED  BY <1>3
      <4>2. m + 1 \in 0..count - 1
        BY <3>1
      <4> HIDE DEF Turn
      <4> QED  BY <4>1, <4>2
    <3>4. filled[m + 1] = filled[From(m + 1)]
      BY <3>1, <3>2, <3>3 DEF From
    <3>5. From(m + 1) \in 0..m /\ From(m + 1) < count
      BY <2>2, <3>2
    <3> QED  BY <2>2, <3>4, <3>5
  <2>3. \A m \in Nat : m \in T => m + 1 \in T
    BY <2>2
  <2>4. Nat \subseteq T
    <3> HIDE DEF T
    <3> QED  BY <2>1, <2>3, NatSetInduction
  <2>5. \A i \in 0..count - 1 : i \in T
    BY <2>4
  <2> QED  BY <2>5
<1>5. FillColor(s, from, count, c) =
        [i \in DOMAIN s |-> IF i \in from..from + count - 1 THEN filled[i - from] ELSE s[i]]
  BY DEF FillColor, filled, Copies
<1>6. \A i \in DOMAIN s : i \in from..from + count - 1 => filled[i - from] = c
  <2>1. ASSUME NEW i \in from..from + count - 1
        PROVE  i - from \in 0..count - 1
    OBVIOUS
  <2> QED  BY <1>4, <2>1
<1> HIDE DEF Copies, From, Turn, all
<1> QED  BY <1>5, <1>6

-----------------------------------------------------------------------------
(* Bytes that hold several indices *)

LEMMA Listed ==
  ASSUME NEW S, NEW num \in Nat, NEW e \in [1..num -> S]
  PROVE  e \in Seq(S) /\ Len(e) = num
OBVIOUS

LEMMA SumsOfFew ==
  ASSUME NEW num \in Nat, NEW e \in [1..num -> Nat]
  PROVE  /\ num = 1 => Total(e) = e[1]
         /\ num = 2 => Total(e) = e[1] + e[2]
         /\ num = 3 => Total(e) = e[1] + e[2] + e[3]
         /\ num = 4 => Total(e) = e[1] + e[2] + e[3] + e[4]
         /\ num = 8 => Total(e) = e[1] + e[2] + e[3] + e[4] + e[5] + e[6] + e[7] + e[8]
<1>1. e \in Seq(Nat) /\ Len(e) = num
  BY Listed
<1>2. PICK sum \in [0..num -> Nat] :
        /\ sum[0] = 0
        /\ \A i \in 1..num : sum[i] = sum[i - 1] + e[i]
        /\ Total(e) = sum[num]
  BY <1>1, PartialSums
<1>3. \A i \in 1..num : e[i] \in Nat
  OBVIOUS
<1>4. ASSUME NEW i \in 1..num
      PROVE  e[i] \in Nat /\ sum[i] = sum[i - 1] + e[i]
  BY <1>2, <1>3
<1>5. num >= 1 => sum[1] = e[1]
  <2>1. num >= 1 => 1 \in 1..num
    OBVIOUS
  <2> QED  BY <1>2, <1>4, <2>1
<1>6. num >= 2 => sum[2] = e[1] + e[2]
  <2>1. num >= 2 => 2 \in 1..num /\ 2 - 1 = 1
    OBVIOUS
  <2> QED  BY <1>4, <1>5, <2>1
<1>7. num >= 3 => sum[3] = e[1] + e[2] + e[3]
  <2>1. num >= 3 => 3 \in 1..num /\ 3 - 1 = 2
    OBVIOUS
  <2> QED  BY <1>4, <1>6, <2>1
<1>8. num >= 4 => sum[4] = e[1] + e[2] + e[3] + e[4]
  <2>1. num >= 4 => 4 \in 1..num /\ 4 - 1 = 3
    OBVIOUS
  <2> QED  BY <1>4, <1>7, <2>1
<1>9. num >= 8 => sum[8] = e[1] + e[2] + e[3] + e[4] + e[5] + e[6] + e[7] + e[8]
  <2>1. num >= 8 => /\ 5 \in 1..num /\ 5 - 1 = 4 /\ 6 \in 1..num /\ 6 - 1 = 5
                  /\ 7 \in 1..num /\ 7 - 1 = 6 /\ 8 \in 1..num /\ 8 - 1 = 7
    OBVIOUS
  <2>2. num >= 8 => sum[5] = sum[4] + e[5] /\ sum[6] = sum[5] + e[6]
    BY <1>4, <2>1
  <2>3. num >= 8 => sum[7] = sum[6] + e[7] /\ sum[8] = sum[7] + e[8]
    BY <1>4, <2>1
  <2> QED  BY <1>8, <2>2, <2>3
<1>10. Total(e) = sum[num]
  BY <1>2
<1> QED
  <2>1. CASE num = 1
    BY <1>5, <1>10, <2>1
  <2>2. CASE num = 2
    BY <1>6, <1>10, <2>2
  <2>3. CASE num = 3
    BY <1>7, <1>10, <2>3
  <2>4. CASE num = 4
    BY <1>8, <1>10, <2>4
  <2>5. CASE num = 8
    BY <1>9, <1>10, <2>5
  <2>6. CASE num \notin {1, 2, 3, 4, 8}
    BY <2>6
  <2> QED  BY <2>1, <2>2, <2>3, <2>4, <2>5, <2>6

LEMMA DivOne == \A num \in Nat : num \div 1 = num
BY Z3

LEMMA Remainder256 == \A num \in 0..255 : num % 256 = num
BY Z3

LEMMA PackedBy8 ==
  ASSUME NEW x \in [1..1 -> 0..255], NEW e, e = [f \in 1..1 |-> x[f] * TwoTo[8 - 8 * f]]
  PROVE  Total(e) \in 0..255 /\ (Total(e) \div 1) % 256 = x[1] /\ TwoTo[8 - 8 * 1] = 1
<1> DEFINE b == Total(e)
           c == x[1]
<1>1. c \in 0..255
  OBVIOUS
<1>2. TwoTo[8 - 8 * 1] = 1
  BY Bytewise
<1>3. e[1] = c * TwoTo[8 - 8 * 1]
  OBVIOUS
<1>4. e \in [1..1 -> Nat] /\ e[1] = c
  <2>1. \A f \in 1..1 : f = 1
    OBVIOUS
  <2>2. e[1] \in Nat /\ e[1] = c
    <3> HIDE DEF c
    <3> QED  BY ONLY <1>1, <1>2, <1>3
  <2>3. e = [f \in 1..1 |-> e[f]]
    OBVIOUS
  <2> QED  BY ONLY <2>1, <2>2, <2>3
<1>5. b = c
  BY <1>4, SumsOfFew
<1> HIDE DEF b, c
<1>6. b \in 0..255 /\ (b \div 1) % 256 = c
  BY <1>1, <1>5, Remainder256, DivOne
<1> QED  BY <1>2, <1>6, Zenon DEF b, c

LEMMA PackedBy4 ==
  ASSUME NEW x \in [1..2 -> 0..15], NEW e \in [1..2 -> Nat],
         e[1] = x[1] * 16, e[2] = x[2] * 1
  PROVE  /\ Total(e) \in 0..255
         /\ (Total(e) \div 16) % 16 = x[1]
         /\ (Total(e) \div 1) % 16 = x[2]
<1> DEFINE num == Total(e)
           a == x[1]
           b == x[2]
<1>1. num = e[1] + e[2]
  BY SumsOfFew
<1>2. /\ a \in 0..15 /\ b \in 0..15
  OBVIOUS
<1>3. /\ e[1] = a * 16 /\ e[2] = b * 1
  OBVIOUS
<1> HIDE DEF num, a, b
<1>4. num = a * 16 + b /\ num \in Nat
  BY <1>1, <1>2, <1>3
<1>5. /\ num <= 255
      /\ (num \div 16) % 16 = a
      /\ num % 16 = b
  BY ONLY <1>2, <1>4, Z3
<1>6. num \div 1 = num
  BY <1>4, DivOne
<1>7. num \in 0..255
  <2>1. num <= 255 /\ num \in Nat
    BY <1>4, <1>5
  <2> QED  BY ONLY <2>1
<1> QED  BY <1>5, <1>6, <1>7 DEF num, a, b

LEMMA PackedBy2 ==
  ASSUME NEW x \in [1..4 -> 0..3], NEW e \in [1..4 -> Nat],
         e[1] = x[1] * 64, e[2] = x[2] * 16, e[3] = x[3] * 4, e[4] = x[4] * 1
  PROVE  /\ Total(e) \in 0..255
         /\ (Total(e) \div 64) % 4 = x[1]
         /\ (Total(e) \div 16) % 4 = x[2]
         /\ (Total(e) \div 4) % 4 = x[3]
         /\ (Total(e) \div 1) % 4 = x[4]
<1> DEFINE num == Total(e)
           a == x[1]
           b == x[2]
           c == x[3]
           d == x[4]
<1>1. num = e[1] + e[2] + e[3] + e[4]
  BY SumsOfFew
<1>2. /\ a \in 0..3 /\ b \in 0..3 /\ c \in 0..3 /\ d \in 0..3
  OBVIOUS
<1>3. /\ e[1] = a * 64 /\ e[2] = b * 16 /\ e[3] = c * 4 /\ e[4] = d * 1
  OBVIOUS
<1> HIDE DEF num, a, b, c, d
<1>4. num = a * 64 + b * 16 + c * 4 + d /\ num \in Nat
  BY <1>1, <1>2, <1>3
<1>5. /\ num <= 255
      /\ (num \div 64) % 4 = a
      /\ (num \div 16) % 4 = b
      /\ (num \div 4) % 4 = c
      /\ num % 4 = d
  BY ONLY <1>2, <1>4, Z3
<1>6. num \div 1 = num
  BY <1>4, DivOne
<1>7. num \in 0..255
  <2>1. num <= 255 /\ num \in Nat
    BY <1>4, <1>5
  <2> QED  BY ONLY <2>1
<1> QED  BY <1>5, <1>6, <1>7 DEF num, a, b, c, d

Weighted(x, e) ==
  /\ e[1] = x[1] * 128 /\ e[2] = x[2] * 64 /\ e[3] = x[3] * 32 /\ e[4] = x[4] * 16
  /\ e[5] = x[5] * 8 /\ e[6] = x[6] * 4 /\ e[7] = x[7] * 2 /\ e[8] = x[8] * 1
BitsOf(num, x) ==
  /\ num \in 0..255
  /\ (num \div 128) % 2 = x[1] /\ (num \div 64) % 2 = x[2] /\ (num \div 32) % 2 = x[3]
  /\ (num \div 16) % 2 = x[4] /\ (num \div 8) % 2 = x[5] /\ (num \div 4) % 2 = x[6]
  /\ (num \div 2) % 2 = x[7] /\ (num \div 1) % 2 = x[8]

LEMMA PackedBy1 ==
  ASSUME NEW x \in [1..8 -> 0..1], NEW e \in [1..8 -> Nat], Weighted(x, e)
  PROVE  BitsOf(Total(e), x)
<1> DEFINE num == Total(e)
           a == x[1]
           b == x[2]
           c == x[3]
           d == x[4]
           p == x[5]
           q == x[6]
           r == x[7]
           s == x[8]
<1>1. num = e[1] + e[2] + e[3] + e[4] + e[5] + e[6] + e[7] + e[8]
  BY SumsOfFew
<1>2. /\ a \in 0..1 /\ b \in 0..1 /\ c \in 0..1 /\ d \in 0..1
      /\ p \in 0..1 /\ q \in 0..1 /\ r \in 0..1 /\ s \in 0..1
  OBVIOUS
<1>3. /\ e[1] = a * 128 /\ e[2] = b * 64 /\ e[3] = c * 32 /\ e[4] = d * 16
      /\ e[5] = p * 8 /\ e[6] = q * 4 /\ e[7] = r * 2 /\ e[8] = s * 1
  BY DEF Weighted
<1> HIDE DEF num, a, b, c, d, p, q, r, s
<1>4. num = a * 128 + b * 64 + c * 32 + d * 16 + p * 8 + q * 4 + r * 2 + s /\ num \in Nat
  BY ONLY <1>1, <1>2, <1>3
<1>5. /\ num <= 255
      /\ (num \div 128) % 2 = a
      /\ (num \div 64) % 2 = b
      /\ (num \div 32) % 2 = c
      /\ (num \div 16) % 2 = d
      /\ (num \div 8) % 2 = p
      /\ (num \div 4) % 2 = q
      /\ (num \div 2) % 2 = r
      /\ num % 2 = s
  <2>1. num <= 255
    BY ONLY <1>2, <1>4, Z3
  <2>2. (num \div 128) % 2 = a
    BY ONLY <1>2, <1>4, Z3
  <2>3. (num \div 64) % 2 = b
    BY ONLY <1>2, <1>4, Z3
  <2>4. (num \div 32) % 2 = c
    BY ONLY <1>2, <1>4, Z3
  <2>5. (num \div 16) % 2 = d
    BY ONLY <1>2, <1>4, Z3
  <2>6. (num \div 8) % 2 = p
    BY ONLY <1>2, <1>4, Z3
  <2>7. (num \div 4) % 2 = q
    BY ONLY <1>2, <1>4, Z3
  <2>8. (num \div 2) % 2 = r
    BY ONLY <1>2, <1>4, Z3
  <2>9. num % 2 = s
    BY ONLY <1>2, <1>4, Z3
  <2> QED  BY <2>1, <2>2, <2>3, <2>4, <2>5, <2>6, <2>7, <2>8, <2>9
<1>6. num \div 1 = num
  BY <1>4, DivOne
<1>7. num \in 0..255
  <2>1. num <= 255 /\ num \in Nat
    BY <1>4, <1>5
  <2> QED  BY ONLY <2>1
<1> QED  BY <1>5, <1>6, <1>7, Zenon DEF num, a, b, c, d, p, q, r, s, BitsOf

(* The fields of a byte of indices of that many bits. *)
Sizes == {1, 2, 4, 8}
Fields(x, size) == [f \in 1..8 \div size |-> x[f] * TwoTo[8 - size * f]]

LEMMA PackedField ==
  ASSUME NEW size \in Sizes, NEW x \in [1..8 \div size -> 0..TwoTo[size]-1],
         NEW j \in 1..8 \div size
  PROVE  /\ Total(Fields(x, size)) \in 0..255
         /\ (Total(Fields(x, size)) \div TwoTo[8 - size * j]) % TwoTo[size] = x[j]
<1> DEFINE e == Fields(x, size)
<1>0. size \in {1, 2, 4, 8} /\ e = [f \in 1..8 \div size |-> x[f] * TwoTo[8 - size * f]]
  BY DEF Sizes, Fields
<1> HIDE DEF e
<1> DEFINE Good(i) ==
             Total(e) \in 0..255 /\ (Total(e) \div TwoTo[8 - size * i]) % TwoTo[size] = x[i]
<1>1. CASE size = 8
  <2>1. 8 \div size = 1 /\ TwoTo[size] = 256
    BY <1>1, Bytewise
  <2>2. x \in [1..1 -> 0..255] /\ e = [f \in 1..1 |-> x[f] * TwoTo[8 - 8 * f]]
    BY <1>0, <1>1, <2>1
  <2>3. Total(e) \in 0..255 /\ (Total(e) \div 1) % 256 = x[1] /\ TwoTo[8 - 8 * 1] = 1
    BY <2>2, PackedBy8
  <2>4. Good(1)
    BY <1>1, <2>1, <2>3
  <2> HIDE DEF Good
  <2>5. j = 1
    BY <2>1
  <2> QED  BY <2>4, <2>5 DEF Good, e
<1>2. CASE size = 4
  <2>1. 8 \div size = 2 /\ TwoTo[size] = 16
    BY <1>2, Bytewise
  <2>2. x \in [1..2 -> 0..15] /\ e = [f \in 1..2 |-> x[f] * TwoTo[8 - 4 * f]]
    BY <1>0, <1>2, <2>1
  <2>3. /\ TwoTo[8 - 4 * 1] = 16 /\ TwoTo[8 - 4 * 2] = 1
    BY Bytewise
  <2>4. /\ e[1] = x[1] * 16 /\ e[2] = x[2] * 1
    <3>1. \A f \in 1..2 : e[f] = x[f] * TwoTo[8 - 4 * f]
      BY <2>2
    <3> QED  BY ONLY <2>3, <3>1
  <2>5. e \in [1..2 -> Nat]
    <3>1. ASSUME NEW f \in 1..2
          PROVE  x[f] * TwoTo[8 - 4 * f] \in Nat
      <4>1. 8 - 4 * f \in Nat
        OBVIOUS
      <4>3. x[f] \in Nat
        <5>1. x[f] \in 0..15
          BY <2>2
        <5> QED  BY ONLY <5>1
      <4>2. TwoTo[8 - 4 * f] \in Nat
        BY <4>1, TwoToTyped
      <4> QED  BY <4>2, <4>3
    <3> QED  BY <2>2, <3>1
  <2>6. /\ Total(e) \in 0..255
        /\ (Total(e) \div 16) % 16 = x[1]
        /\ (Total(e) \div 1) % 16 = x[2]
    BY <2>2, <2>4, <2>5, PackedBy4, Zenon
  <2>7. /\ Good(1) /\ Good(2)
    BY <1>2, <2>1, <2>3, <2>6
  <2> HIDE DEF Good
  <2>8. \/ j = 1 \/ j = 2
    BY <2>1
  <2>9. Good(j)
    BY <2>7, <2>8
  <2> QED  BY <2>9 DEF Good, e
<1>3. CASE size = 2
  <2>1. 8 \div size = 4 /\ TwoTo[size] = 4
    BY <1>3, Bytewise
  <2>2. x \in [1..4 -> 0..3] /\ e = [f \in 1..4 |-> x[f] * TwoTo[8 - 2 * f]]
    BY <1>0, <1>3, <2>1
  <2>3. /\ TwoTo[8 - 2 * 1] = 64 /\ TwoTo[8 - 2 * 2] = 16
        /\ TwoTo[8 - 2 * 3] = 4 /\ TwoTo[8 - 2 * 4] = 1
    BY Bytewise
  <2>4. /\ e[1] = x[1] * 64 /\ e[2] = x[2] * 16 /\ e[3] = x[3] * 4 /\ e[4] = x[4] * 1
    <3>1. \A f \in 1..4 : e[f] = x[f] * TwoTo[8 - 2 * f]
      BY <2>2
    <3> QED  BY ONLY <2>3, <3>1
  <2>5. e \in [1..4 -> Nat]
    <3>1. ASSUME NEW f \in 1..4
          PROVE  x[f] * TwoTo[8 - 2 * f] \in Nat
      <4>1. 8 - 2 * f \in Nat
        OBVIOUS
      <4>3. x[f] \in Nat
        <5>1. x[f] \in 0..3
          BY <2>2
        <5> QED  BY ONLY <5>1
      <4>2. TwoTo[8 - 2 * f] \in Nat
        BY <4>1, TwoToTyped
      <4> QED  BY <4>2, <4>3
    <3> QED  BY <2>2, <3>1
  <2>6. /\ Total(e) \in 0..255
        /\ (Total(e) \div 64) % 4 = x[1]
        /\ (Total(e) \div 16) % 4 = x[2]
        /\ (Total(e) \div 4) % 4 = x[3]
        /\ (Total(e) \div 1) % 4 = x[4]
    BY <2>2, <2>4, <2>5, PackedBy2, Zenon
  <2>7. /\ Good(1) /\ Good(2) /\ Good(3) /\ Good(4)
    BY <1>3, <2>1, <2>3, <2>6
  <2> HIDE DEF Good
  <2>8. \/ j = 1 \/ j = 2 \/ j = 3 \/ j = 4
    BY <2>1
  <2>9. Good(j)
    BY <2>7, <2>8
  <2> QED  BY <2>9 DEF Good, e
<1>4. CASE size = 1
  <2>1. 8 \div size = 8 /\ TwoTo[size] = 2
    BY <1>4, Bytewise
  <2>2. x \in [1..8 -> 0..1] /\ e = [f \in 1..8 |-> x[f] * TwoTo[8 - 1 * f]]
    BY <1>0, <1>4, <2>1
  <2>3. /\ TwoTo[8 - 1 * 1] = 128 /\ TwoTo[8 - 1 * 2] = 64
        /\ TwoTo[8 - 1 * 3] = 32 /\ TwoTo[8 - 1 * 4] = 16
        /\ TwoTo[8 - 1 * 5] = 8 /\ TwoTo[8 - 1 * 6] = 4
        /\ TwoTo[8 - 1 * 7] = 2 /\ TwoTo[8 - 1 * 8] = 1
    BY Bytewise
  <2>4. /\ e[1] = x[1] * 128 /\ e[2] = x[2] * 64 /\ e[3] = x[3] * 32 /\ e[4] = x[4] * 16
        /\ e[5] = x[5] * 8 /\ e[6] = x[6] * 4 /\ e[7] = x[7] * 2 /\ e[8] = x[8] * 1
    <3>1. \A f \in 1..8 : e[f] = x[f] * TwoTo[8 - 1 * f]
      BY <2>2
    <3> QED  BY ONLY <2>3, <3>1
  <2>5. e \in [1..8 -> Nat]
    <3>1. ASSUME NEW f \in 1..8
          PROVE  x[f] * TwoTo[8 - 1 * f] \in Nat
      <4>1. 8 - 1 * f \in Nat
        OBVIOUS
      <4>3. x[f] \in Nat
        <5>1. x[f] \in 0..1
          BY <2>2
        <5> QED  BY ONLY <5>1
      <4>2. TwoTo[8 - 1 * f] \in Nat
        BY <4>1, TwoToTyped
      <4> QED  BY <4>2, <4>3
    <3> QED  BY <2>2, <3>1
  <2>6. /\ Total(e) \in 0..255
        /\ (Total(e) \div 128) % 2 = x[1]
        /\ (Total(e) \div 64) % 2 = x[2]
        /\ (Total(e) \div 32) % 2 = x[3]
        /\ (Total(e) \div 16) % 2 = x[4]
        /\ (Total(e) \div 8) % 2 = x[5]
        /\ (Total(e) \div 4) % 2 = x[6]
        /\ (Total(e) \div 2) % 2 = x[7]
        /\ (Total(e) \div 1) % 2 = x[8]
    <3>1. x \in [1..8 -> 0..1] /\ Weighted(x, e)
      BY <2>2, <2>4, Zenon DEF Weighted
    <3>2. BitsOf(Total(e), x)
      BY <2>5, <3>1, PackedBy1, Zenon
    <3> QED  BY <3>2, Zenon DEF BitsOf
  <2>7. /\ Good(1) /\ Good(2) /\ Good(3) /\ Good(4)
        /\ Good(5) /\ Good(6) /\ Good(7) /\ Good(8)
    BY <1>4, <2>1, <2>3, <2>6
  <2> HIDE DEF Good
  <2>8. \/ j = 1 \/ j = 2 \/ j = 3 \/ j = 4
        \/ j = 5 \/ j = 6 \/ j = 7 \/ j = 8
    BY <2>1
  <2>9. Good(j)
    BY <2>7, <2>8
  <2> QED  BY <2>9 DEF Good, e
<1> QED  BY <1>0, <1>1, <1>2, <1>3, <1>4 DEF e

-----------------------------------------------------------------------------
(* The bytes of a raw pixel *)

LEMMA TwoBytes ==
  \A p \in Nat : p < 65536 => p = (p % 256) + ((p \div 256) % 256) * 256
BY Z3

LEMMA FourBytes ==
  \A p \in Nat : p < 16777216 * 256 =>
    p = (p % 256) + ((p \div 256) % 256) * 256 + ((p \div 65536) % 256) * 65536
        + ((p \div 16777216) % 256) * 16777216
BY Z3

LEMMA TwoToBytes ==
  /\ TwoTo[8 * 0] = 1 /\ TwoTo[8 * 1] = 256 /\ TwoTo[8 * 2] = 65536
  /\ TwoTo[8 * 3] = 16777216 /\ TwoTo[8 * 4] = 16777216 * 256
<1>1. TwoTo[8 + 8] = TwoTo[8] * TwoTo[8]
  BY TwoToAdds
<1>2. TwoTo[16] = 65536
  BY <1>1, Bytewise
<1>3. TwoTo[16 + 8] = TwoTo[16] * TwoTo[8] /\ TwoTo[24 + 8] = TwoTo[24] * TwoTo[8]
  BY TwoToAdds
<1>4. TwoTo[24] = 16777216
  BY <1>2, <1>3, Bytewise, SMT
<1> QED  BY <1>2, <1>3, <1>4, Bytewise, SMT

LEMMA PixelJoined ==
  ASSUME NEW f, Usable(f), NEW p \in Nat, p < TwoTo[8 * f.bytes],
         NEW bytes, NEW skip \in Nat,
         \A i \in 1..f.bytes : bytes[skip + i] = PixelBytes(p, f)[i]
  PROVE  Joined(bytes, skip, f) = p
<1> DEFINE num == f.bytes
           D(k) == ((p \div TwoTo[8 * k]) % 256) * TwoTo[8 * k]
           e == [i \in 1..num |-> bytes[skip + i] * Weight(i, f)]
           At(i) == IF f.BigEndian THEN num - i ELSE i - 1
<1>1. num \in {1, 2, 4} /\ f.BigEndian \in BOOLEAN
  BY DEF Usable
<1>2. ASSUME NEW i \in 1..num
      PROVE  e[i] = D(At(i))
  <2> DEFINE little == [k \in 1..num |-> (p \div TwoTo[8 * (k - 1)]) % 256]
  <2>1. Len(little) = num
    BY <1>1
  <2>2. PixelBytes(p, f)[i] = (p \div TwoTo[8 * At(i)]) % 256
    <3>1. CASE f.BigEndian
      <4>1. Reverse(little)[i] = little[(num - i) + 1]
        <5> HIDE DEF num
        <5> QED  BY <1>1, <2>1 DEF Reverse
      <4>2. (num - i) + 1 \in 1..num /\ ((num - i) + 1) - 1 = num - i
        BY <1>1
      <4>3. little[(num - i) + 1] = (p \div TwoTo[8 * (num - i)]) % 256
        <5> HIDE DEF num
        <5> QED  BY <4>2
      <4> QED  BY <3>1, <4>1, <4>3 DEF PixelBytes
    <3>2. CASE ~f.BigEndian
      BY <1>1, <3>2 DEF PixelBytes
    <3> QED  BY <3>1, <3>2
  <2>3. Weight(i, f) = TwoTo[8 * At(i)]
    BY DEF Weight
  <2>4. e[i] = bytes[skip + i] * Weight(i, f)
    OBVIOUS
  <2> HIDE DEF e, At
  <2> QED  BY <2>2, <2>3, <2>4
<1>3. ASSUME NEW k \in 0..3
      PROVE  D(k) \in Nat
  <2>1. TwoTo[8 * k] \in Nat \ {0}
    BY TwoToSteps
  <2>2. (p \div TwoTo[8 * k]) \in Nat
    <3> HIDE DEF D
    <3> QED  BY <2>1, DivMod
  <2>3. (p \div TwoTo[8 * k]) % 256 \in Nat
    <3>1. \A q \in Nat : q % 256 \in Nat
      OBVIOUS
    <3> QED  BY <2>2, <3>1
  <2>4. \A a, b \in Nat : a * b \in Nat
    OBVIOUS
  <2> QED  BY <2>1, <2>3, <2>4
<1>4. D(0) = p % 256 /\ D(1) = ((p \div 256) % 256) * 256
  BY TwoToBytes, DivOne
<1>5. D(2) = ((p \div 65536) % 256) * 65536 /\ D(3) = ((p \div 16777216) % 256) * 16777216
  BY TwoToBytes, SMT
<1>6. Joined(bytes, skip, f) = Total(e)
  BY DEF Joined
<1> HIDE DEF D
<1>7. e \in [1..num -> Nat]
  <2>1. ASSUME NEW i \in 1..num
        PROVE  At(i) \in 0..3
    BY <1>1
  <2>2. \A i \in 1..num : e[i] \in Nat
    BY <1>2, <1>3, <2>1
  <2>3. e = [i \in 1..num |-> e[i]]
    OBVIOUS
  <2> HIDE DEF e, num
  <2> QED  BY <2>2, <2>3
<1> HIDE DEF e
<1>8. CASE num = 1
  <2>1. Total(e) = e[1] /\ e[1] = D(0)
    <3>1. At(1) = 0 /\ 1 \in 1..num
      BY <1>8
    <3> HIDE DEF num, At
    <3> QED  BY <1>2, <1>7, <1>8, <3>1, SumsOfFew
  <2>2. p \in 0..255
    BY <1>8, TwoToBytes
  <2> QED  BY <1>4, <1>6, <2>1, <2>2, Remainder256
<1>9. CASE num = 2
  <2>1. Total(e) = e[1] + e[2]
    <3> HIDE DEF num
    <3> QED  BY <1>7, <1>9, SumsOfFew
  <2>2. e[1] = D(At(1)) /\ e[2] = D(At(2))
    BY <1>2, <1>9
  <2>3. \/ At(1) = 0 /\ At(2) = 1
        \/ At(1) = 1 /\ At(2) = 0
    BY <1>9
  <2>4. D(0) \in Nat /\ D(1) \in Nat
    BY <1>3
  <2>5. Total(e) = D(0) + D(1)
    <3> HIDE DEF At
    <3> QED  BY <2>1, <2>2, <2>3, <2>4
  <2>6. p < 65536
    BY <1>9, TwoToBytes
  <2> QED  BY <1>4, <1>6, <2>5, <2>6, TwoBytes
<1>10. CASE num = 4
  <2>1. Total(e) = e[1] + e[2] + e[3] + e[4]
    <3> HIDE DEF num
    <3> QED  BY <1>7, <1>10, SumsOfFew
  <2>2. e[1] = D(At(1)) /\ e[2] = D(At(2)) /\ e[3] = D(At(3)) /\ e[4] = D(At(4))
    BY <1>2, <1>10
  <2>3. \/ At(1) = 0 /\ At(2) = 1 /\ At(3) = 2 /\ At(4) = 3
        \/ At(1) = 3 /\ At(2) = 2 /\ At(3) = 1 /\ At(4) = 0
    BY <1>10
  <2>4. D(0) \in Nat /\ D(1) \in Nat /\ D(2) \in Nat /\ D(3) \in Nat
    BY <1>3
  <2>5. Total(e) = D(0) + D(1) + D(2) + D(3)
    <3> HIDE DEF At
    <3> QED  BY <2>1, <2>2, <2>3, <2>4
  <2>6. p < 16777216 * 256
    BY <1>10, TwoToBytes, SMT
  <2> QED  BY <1>4, <1>5, <1>6, <2>5, <2>6, FourBytes, SMT
<1> QED  BY <1>1, <1>8, <1>9, <1>10

LEMMA RawReadBack ==
  ASSUME NEW f, Usable(f), NEW c \in 0..255, f.TrueColor => c <= f.max, NEW others \in BOOLEAN
  PROVE  /\ RawPixel(c, f, others) \in Nat
         /\ RawPixel(c, f, others) < TwoTo[8 * f.bytes]
         /\ f.TrueColor \/ InColorMap(RawPixel(c, f, others))
              => RawColor(RawPixel(c, f, others), f) = c
         /\ f.TrueColor \/ f.bytes > 1 \/ InColorMap(RawPixel(c, f, others))
<1>1. CASE f.TrueColor
  <2> DEFINE S == TwoTo[f.shift]
             r == IF others THEN S - 1 ELSE 0
             m == f.max
  <2>1. PICK k \in 0..8 : m + 1 = TwoTo[k] /\ f.shift \in 0..8 * f.bytes - k
    BY <1>1 DEF Usable
  <2>2. m \in Nat /\ f.bytes \in {1, 2, 4} /\ c <= m
    BY <1>1 DEF Usable
  <2>3. f.shift \in Nat /\ k \in Nat /\ 8 * f.bytes \in Nat /\ f.shift + k <= 8 * f.bytes
        /\ f.shift + k \in Nat
    BY <2>1, <2>2
  <2>4. S \in Nat \ {0} /\ TwoTo[f.shift + k] = S * (m + 1)
        /\ TwoTo[f.shift + k] <= TwoTo[8 * f.bytes]
    <3>1. S \in Nat \ {0}
      BY <2>3, TwoToSteps
    <3>2. TwoTo[f.shift + k] = S * TwoTo[k]
      BY <2>3, TwoToAdds
    <3>3. TwoTo[f.shift + k] <= TwoTo[8 * f.bytes]
      BY <2>3, TwoToGrows
    <3> QED  BY <2>1, <3>1, <3>2, <3>3
  <2>5. r \in 0..S - 1
    <3> HIDE DEF S
    <3> QED  BY <2>4
  <2>6. RawPixel(c, f, others) = c * S + r
    BY <1>1 DEF RawPixel
  <2> DEFINE p == c * S + r
  <2>7. RawColor(p, f) = ((p \div S) % (m + 1)) % 256
    BY <1>1 DEF RawColor
  <2>8. TwoTo[8 * f.bytes] \in Nat
    BY <2>3, TwoToTyped
  <2> HIDE DEF S, r, m
  <2>9. p = S * c + r /\ p \in Nat
    BY <2>4, <2>5
  <2>10. p < S * (m + 1)
    <3>1. S * (m - c) \in Nat /\ S * (m + 1) = S * c + S + S * (m - c)
      BY <2>2, <2>4
    <3> QED  BY <2>4, <2>5, <2>9, <3>1
  <2>11. p \div S = c
    BY <2>4, <2>5, <2>9, QuotientUnique
  <2>12. c % (m + 1) = c /\ c % 256 = c
    BY <2>2, ModSmall, Remainder256
  <2> HIDE DEF p
  <2>13. p < TwoTo[8 * f.bytes]
    <3>1. S * (m + 1) \in Nat
      BY <2>2, <2>4
    <3> QED  BY <2>4, <2>8, <2>9, <2>10, <3>1
  <2> QED  BY <1>1, <2>6, <2>7, <2>9, <2>11, <2>12, <2>13 DEF p
<1>2. CASE ~f.TrueColor
  <2> DEFINE p == (c + 1) % 256
             z == 8 * f.bytes
  <2>1. f.bytes \in {1, 2, 4} /\ z \in Nat /\ 8 <= z /\ (f.bytes > 1 => 16 <= z)
    BY DEF Usable
  <2>2. p \in 0..255 /\ (p + 255) % 256 = c
    BY Z3
  <2>3. 256 <= TwoTo[z] /\ TwoTo[z] \in Nat
    <3> HIDE DEF z
    <3> QED  BY <2>1, TwoToGrows, TwoToTyped, Bytewise
  <2>4. CASE others /\ f.bytes > 1
    <3>1. RawPixel(c, f, others) = p + 256
      BY <1>2, <2>4 DEF RawPixel
    <3>2. TwoTo[16] = 65536 /\ TwoTo[16] <= TwoTo[z]
      <4>1. 16 \in Nat /\ 8 * 2 = 16
        OBVIOUS
      <4> HIDE DEF z
      <4> QED  BY <2>1, <2>4, <4>1, TwoToGrows, TwoToBytes
    <3> HIDE DEF p, z
    <3>3. p + 256 \in Nat /\ p + 256 < TwoTo[z] /\ ~(p + 256 < 256)
      BY ONLY <2>2, <2>3, <3>2
    <3> QED  BY <1>2, <2>4, <3>1, <3>3 DEF InColorMap, z
  <2>5. CASE ~(others /\ f.bytes > 1)
    <3>1. RawPixel(c, f, others) = p + 0
      BY <1>2, <2>5 DEF RawPixel
    <3>2. RawColor(p, f) = (p + 255) % 256
      BY <1>2 DEF RawColor
    <3> HIDE DEF p, z
    <3>3. p + 0 = p /\ p \in Nat /\ p < TwoTo[z] /\ p < 256
      BY ONLY <2>2, <2>3
    <3> QED  BY <2>2, <3>1, <3>2, <3>3 DEF InColorMap, z
  <2> QED  BY <2>4, <2>5
<1>3. f.TrueColor \in BOOLEAN
  BY DEF Usable
<1> QED  BY <1>1, <1>2, <1>3

-----------------------------------------------------------------------------
(* Lengths *)

(* The sum of q times m and r. *)
LEMMA TotalOfRepeats ==
  ASSUME NEW m \in Nat, NEW q \in Nat, NEW r \in Nat, NEW s \in Seq(Nat),
         Len(s) = q + 1, \A k \in 1..q : s[k] = m, s[q + 1] = r
  PROVE  Total(s) = m * q + r
<1>1. PICK sum \in [0..q + 1 -> Nat] :
        /\ sum[0] = 0
        /\ \A i \in 1..q + 1 : sum[i] = sum[i - 1] + s[i]
        /\ Total(s) = sum[q + 1]
  BY PartialSums
<1> DEFINE T == {k \in Nat : k <= q => sum[k] = m * k}
<1>2. 0 \in T
  BY <1>1
<1>3. ASSUME NEW k \in Nat, k \in T, k + 1 <= q
      PROVE  sum[k + 1] = m * (k + 1)
  <2>1. k + 1 \in 1..q /\ k + 1 \in 1..q + 1 /\ (k + 1) - 1 = k
    BY <1>3
  <2>2. sum[k + 1] = sum[k] + m
    BY <1>1, <2>1
  <2>3. sum[k] = m * k
    BY <1>3
  <2> QED  BY <2>2, <2>3
<1>4. \A k \in Nat : k \in T => k + 1 \in T
  BY <1>3
<1>5. Nat \subseteq T
  <2> HIDE DEF T
  <2> QED  BY <1>2, <1>4, NatSetInduction
<1>6. sum[q] = m * q
  BY <1>5
<1>7. q + 1 \in 1..q + 1 /\ (q + 1) - 1 = q
  OBVIOUS
<1> QED  BY <1>1, <1>6, <1>7

LEMMA NothingRest ==
  ASSUME NEW s \in Seq(Nat), NEW k \in Nat, Len(s) = k
  PROVE  Rest(s, k) = <<>>
BY DEF Rest

(* A run is read back with its length, and all of its bytes.               *)
LEMMA RunReadBack ==
  ASSUME NEW b \in Nat, NEW count \in Nat \ {0}
  PROVE  /\ RunFrom(<<b>> \o RunBytes(count), 2).count = count
         /\ RunFrom(<<b>> \o RunBytes(count), 2).rest = <<>>
         /\ (<<b>> \o RunBytes(count))[1] = b
         /\ <<b>> \o RunBytes(count) \in Seq(Nat)
<1> DEFINE q == (count - 1) \div MaxByte
           r == (count - 1) % MaxByte
           full == [i \in 1..q |-> MaxByte]
           bytes == <<b>> \o (full \o <<r>>)
           s == SubSeq(bytes, 2, q + 2)
<1>1. MaxByte \in Nat \ {0} /\ count - 1 \in Nat
  BY DataAssumption
<1>2. q \in Nat /\ r \in 0..MaxByte-1 /\ count - 1 = MaxByte * q + r
  BY <1>1, DivMod, ModRange
<1> HIDE DEF q, r
<1>3. full \in Seq(Nat) /\ Len(full) = q /\ \A k \in 1..q : full[k] = MaxByte
  <2>1. full \in [1..q -> Nat]
    BY <1>1
  <2>2. \A k \in 1..q : full[k] = MaxByte
    OBVIOUS
  <2> HIDE DEF full
  <2> QED  BY <1>2, <2>1, <2>2, Listed
<1> HIDE DEF full
<1>4. /\ bytes \in Seq(Nat) /\ Len(bytes) = q + 2 /\ bytes[1] = b /\ bytes[q + 2] = r
      /\ \A k \in 2..q + 1 : bytes[k] = MaxByte
  BY <1>1, <1>2, <1>3
<1> HIDE DEF bytes
<1>5. LastFrom(bytes, 2) = q + 2
  <2> DEFINE Ends(k) == LastOfRun(bytes[k]) /\ \A j \in 2..k - 1 : ~LastOfRun(bytes[j])
  <2>1. Ends(q + 2) /\ q + 2 \in 2..Len(bytes)
    BY <1>1, <1>2, <1>4 DEF LastOfRun
  <2>2. ASSUME NEW k \in 2..Len(bytes), Ends(k)
        PROVE  k = q + 2
    BY <1>2, <1>4, <2>2 DEF LastOfRun
  <2> HIDE DEF Ends
  <2>3. (CHOOSE k \in 2..Len(bytes) : Ends(k)) = q + 2
    BY <2>1, <2>2
  <2> QED  BY <2>3 DEF LastFrom, Ends
<1>6. s \in Seq(Nat) /\ Len(s) = q + 1 /\ \A k \in 1..q + 1 : s[k] = bytes[k + 1]
  BY <1>2, <1>4
<1> HIDE DEF s
<1>7. Total(s) = MaxByte * q + r
  <2>1. s[q + 1] = r /\ \A k \in 1..q : s[k] = MaxByte
    BY <1>2, <1>4, <1>6
  <2>2. MaxByte \in Nat /\ r \in Nat /\ q \in Nat
    BY <1>1, <1>2
  <2>3. s \in Seq(Nat) /\ Len(s) = q + 1
    BY <1>6
  <2> QED  BY ONLY <2>1, <2>2, <2>3, TotalOfRepeats
<1>8. SubSeq(bytes, q + 3, q + 2) = <<>>
  BY <1>2, <1>4
<1>9. bytes = <<b>> \o RunBytes(count)
  BY DEF bytes, full, RunBytes, q, r
<1>10. RunFrom(bytes, 2) = [count |-> 1 + Total(s), rest |-> Rest(bytes, q + 2)]
  BY <1>5 DEF RunFrom, s
<1>11. Rest(bytes, q + 2) = <<>>
  <2>1. (q + 2) + 1 = q + 3
    BY <1>2
  <2> QED  BY <1>4, <1>8, <2>1 DEF Rest
<1>12. 1 + Total(s) = count
  BY <1>1, <1>2, <1>7
<1> QED  BY <1>4, <1>9, <1>10, <1>11, <1>12

(* A compact length is read back, with all of its bytes.                   *)
LEMMA LengthReadBack ==
  ASSUME NEW l \in Lengths
  PROVE  /\ CompactLength(CompactBytes(l)).length = l
         /\ CompactLength(CompactBytes(l)).rest = <<>>
<1> DEFINE bytes == CompactBytes(l)
           Ends(i) == LastOfLength(bytes[i], i) /\ \A j \in 1..i - 1 : ~LastOfLength(bytes[j], j)
           last == CHOOSE i \in 1..3 : Ends(i)
           weight == <<1, Group, Group * Group>>
           e == [i \in 1..last |-> weight[i] * IF i = last THEN bytes[i] ELSE bytes[i] % Group]
           a == l % Group
           q == l \div Group
           b == q % Group
           c == q \div Group
<1>1. l \in Nat /\ Group \in Nat \ {0}
  BY DataAssumption
<1>2. a \in 0..Group-1 /\ q \in Nat /\ l = Group * q + a
  BY <1>1, DivMod, ModRange
<1>3. b \in 0..Group-1 /\ c \in Nat /\ q = Group * c + b
  BY <1>1, <1>2, DivMod, ModRange
<1>4. l \div (Group * Group) = c
  <2>1. Group * Group \in Nat \ {0}
    BY <1>1
  <2>2. Group * b + a \in 0..Group * Group - 1
    <3>1. Group * (Group - 1 - b) \in Nat
      BY <1>1, <1>3
    <3>2. Group * Group = Group * b + Group + Group * (Group - 1 - b)
      BY <1>1, <1>3
    <3>3. Group * b \in Nat
      BY <1>1, <1>3
    <3> HIDE DEF a, b, q, c
    <3> QED  BY <1>1, <1>2, <3>1, <3>2, <3>3
  <2>3. l = (Group * Group) * c + (Group * b + a)
    <3> HIDE DEF a, b, q, c
    <3>1. Group * q = Group * (Group * c) + Group * b
      BY <1>1, <1>3
    <3>2. Group * (Group * c) = (Group * Group) * c
      BY <1>1, <1>3
    <3> QED  BY <1>1, <1>2, <1>3, <3>1, <3>2
  <2> DEFINE d == Group * Group
             r == Group * b + a
  <2> HIDE DEF d, r, a, b, c, q
  <2>4. d \in Nat \ {0} /\ r \in 0..d-1 /\ l = d * c + r
    BY <2>1, <2>2, <2>3 DEF d, r
  <2>5. l \div d = c
    BY <1>3, <2>4, QuotientUnique
  <2> QED  BY <2>5 DEF d
<1>5. CompactLength(bytes) = [length |-> Total(e), rest |-> Rest(bytes, last)]
  BY DEF CompactLength
<1> HIDE DEF a, b, c, q
<1>6. CASE l < Group
  <2>1. bytes = <<l>>
    BY <1>6 DEF CompactBytes
  <2>2. last = 1
    <3>1. LastOfLength(bytes[1], 1)
      BY <1>6, <2>1 DEF LastOfLength
    <3>2. Ends(1) /\ ~Ends(2) /\ ~Ends(3)
      BY <3>1
    <3> HIDE DEF Ends
    <3> QED  BY <3>2
  <2>3. e[1] = l /\ e \in [1..1 -> Nat]
    <3>1. e = [i \in 1..1 |-> weight[i] * IF i = 1 THEN bytes[i] ELSE bytes[i] % Group]
      BY <2>2
    <3>2. weight[1] * bytes[1] = l
      BY <1>1, <2>1
    <3>3. \A i \in 1..1 : i = 1
      OBVIOUS
    <3> HIDE DEF e, weight, bytes
    <3>4. e = [i \in 1..1 |-> l]
      BY ONLY <3>1, <3>2, <3>3
    <3> QED  BY <1>1, <3>4
  <2> HIDE DEF e
  <2>4. Total(e) = l
    BY <2>3, SumsOfFew
  <2>5. Rest(bytes, 1) = <<>>
    <3>1. bytes \in Seq(Nat) /\ Len(bytes) = 1
      BY <1>1, <2>1
    <3> QED  BY <3>1, NothingRest
  <2> HIDE DEF bytes, last
  <2> QED  BY <1>5, <2>2, <2>4, <2>5 DEF bytes
<1>7. CASE ~(l < Group) /\ l < Group * Group
  <2>1. bytes = <<Group + a, q>>
    BY <1>7 DEF CompactBytes, a, q
  <2>2. q < Group
    <3>1. SUFFICES ASSUME q >= Group
                   PROVE  FALSE
      BY <1>1, <1>2
    <3>2. Group * (q - Group) \in Nat /\ Group * q = Group * Group + Group * (q - Group)
      BY <1>1, <1>2, <3>1
    <3>3. Group * Group \in Nat
      BY <1>1
    <3> QED  BY <1>1, <1>2, <1>7, <3>2, <3>3
  <2>3. last = 2
    <3>1. ~LastOfLength(bytes[1], 1) /\ LastOfLength(bytes[2], 2)
      BY <1>1, <1>2, <2>1, <2>2 DEF LastOfLength
    <3>2. ~Ends(1) /\ Ends(2) /\ ~Ends(3)
      BY <3>1
    <3> HIDE DEF Ends
    <3> QED  BY <3>2
  <2>4. (Group + a) % Group = a
    <3>1. Group + a = Group * 1 + a
      BY <1>1, <1>2
    <3> QED  BY <1>1, <1>2, <3>1, QuotientUnique
  <2>5. e[1] = a /\ e[2] = Group * q
    <3>1. e = [i \in 1..2 |-> weight[i] * IF i = 2 THEN bytes[i] ELSE bytes[i] % Group]
      BY <2>3
    <3>2. e[1] = weight[1] * (bytes[1] % Group) /\ e[2] = weight[2] * bytes[2]
      <4> HIDE DEF e, weight, bytes
      <4> QED  BY ONLY <3>1
    <3>3. weight[1] = 1 /\ weight[2] = Group /\ bytes[1] = Group + a /\ bytes[2] = q
      BY <2>1
    <3>4. 1 * a = a
      BY <1>2
    <3> HIDE DEF e, weight, bytes
    <3> QED  BY ONLY <2>4, <3>2, <3>3, <3>4
  <2>6. e \in [1..2 -> Nat]
    <3>1. e = [i \in 1..2 |-> e[i]]
      BY <2>3
    <3>2. Group * q \in Nat /\ a \in Nat
      BY <1>1, <1>2
    <3> HIDE DEF e
    <3> QED  BY <2>5, <3>1, <3>2
  <2> HIDE DEF e
  <2>7. Total(e) = l
    <3>1. Total(e) = e[1] + e[2]
      BY <2>6, SumsOfFew
    <3> QED  BY <1>1, <1>2, <2>5, <3>1
  <2>8. Rest(bytes, 2) = <<>>
    <3>1. Group + a \in Nat /\ q \in Nat
      BY <1>1, <1>2
    <3> HIDE DEF bytes
    <3>2. bytes \in Seq(Nat) /\ Len(bytes) = 2
      BY ONLY <2>1, <3>1
    <3> QED  BY <3>2, NothingRest
  <2> HIDE DEF bytes, last
  <2> QED  BY <1>5, <2>3, <2>7, <2>8 DEF bytes
<1>8. CASE ~(l < Group) /\ ~(l < Group * Group)
  <2>1. bytes = <<Group + a, Group + b, c>>
    BY <1>4, <1>8 DEF CompactBytes, a, b, q
  <2>2. last = 3
    <3>1. ~LastOfLength(bytes[1], 1) /\ ~LastOfLength(bytes[2], 2) /\ LastOfLength(bytes[3], 3)
      BY <1>1, <1>2, <1>3, <2>1 DEF LastOfLength
    <3>2. ~Ends(1) /\ ~Ends(2) /\ Ends(3)
      BY <3>1
    <3> HIDE DEF Ends
    <3> QED  BY <3>2
  <2>3. (Group + a) % Group = a /\ (Group + b) % Group = b
    <3>1. Group + a = Group * 1 + a /\ Group + b = Group * 1 + b
      BY <1>1, <1>2, <1>3
    <3> QED  BY <1>1, <1>2, <1>3, <3>1, QuotientUnique
  <2>4. e[1] = a /\ e[2] = Group * b /\ e[3] = (Group * Group) * c
    <3>1. e = [i \in 1..3 |-> weight[i] * IF i = 3 THEN bytes[i] ELSE bytes[i] % Group]
      BY <2>2
    <3>2. /\ e[1] = weight[1] * (bytes[1] % Group) /\ e[2] = weight[2] * (bytes[2] % Group)
          /\ e[3] = weight[3] * bytes[3]
      <4> HIDE DEF e, weight, bytes
      <4> QED  BY ONLY <3>1
    <3>3. weight[1] = 1 /\ weight[2] = Group /\ weight[3] = Group * Group
      OBVIOUS
    <3>4. bytes[1] = Group + a /\ bytes[2] = Group + b /\ bytes[3] = c
      BY <2>1
    <3>5. 1 * a = a
      BY <1>2
    <3> HIDE DEF e, weight, bytes
    <3> QED  BY ONLY <2>3, <3>2, <3>3, <3>4, <3>5
  <2>5. e \in [1..3 -> Nat]
    <3>1. e = [i \in 1..3 |-> e[i]]
      BY <2>2
    <3>2. Group * b \in Nat /\ a \in Nat /\ (Group * Group) * c \in Nat
      BY <1>1, <1>2, <1>3
    <3> HIDE DEF e
    <3> QED  BY <2>4, <3>1, <3>2
  <2> HIDE DEF e
  <2>6. Total(e) = l
    <3>1. Total(e) = e[1] + e[2] + e[3]
      BY <2>5, SumsOfFew
    <3>2. Group * q = (Group * Group) * c + Group * b
      BY <1>1, <1>3
    <3>3. Group * b \in Nat /\ a \in Nat /\ (Group * Group) * c \in Nat
      BY <1>1, <1>2, <1>3
    <3> QED  BY <1>1, <1>2, <2>4, <3>1, <3>2, <3>3
  <2>7. Rest(bytes, 3) = <<>>
    <3>1. Group + a \in Nat /\ Group + b \in Nat
      BY <1>1, <1>2, <1>3
    <3>2. bytes \in Seq(Nat) /\ Len(bytes) = 3
      BY <1>3, <2>1, <3>1
    <3> QED  BY <3>2, NothingRest
  <2> HIDE DEF bytes, last
  <2> QED  BY <1>5, <2>2, <2>6, <2>7 DEF bytes
<1> QED  BY <1>6, <1>7, <1>8

-----------------------------------------------------------------------------
(* The invariant *)

TileStages == {"tile", "raw", "solid", "packed", "runs", "palette runs", "copy"}
ZRLEStages == TileStages \cup {"row", "end"}

(* Pixel i of the picture belongs to a tile that comes before this one.    *)
Painted(i) ==
  \/ i \div picture.width < tileY
  \/ i \div picture.width < tileY + Tile /\ i % picture.width < tileX

(* The tiles before this one are there, and there is a tile to read.       *)
TilesInv ==
  /\ stage \in ZRLEStages => ~Excessive(picture)
  /\ stage = "rectangle" => tileX = 0 /\ tileY = 0
  /\ stage \in TileStages => tileX < picture.width /\ tileY < picture.height
  /\ stage = "row" => tileX >= picture.width /\ tileY < picture.height
  /\ stage = "end" => tileY >= picture.height
  /\ stage \in ZRLEStages =>
       \A i \in DOMAIN colors : Painted(i) => colors[i] = picture.at[i]

InPalette(c) == \E i \in 1..Len(palette) : palette[i] = c

(* The palette has every colour that is going to be read by its index.     *)
PaletteInv ==
  /\ palette \in Seq(0..255)
  /\ stage \in {"rectangle", "raw pixels", "pixels"} => palette = <<>>
  /\ stage = "solid" => Len(palette) = 1
  /\ stage \in {"packed", "palette runs"} => Len(palette) \in 2..127
  /\ stage \in {"solid", "packed", "palette runs"} =>
       \A k \in 0..TileArea - 1 : InPalette(Pixel(k))
  /\ stage \in {"length", "indices"} =>
       Len(palette) \in 2..256 /\ \A k \in DOMAIN colors : InPalette(picture.at[k])

(* The bits that are left in a byte are those after the index that was     *)
(* read last, in a byte that was written for this row.                     *)
BitsInv(width, size, indices) ==
  \/ bits = 0
  \/ pos % width = 0
  \/ \E j \in 1..pos % width :
       bits = 8 - size * j /\ byte = PackedByte(pos - j, width, size, indices)

TileIndices == [k \in 0..TileArea - 1 |-> IndexOf(Pixel(k), palette)]
PictureIndices == [k \in DOMAIN colors |-> IndexOf(picture.at[k], palette)]
IndexBits == IF Len(palette) = 2 THEN 1 ELSE 8

PartInv ==
  /\ stage \in {"rectangle", "raw pixels", "pixels", "palette", "length",
                "tile", "row", "end", "raw", "solid"} => pos = 0 /\ bits = 0
  /\ stage \in {"packed", "runs", "palette runs"} => pos < TileArea
  /\ stage = "packed" => BitsInv(TileWidth, BitsPerPackedPixel(Len(palette)), TileIndices)
  /\ stage = "indices" => BitsInv(picture.width, IndexBits, PictureIndices)

(* What was chosen at the start, and what it leaves to be read.            *)
FormatInv ==
  /\ picture \in Pictures /\ format \in Formats /\ Holds(format, picture)
  /\ stage = "raw pixels" => encoding = "Raw"
  /\ stage \in {"pixels", "palette", "length", "indices"} => encoding = "Tight"

DataInv ==
  /\ DataTypeOK /\ ShownSoFar /\ ReadsExactly /\ FailsOnlyFor
  /\ picture \in Pictures /\ colors = [i \in DOMAIN colors |-> colors[i]]
  /\ TilesInv /\ PaletteInv /\ PartInv

-----------------------------------------------------------------------------
(* Indices *)

(* The colours have indices of that many bits. *)
Indexed(w, h, size, indices) == \A k \in 0..w * h - 1 : indices[k] \in 0..TwoTo[size]-1

FieldIs(b, size, j, i) == b \in 0..255 /\ (b \div TwoTo[8 - size * j]) % TwoTo[size] = i

(* Every field of a packed byte is the index of a colour.                  *)
LEMMA PackedByteField ==
  ASSUME NEW w \in Nat, NEW h \in Nat, NEW size \in Sizes, NEW indices,
         Indexed(w, h, size, indices),
         NEW k \in 0..w * h - 1, NEW j \in 1..8 \div size, (k % w) + j <= w
  PROVE  FieldIs(PackedByte(k, w, size, indices), size, j, indices[k + j - 1])
<1> DEFINE num == 8 \div size
           Inside(f) == (k % w) + f <= w
           x == [f \in 1..num |-> IF Inside(f) THEN indices[k + f - 1] ELSE 0]
           e == [f \in 1..num |-> IF Inside(f) THEN indices[k + f - 1] * TwoTo[8 - size * f]
                                ELSE 0]
           y == k \div w
           column == k % w
<1>1. column \in 0..w-1 /\ y \in 0..h-1 /\ k = y * w + column
  BY GridCell
<1>2. ASSUME NEW f \in Nat \ {0}, column + f <= w
      PROVE  k + f - 1 \in 0..w * h - 1
  <2> HIDE DEF y, column
  <2>1. column + f - 1 \in 0..w-1
    BY <1>1, <1>2
  <2>2. y * w + (column + f - 1) \in 0..w * h - 1
    BY <1>1, <2>1, GridIndex
  <2>3. y * w + (column + f - 1) = k + f - 1
    BY <1>1, <1>2
  <2> QED  BY <2>2, <2>3
<1>3. num \in 1..8 /\ \A f \in 1..num : 8 - size * f \in Nat
  <2>1. 8 \div 1 = 8 /\ 8 \div 2 = 4 /\ 8 \div 4 = 2 /\ 8 \div 8 = 1
    OBVIOUS
  <2> QED  BY <2>1 DEF Sizes
<1> HIDE DEF num
<1>4. x \in [1..num -> 0..TwoTo[size]-1]
  <2>1. ASSUME NEW f \in 1..num
        PROVE  x[f] \in 0..TwoTo[size]-1
    <3>1. CASE Inside(f)
      <4>1. f \in Nat \ {0} /\ column + f <= w
        BY <3>1
      <4>2. k + f - 1 \in 0..w * h - 1
        BY <1>2, <4>1
      <4> QED  BY <3>1, <4>2 DEF Indexed
    <3>2. CASE ~Inside(f)
      <4>1. TwoTo[size] \in Nat /\ TwoTo[size] >= 1
        <5>1. size \in Nat
          BY DEF Sizes
        <5> QED  BY <5>1, TwoToTyped
      <4>2. x[f] = 0
        BY <3>2
      <4> QED  BY <4>1, <4>2
    <3> QED  BY <3>1, <3>2
  <2>2. x = [f \in 1..num |-> x[f]]
    OBVIOUS
  <2> HIDE DEF x
  <2> QED  BY <2>1, <2>2
<1>5. e = [f \in 1..num |-> x[f] * TwoTo[8 - size * f]]
  <2>1. ASSUME NEW f \in 1..num
        PROVE  e[f] = x[f] * TwoTo[8 - size * f]
    <3>1. TwoTo[8 - size * f] \in Nat
      BY <1>3, TwoToTyped
    <3>2. 0 * TwoTo[8 - size * f] = 0
      BY <3>1
    <3> QED  BY <3>2
  <2>2. e = [f \in 1..num |-> e[f]]
    OBVIOUS
  <2> HIDE DEF e, x
  <2> QED  BY <2>1, <2>2
<1>6. PackedByte(k, w, size, indices) = Total(e)
  BY DEF PackedByte, num
<1>7. j \in 1..num /\ x[j] = indices[k + j - 1]
  BY DEF num
<1> HIDE DEF x, e
<1>8. Total(e) \in 0..255 /\ (Total(e) \div TwoTo[8 - size * j]) % TwoTo[size] = x[j]
  <2>1. x \in [1..8 \div size -> 0..TwoTo[size]-1] /\ j \in 1..8 \div size
    BY <1>4, <1>7 DEF num
  <2>2. e = Fields(x, size)
    BY <1>5 DEF num, Fields
  <2> QED  BY <2>1, <2>2, PackedField
<1> QED  BY <1>6, <1>7, <1>8 DEF FieldIs

(* The index that is read is that of the next colour.                      *)
LEMMA IndexReadBack ==
  ASSUME NEW w \in Nat, NEW h \in Nat, NEW size \in Sizes, NEW indices,
         Indexed(w, h, size, indices),
         pos \in 0..w * h - 1, byte \in 0..255, bits \in 0..7, unread = <<>>,
         BitsInv(w, size, indices), ReadIndex(pos, w, size, indices)
  PROVE  /\ byte' \in 0..255 /\ bits' \in 0..7 /\ unread' = <<>>
         /\ IndexRead(size) = indices[pos]
         /\ \/ bits' = 0
            \/ (pos + 1) % w = 0
            \/ \E j \in 1..(pos + 1) % w :
                 bits' = 8 - size * j /\ byte' = PackedByte((pos + 1) - j, w, size, indices)
<1> DEFINE column == pos % w
           PB(k) == PackedByte(k, w, size, indices)
           Next1 == /\ byte' \in 0..255 /\ bits' \in 0..7 /\ unread' = <<>>
                    /\ IndexRead(size) = indices[pos]
<1>1. w \in Nat \ {0} /\ column \in 0..w-1 /\ pos \in Nat
  BY GridCell
<1>2. (pos + 1) % w = 0 \/ (pos + 1) % w = column + 1
  BY <1>1, NextColumn
<1>5. ASSUME NEW k \in 0..w * h - 1, NEW j \in 1..8 \div size, (k % w) + j <= w
      PROVE  FieldIs(PB(k), size, j, indices[k + j - 1])
  BY <1>5, PackedByteField
<1>3. CASE NewByte(bits, pos, w)
  <2>1. byte' = (<<>> \o <<PB(pos)>>)[1] /\ bits' = 8 - size /\ unread' = Tail(<<>> \o <<PB(pos)>>)
    BY <1>3 DEF ReadIndex
  <2>2. byte' = PB(pos) /\ unread' = <<>>
    <3> HIDE DEF PB
    <3> QED  BY <2>1
  <2>3. 1 \in 1..8 \div size /\ 8 - size * 1 = bits' /\ bits' \in 0..7
    <3>1. 8 \div 1 = 8 /\ 8 \div 2 = 4 /\ 8 \div 4 = 2 /\ 8 \div 8 = 1
      OBVIOUS
    <3> QED  BY <2>1, <3>1 DEF Sizes
  <2>4. PB(pos) \in 0..255
        /\ (PB(pos) \div TwoTo[8 - size * 1]) % TwoTo[size] = indices[pos + 1 - 1]
    <3>1. (pos % w) + 1 <= w
      BY <1>1
    <3> HIDE DEF PB
    <3> QED  BY <1>5, <2>3, <3>1 DEF FieldIs
  <2>5. pos + 1 - 1 = pos /\ (pos + 1) - 1 = pos
    BY <1>1
  <2>6. Next1
    <3> HIDE DEF PB
    <3> QED  BY <2>2, <2>3, <2>4, <2>5 DEF IndexRead
  <2>7. (pos + 1) % w = column + 1 => 1 \in 1..(pos + 1) % w
    BY <1>1
  <2> HIDE DEF PB, column
  <2> QED  BY <1>2, <2>2, <2>3, <2>5, <2>6, <2>7 DEF PB
<1>4. CASE ~NewByte(bits, pos, w)
  <2>1. bits # 0 /\ column # 0 /\ byte' = byte /\ bits' = bits - size /\ unread' = <<>>
    BY <1>4 DEF ReadIndex, NewByte
  <2>2. PICK j \in 1..column : bits = 8 - size * j /\ byte = PB(pos - j)
    BY <2>1 DEF BitsInv
  <2>3. /\ j + 1 \in 1..8 \div size /\ 8 - size * (j + 1) = bits' /\ bits' \in 0..7
    <3>1. 8 \div 1 = 8 /\ 8 \div 2 = 4 /\ 8 \div 4 = 2 /\ 8 \div 8 = 1
      OBVIOUS
    <3>2. j \in Nat /\ size * j <= 7
      BY <2>1, <2>2 DEF Sizes
    <3> QED  BY <2>1, <2>2, <3>1, <3>2 DEF Sizes
  <2>4. pos - j \in Nat /\ (pos - j) % w = column - j /\ j \in 0..column
    BY <1>1, ColumnBefore
  <2>5. pos - j \in 0..w * h - 1
    BY <2>4
  <2>6. ((pos - j) % w) + (j + 1) <= w
    BY <1>1, <2>4
  <2>7. (PB(pos - j) \div TwoTo[8 - size * (j + 1)]) % TwoTo[size]
          = indices[(pos - j) + (j + 1) - 1]
    <3> HIDE DEF PB
    <3> QED  BY <1>5, <2>3, <2>5, <2>6 DEF FieldIs
  <2>8. (pos - j) + (j + 1) - 1 = pos /\ (pos + 1) - (j + 1) = pos - j
    BY <1>1
  <2>9. Next1
    <3> HIDE DEF PB
    <3> QED  BY <2>1, <2>2, <2>3, <2>7, <2>8 DEF IndexRead
  <2>10. (pos + 1) % w = column + 1 => j + 1 \in 1..(pos + 1) % w
    BY <1>1, <2>4
  <2>11. byte' = PB((pos + 1) - (j + 1))
    BY <2>1, <2>2, <2>8
  <2> HIDE DEF column
  <2> QED  BY <1>2, <2>3, <2>9, <2>10, <2>11
<1> QED  BY <1>3, <1>4

-----------------------------------------------------------------------------
(* Pictures and tiles *)

LEMMA PictureFacts ==
  ASSUME picture \in Pictures
  PROVE  /\ picture.width \in Nat /\ picture.height \in Nat
         /\ Area(picture) = picture.width * picture.height /\ Area(picture) \in Nat
         /\ picture.at \in [0..Area(picture) - 1 -> 0..255]
<1>1. Shown(picture)
  BY DataAssumption
<1>2. \A v, w \in Nat : v * w \in Nat
  OBVIOUS
<1> QED  BY <1>1, <1>2 DEF Shown, Area

LEMMA SizesFit ==
  /\ Tile \in Nat /\ Tile >= 1 /\ Wrap \in Nat /\ Uncompressed \in Nat
  /\ MaxWidth \in Nat /\ MaxHeight \in Nat
  /\ MaxWidth + Tile <= Wrap /\ MaxHeight + Tile <= Wrap
BY DataAssumption

LEMMA TileFacts ==
  ASSUME picture \in Pictures, tileX \in Nat, tileY \in Nat,
         tileX < picture.width, tileY < picture.height
  PROVE  /\ TileWidth \in 1..Tile /\ TileWidth <= picture.width - tileX
         /\ TileHeight \in 1..Tile /\ TileHeight <= picture.height - tileY
         /\ TileWidth = Least(Tile, picture.width - tileX)
         /\ TileArea = TileWidth * TileHeight /\ TileArea \in 1..Tile * Tile
<1>1. TileWidth \in 1..Tile /\ TileWidth <= picture.width - tileX
      /\ TileHeight \in 1..Tile /\ TileHeight <= picture.height - tileY
  <2> DEFINE w == picture.width
             h == picture.height
  <2>1. w \in Nat /\ h \in Nat /\ Tile \in Nat /\ Tile >= 1
    BY PictureFacts, SizesFit
  <2>2. tileX < w /\ tileY < h /\ tileX \in Nat /\ tileY \in Nat
    OBVIOUS
  <2>3. TileWidth = IF Tile < w - tileX THEN Tile ELSE w - tileX
    BY DEF TileWidth, Clipped, Least
  <2>4. TileHeight = IF Tile < h - tileY THEN Tile ELSE h - tileY
    BY DEF TileHeight, Clipped, Least
  <2> HIDE DEF w, h
  <2>5. /\ TileWidth \in 1..Tile /\ TileWidth <= w - tileX
        /\ TileHeight \in 1..Tile /\ TileHeight <= h - tileY
    BY ONLY <2>1, <2>2, <2>3, <2>4
  <2> QED  BY <2>5 DEF w, h
<1>2. Tile \in Nat /\ TileWidth \in 0..Tile /\ TileHeight \in 0..Tile
  BY <1>1, SizesFit
<1>3. TileWidth * TileHeight \in Nat /\ TileWidth * TileHeight <= Tile * Tile
  BY <1>2, GridMonotone
<1>4. \A v, w \in Nat : v >= 1 /\ w >= 1 => v * w >= 1
  OBVIOUS
<1>5. TileWidth * TileHeight >= 1
  BY <1>1, <1>4
<1>6. Tile * Tile \in Nat
  BY SizesFit
<1> QED  BY <1>1, <1>3, <1>5, <1>6 DEF TileArea, TileWidth, Clipped

(* The colours of a tile are those of the picture at its place.            *)
LEMMA TilePixel ==
  ASSUME picture \in Pictures, tileX \in Nat, tileY \in Nat,
         tileX < picture.width, tileY < picture.height,
         NEW x \in 0..TileWidth - 1, NEW y \in 0..TileHeight - 1
  PROVE  /\ y * TileWidth + x \in 0..TileArea - 1
         /\ Pixel(y * TileWidth + x) = picture.at[(tileY + y) * picture.width + tileX + x]
<1>1. TileWidth \in Nat /\ TileHeight \in Nat
  BY TileFacts
<1>2. /\ y * TileWidth + x \in 0..TileWidth * TileHeight - 1
      /\ (y * TileWidth + x) % TileWidth = x /\ (y * TileWidth + x) \div TileWidth = y
  BY <1>1, GridIndex
<1>3. TileWidth = Least(Tile, picture.width - tileX)
  BY TileFacts
<1> QED  BY ONLY <1>2, <1>3 DEF TileArea, Pixel

LEMMA TilePixelTyped ==
  ASSUME picture \in Pictures, tileX \in Nat, tileY \in Nat,
         tileX < picture.width, tileY < picture.height, NEW k \in 0..TileArea - 1
  PROVE  Pixel(k) \in 0..255
<1> DEFINE x == k % TileWidth
           y == k \div TileWidth
           W == picture.width
           H == picture.height
<1>1. TileWidth \in Nat /\ TileHeight \in Nat /\ k \in 0..TileWidth * TileHeight - 1
  BY TileFacts
<1>2. x \in 0..TileWidth - 1 /\ y \in 0..TileHeight - 1
  BY <1>1, GridCell
<1>3. W \in Nat /\ H \in Nat /\ tileX + x \in 0..W - 1 /\ tileY + y \in 0..H - 1
  <2>1. W \in Nat /\ H \in Nat
    BY PictureFacts
  <2>2. TileWidth \in Nat /\ TileWidth <= W - tileX /\ TileHeight \in Nat /\ TileHeight <= H - tileY
    BY TileFacts
  <2> HIDE DEF x, y, W, H
  <2> QED  BY ONLY <1>2, <2>1, <2>2, tileX \in Nat, tileY \in Nat
<1>4. (tileY + y) * W + (tileX + x) \in 0..W * H - 1
  <2> HIDE DEF x, y, W, H
  <2> QED  BY <1>3, GridIndex
<1>5. (tileY + y) * W + (tileX + x) = (tileY + y) * W + tileX + x
  <2>1. (tileY + y) * W \in Nat
    <3> HIDE DEF x, y, W, H
    <3> QED  BY <1>3
  <2> HIDE DEF x, y, W, H
  <2> QED  BY <2>1, <1>2, <1>3
<1>6. Pixel(k) = picture.at[(tileY + y) * W + tileX + x]
  BY TileFacts DEF Pixel
<1>7. picture.at \in [0..W * H - 1 -> 0..255]
  BY PictureFacts
<1> DEFINE cell == (tileY + y) * W + tileX + x
           size == W * H - 1
<1>8. cell \in 0..size /\ Pixel(k) = picture.at[cell] /\ picture.at \in [0..size -> 0..255]
  <2> HIDE DEF x, y, W, H
  <2> QED  BY ONLY <1>4, <1>5, <1>6, <1>7, Zenon
<1>9. ASSUME NEW cells, NEW s \in [cells -> 0..255], NEW c \in cells  PROVE  s[c] \in 0..255
  BY ONLY <1>9
<1>10. picture.at[cell] \in 0..255
  <2> HIDE DEF cell, size
  <2> QED  BY ONLY <1>8, <1>9, Zenon
<1> HIDE DEF cell, size
<1> QED  BY ONLY <1>8, <1>10, Zenon

-----------------------------------------------------------------------------
(* The steps *)

LEMMA InitData == DataInit => DataInv
<1> SUFFICES ASSUME DataInit
             PROVE  DataInv
  OBVIOUS
<1>1. DataTypeOK
  BY SizesFit DEF DataInit, DataTypeOK, Ended
<1>2. ShownSoFar /\ ReadsExactly /\ FailsOnlyFor
  BY DEF DataInit, ShownSoFar, ReadsExactly, FailsOnlyFor
<1>3. picture \in Pictures /\ colors = [i \in DOMAIN colors |-> colors[i]]
  BY DEF DataInit
<1>4. TilesInv
  BY DEF DataInit, TilesInv, TileStages, ZRLEStages
<1>5. PaletteInv /\ PartInv
  BY DEF DataInit, PaletteInv, PartInv
<1> QED  BY <1>1, <1>2, <1>3, <1>4, <1>5 DEF DataInv

LEMMA InitFormat == DataInit => FormatInv
BY DEF DataInit, FormatInv

(* Nothing but the first step chooses anything, and none goes from one     *)
(* encoding to another.                                                    *)
LEMMA StepFormat == FormatInv /\ [DataNext]_dataVars => FormatInv'
<1> DEFINE Tights == {"pixels", "palette", "length", "indices"}
           Later  == /\ picture' = picture /\ chosen' = chosen
                     /\ stage' = "raw pixels" => stage = "raw pixels"
                     /\ stage' \in Tights => stage \in Tights
<1> SUFFICES ASSUME FormatInv, [DataNext]_dataVars
             PROVE  FormatInv'
  OBVIOUS
<1>1. ASSUME Later
      PROVE  FormatInv'
  BY <1>1 DEF FormatInv, chosen
<1>2. CASE ReadRectangle
  <2>1. picture' = picture /\ format' = format
    BY <1>2 DEF ReadRectangle
  <2>2. stage' = "raw pixels" => encoding' = "Raw"
    BY <1>2 DEF ReadRectangle, FirstStage, NextTileIn
  <2>3. stage' \in Tights => encoding' = "Tight"
    BY <1>2 DEF ReadRectangle, FirstStage, NextTileIn
  <2> QED  BY <2>1, <2>2, <2>3 DEF FormatInv
<1>3. CASE ReadRawPixels
  <2>1. picture' = picture /\ chosen' = chosen /\ stage' \in {"done", "panic"}
    BY <1>3, Zenon DEF ReadRawPixels
  <2> QED  BY <1>1, <2>1
<1>4. CASE ZRLE
  <2>1. CASE ReadSubencoding
    <3>1. \A b : Kind(b) \notin {"raw pixels"} \cup Tights
      BY Zenon DEF Kind
    <3>2. picture' = picture /\ chosen' = chosen /\ \E b : stage' = Kind(b)
      BY <2>1, Zenon DEF ReadSubencoding
    <3> QED  BY <1>1, <3>1, <3>2
  <2>2. CASE ReadRaw \/ ReadSolid
    <3>1. picture' = picture /\ chosen' = chosen /\ stage' = "copy"
      BY <2>2, Zenon DEF ReadRaw, ReadSolid, TileRead
    <3> QED  BY <1>1, <3>1
  <2>3. CASE ReadPacked \/ ReadRun \/ ReadPaletteRun
    <3>1. picture' = picture /\ chosen' = chosen /\ stage' \in {"packed", stage, "copy"}
      BY <2>3, Zenon DEF ReadPacked, ReadRun, ReadPaletteRun, RunRead
    <3> QED  BY <1>1, <3>1
  <2>4. CASE CopyTile \/ EndRow
    <3>1. picture' = picture /\ chosen' = chosen /\ \E x, y : stage' = NextTileIn(x, y)
      BY <2>4, Zenon DEF CopyTile, EndRow
    <3>2. stage' \in {"tile", "row", "end"}
      BY <3>1, Zenon DEF NextTileIn
    <3> QED  BY <1>1, <3>1, <3>2
  <2>5. CASE EndOfData
    <3>1. picture' = picture /\ chosen' = chosen /\ stage' \in {"done", "failed"}
      BY <2>5, Zenon DEF EndOfData
    <3> QED  BY <1>1, <3>1
  <2> QED  BY <1>4, <2>1, <2>2, <2>3, <2>4, <2>5 DEF ZRLE
<1>5. CASE Tight
  <2>1. picture' = picture /\ chosen' = chosen /\ stage \in Tights
    BY <1>5, Zenon DEF Tight, ReadPixels, ReadPalette, ReadCompactLength, ReadIndices
  <2>2. stage' # "raw pixels"
    BY <1>5, Zenon DEF Tight, ReadPixels, ReadPalette, ReadCompactLength, ReadIndices
  <2> QED  BY <1>1, <2>1, <2>2
<1>6. CASE ConnectionBreaks
  <2>1. picture' = picture /\ chosen' = chosen /\ stage' \in {"panic", "broken"}
    BY <1>6, Zenon DEF ConnectionBreaks
  <2> QED  BY <1>1, <2>1
<1>7. CASE UNCHANGED dataVars
  <2>1. picture' = picture /\ chosen' = chosen /\ stage' = stage
    BY <1>7 DEF dataVars
  <2> QED  BY <1>1, <2>1
<1> QED  BY <1>2, <1>3, <1>4, <1>5, <1>6, <1>7 DEF DataNext

(* What a step has to show that ends the rectangle.                        *)
LEMMA LastStep ==
  ASSUME DataInv, stage' \in Ended, picture' = picture, tileX' = tileX, tileY' = tileY,
         scratch' = scratch, pos' = pos, palette' = palette, byte' = byte, bits' = bits,
         announced' = announced, length' = length, unread' = unread, colors' = colors,
         stage' = "done" => pos \in 0..Area(picture) /\ colors = picture.at,
         FailsOnlyFor'
  PROVE  DataInv'
<1>1. stage' \in {"done", "failed", "broken", "panic"}
  BY DEF Ended
<1>2. DataTypeOK'
  <2>1. /\ tileX' \in 0..Wrap - 1 /\ tileY' \in 0..Wrap - 1
        /\ byte' \in 0..255 /\ bits' \in 0..7 /\ DOMAIN scratch' = 0..Tile * Tile - 1
        /\ DOMAIN colors' = 0..Area(picture') - 1
        /\ announced' \in Lengths \cup {0} /\ length' \in Nat
    BY Zenon DEF DataInv, DataTypeOK
  <2>2. stage' = "done" => pos' \in 0..Area(picture')
    OBVIOUS
  <2> QED  BY ONLY <1>1, <2>1, <2>2, Zenon DEF DataTypeOK, Ended
<1>3. ShownSoFar' /\ ReadsExactly'
  BY <1>1, Zenon DEF DataInv, ShownSoFar, ReadsExactly
<1>4. picture' \in Pictures /\ colors' = [i \in DOMAIN colors' |-> colors'[i]]
  BY DEF DataInv
<1>5. TilesInv'
  BY <1>1, Zenon DEF TilesInv, ZRLEStages, TileStages
<1>6. PaletteInv' /\ PartInv'
  BY <1>1, Zenon DEF DataInv, PaletteInv, PartInv
<1> QED  BY <1>2, <1>3, <1>4, <1>5, <1>6 DEF DataInv

LEMMA RectangleKeeps == DataInv /\ FormatInv /\ ReadRectangle => DataInv'
<1> SUFFICES ASSUME DataInv, FormatInv, ReadRectangle
             PROVE  DataInv'
  OBVIOUS
<1>1. /\ stage = "rectangle" /\ picture \in Pictures /\ picture' = picture /\ colors' = colors
      /\ tileX' = tileX /\ tileY' = tileY /\ scratch' = scratch /\ pos' = pos
      /\ palette' = palette /\ byte' = byte /\ bits' = bits
      /\ announced' = announced /\ length' = length /\ unread' = unread
      /\ tileX = 0 /\ tileY = 0 /\ pos = 0 /\ bits = 0 /\ palette = <<>>
  BY Zenon DEF DataInv, ReadRectangle, TilesInv, PaletteInv, PartInv, tileVars, byteVars, lengthVars
<1>2. /\ stage' \in {"failed", "raw pixels", "tile", "end", "row", "pixels", "palette"}
      /\ stage' = "failed" => Excessive(picture) \/ Unsupported(encoding')
      /\ stage' \in {"tile", "end", "row"} => ~Excessive(picture) /\ stage' = NextTileIn(0, 0)
  <2>1. \/ stage' = "failed" /\ (Excessive(picture) \/ Unsupported(encoding'))
        \/ ~Excessive(picture) /\ stage' \in FirstStage(encoding')
    BY Zenon DEF ReadRectangle
  <2>2. \A e : FirstStage(e) \subseteq {"raw pixels", NextTileIn(0, 0), "pixels", "palette"}
    BY Zenon DEF FirstStage
  <2>3. NextTileIn(0, 0) \in {"tile", "end", "row"}
    BY Zenon DEF NextTileIn
  <2> QED  BY <2>1, <2>2, <2>3
<1>3. DataTypeOK'
  BY <1>1, <1>2, Zenon DEF DataInv, DataTypeOK, Ended
<1>4. ShownSoFar' /\ ReadsExactly' /\ FailsOnlyFor'
  <2>1. ShownSoFar' /\ ReadsExactly'
    BY <1>1, <1>2, Zenon DEF DataInv, ShownSoFar, ReadsExactly
  <2>2. format' = format /\ (stage' = "failed" => Excessive(picture) \/ Unsupported(encoding'))
        /\ stage' # "panic"
    BY <1>2 DEF ReadRectangle
  <2>3. 8 * format.bytes < 24 => format.bytes < 3
    <3>1. Usable(format)
      BY DataAssumption DEF FormatInv
    <3> QED  BY <3>1 DEF Usable
  <2>4. Unsupported(encoding') =>
          \/ encoding' = "Tight" /\ (picture.width > TightWidth \/ ~SimplestCase(format))
          \/ encoding' = "ZRLE" /\ format.bytes < 3
    BY <2>3 DEF Unsupported
  <2>5. FailsOnlyFor'
    BY <1>1, <2>2, <2>4, Zenon DEF FailsOnlyFor, Excessive
  <2> QED  BY <2>1, <2>5
<1>5. picture' \in Pictures /\ colors' = [i \in DOMAIN colors' |-> colors'[i]]
  BY <1>1 DEF DataInv
<1>6. TilesInv'
  <2>1. ASSUME NEW i \in DOMAIN colors
        PROVE  ~Painted(i)'
    <3>1. picture.width \in Nat /\ picture.height \in Nat
          /\ i \in 0..picture.width * picture.height - 1
      BY <1>1, PictureFacts DEF DataInv, DataTypeOK
    <3>2. i % picture.width \in 0..picture.width - 1
          /\ (i \div picture.width) \in 0..picture.height - 1
      BY ONLY <3>1, GridCell
    <3>3. ~(i \div picture.width < 0) /\ ~(i % picture.width < 0)
      BY ONLY <3>1, <3>2
    <3> QED  BY <1>1, <3>3 DEF Painted
  <2>2. picture.width \in Nat /\ picture.height \in Nat
    BY <1>1, PictureFacts
  <2>3. /\ stage' = "tile" => 0 < picture.width /\ 0 < picture.height
        /\ stage' = "row" => 0 >= picture.width /\ 0 < picture.height
        /\ stage' = "end" => 0 >= picture.height
    <3> DEFINE w == picture.width
               h == picture.height
    <3>1. stage' \in {"tile", "end", "row"} =>
            stage' = IF 0 >= h THEN "end" ELSE IF 0 < w THEN "tile" ELSE "row"
      BY <1>2, Zenon DEF NextTileIn
    <3>2. w \in Nat /\ h \in Nat
      BY <2>2
    <3> HIDE DEF w, h
    <3>3. /\ stage' = "tile" => 0 < w /\ 0 < h
          /\ stage' = "row" => 0 >= w /\ 0 < h
          /\ stage' = "end" => 0 >= h
      BY ONLY <3>1, <3>2
    <3> QED  BY ONLY <3>3 DEF w, h
  <2>4. stage' \in ZRLEStages => stage' \in {"tile", "row", "end"}
    BY <1>2, Zenon DEF TileStages, ZRLEStages
  <2>5. Excessive(picture') = Excessive(picture)
    BY <1>1
  <2> QED  BY <1>1, <1>2, <2>1, <2>3, <2>4, <2>5, Zenon DEF TilesInv, TileStages
<1>7. PaletteInv' /\ PartInv'
  BY <1>1, <1>2, Zenon DEF DataInv, PaletteInv, PartInv
<1> QED  BY <1>3, <1>4, <1>5, <1>6, <1>7 DEF DataInv

LEMMA RawPixelsKeep == DataInv /\ FormatInv /\ ReadRawPixels => DataInv'
<1> SUFFICES ASSUME DataInv, FormatInv, ReadRawPixels
             PROVE  DataInv'
  OBVIOUS
<1>1. /\ stage = "raw pixels" /\ picture \in Pictures /\ picture' = picture
      /\ tileX' = tileX /\ tileY' = tileY /\ scratch' = scratch /\ pos' = pos
      /\ palette' = palette /\ byte' = byte /\ bits' = bits
      /\ announced' = announced /\ length' = length
      /\ unread = <<>> /\ pos = 0 /\ palette = <<>>
      /\ DOMAIN colors = 0..Area(picture) - 1
  BY Zenon DEF DataInv, ReadRawPixels, DataTypeOK, ReadsExactly, PaletteInv, PartInv, tileVars,
         byteVars, lengthVars
<1> DEFINE f == format
           A == Area(picture)
           b == f.bytes
           Mapped(bytes) ==
             f.TrueColor \/ \A i \in DOMAIN colors : InColorMap(Joined(bytes, i * b, f))
           Read(bytes) == [i \in DOMAIN colors |-> RawColor(Joined(bytes, i * b, f), f)]
<1>2. PICK o \in BOOLEAN :
        /\ IF Mapped(unread \o RawBytes(picture, f, o))
           THEN stage' = "done" /\ colors' = Read(unread \o RawBytes(picture, f, o))
           ELSE stage' = "panic" /\ colors' = colors
        /\ unread' = Rest(unread \o RawBytes(picture, f, o), A * b)
  BY Zenon DEF ReadRawPixels
<1> DEFINE all == RawBytes(picture, f, o)
<1>3. Usable(f) /\ b \in {1, 2, 4}
  BY DataAssumption DEF FormatInv, Usable
<1>4. A \in Nat /\ picture.at \in [0..A - 1 -> 0..255]
  BY <1>1, PictureFacts, Zenon
<1>5. ASSUME NEW k \in 0..A - 1
      PROVE  /\ RawPixel(picture.at[k], f, o) \in Nat
             /\ RawPixel(picture.at[k], f, o) < TwoTo[8 * f.bytes]
             /\ f.TrueColor \/ InColorMap(RawPixel(picture.at[k], f, o))
                  => RawColor(RawPixel(picture.at[k], f, o), f) = picture.at[k]
             /\ f.TrueColor \/ b > 1 \/ InColorMap(RawPixel(picture.at[k], f, o))
  <2>1. picture.at[k] \in 0..255 /\ (f.TrueColor => picture.at[k] <= f.max)
    BY <1>4, Zenon DEF FormatInv, Holds
  <2> HIDE DEF f
  <2> QED  BY <1>3, <2>1, RawReadBack
<1>6. ASSUME NEW p \in Nat, NEW i \in 1..b
      PROVE  PixelBytes(p, f)[i] \in Nat
  <2> DEFINE little == [e \in 1..f.bytes |-> (p \div TwoTo[8 * (e - 1)]) % 256]
  <2>1. ASSUME NEW e \in 1..b
        PROVE  little[e] \in Nat
    <3>1. 8 * (e - 1) \in Nat
      BY <1>3
    <3>2. TwoTo[8 * (e - 1)] \in Nat \ {0}
      BY <3>1, TwoToTyped
    <3>3. (p \div TwoTo[8 * (e - 1)]) \in Nat
      BY <3>2, DivMod
    <3>4. \A y \in Nat : y % 256 \in Nat
      OBVIOUS
    <3> QED  BY <3>3, <3>4
  <2>2. b \in Nat /\ little \in [1..b -> Nat]
    <3>1. little \in [1..b -> Nat]
      BY <2>1
    <3>2. b \in Nat
      BY <1>3
    <3> QED  BY <3>1, <3>2
  <2> HIDE DEF little
  <2>3. little \in Seq(Nat) /\ Len(little) = b
    BY <2>2, Listed
  <2>4. Reverse(little)[i] = little[b - i + 1]
    BY <2>3 DEF Reverse
  <2>5. b - i + 1 \in 1..b
    BY <1>3
  <2>6. PixelBytes(p, f) = IF f.BigEndian THEN Reverse(little) ELSE little
    BY DEF PixelBytes, little
  <2> QED  BY <2>1, <2>4, <2>5, <2>6
<1>7. A * b \in Nat
  BY <1>3, <1>4
<1>8. all \in [1..A * b -> Nat]
  <2>1. ASSUME NEW j \in 1..A * b
        PROVE  all[j] \in Nat
    <3>1. j - 1 \in 0..b * A - 1 /\ b \in Nat
      BY <1>3, <1>4
    <3>2. (j - 1) % b \in 0..b - 1 /\ (j - 1) \div b \in 0..A - 1
      BY <1>4, <3>1, GridCell
    <3> DEFINE q == (j - 1) \div b
               r == (j - 1) % b
    <3>3. all[j] = PixelBytes(RawPixel(picture.at[q], f, o), f)[1 + r]
      BY DEF RawBytes
    <3> HIDE DEF q, r, all
    <3>4. 1 + r \in 1..b /\ q \in 0..A - 1
      BY <1>3, <3>2 DEF q, r
    <3> QED  BY <1>5, <1>6, <3>3, <3>4
  <2>2. all = [j \in 1..A * b |-> all[j]]
    BY DEF RawBytes
  <2> HIDE DEF all
  <2> QED  BY <2>1, <2>2
<1>9. ASSUME NEW i \in 0..A - 1
      PROVE  Joined(all, i * b, f) = RawPixel(picture.at[i], f, o)
  <2>1. ASSUME NEW e \in 1..b
        PROVE  all[i * b + e] = PixelBytes(RawPixel(picture.at[i], f, o), f)[e]
    <3>1. b \in Nat /\ e - 1 \in 0..b - 1
      BY <1>3
    <3>2. i * b + (e - 1) \in 0..b * A - 1 /\ (i * b + (e - 1)) % b = e - 1
          /\ (i * b + (e - 1)) \div b = i
      <4> DEFINE x == e - 1
                 N == Area(picture)
      <4>1. b \in Nat /\ N \in Nat /\ x \in 0..b - 1 /\ i \in 0..N - 1
        BY <1>4, <3>1
      <4> HIDE DEF x, N, b
      <4>2. i * b + x \in 0..b * N - 1 /\ (i * b + x) % b = x /\ (i * b + x) \div b = i
        BY ONLY <4>1, GridIndex
      <4> QED  BY <4>2 DEF x, N
    <3>3. i * b \in Nat /\ b * A = A * b /\ e \in Nat
      BY <1>3, <1>4
    <3> DEFINE j == i * b + e
    <3>4. j \in 1..A * b /\ j - 1 = i * b + (e - 1)
      <4> DEFINE m == i * b
                 N == A * b
      <4>1. m \in Nat /\ N \in Nat /\ e \in Nat /\ e >= 1 /\ m + (e - 1) \in 0..N - 1
        BY <1>7, <3>1, <3>2, <3>3
      <4> HIDE DEF m, N
      <4>2. m + e \in 1..N /\ (m + e) - 1 = m + (e - 1)
        BY ONLY <4>1
      <4> QED  BY ONLY <4>2 DEF m, N
    <3>5. all[j] = PixelBytes(RawPixel(picture.at[(j - 1) \div b], f, o), f)[1 + ((j - 1) % b)]
      BY <3>4 DEF RawBytes
    <3>6. 1 + (e - 1) = e
      BY <3>3
    <3> HIDE DEF j, all
    <3>7. all[j] = PixelBytes(RawPixel(picture.at[i], f, o), f)[e]
      BY ONLY <3>2, <3>4, <3>5, <3>6
    <3> QED  BY <3>7 DEF j
  <2>2. i * b \in Nat
    BY <1>3
  <2> HIDE DEF all
  <2> QED  BY <1>3, <1>5, <2>1, <2>2, PixelJoined
<1>10. all \in Seq(Nat) /\ Len(all) = A * b
  <2> HIDE DEF all
  <2> QED  BY <1>7, <1>8, Listed
<1>11. unread \o all = all
  <2> HIDE DEF all
  <2>1. <<>> \o all = all
    BY <1>10, ConcatEmptySeq
  <2> QED  BY <1>1, <2>1, Zenon
<1>12. /\ Mapped(all) => stage' = "done" /\ colors' = Read(all)
       /\ ~Mapped(all) => stage' = "panic" /\ colors' = colors
       /\ unread' = Rest(all, A * b)
  <2> HIDE DEF Mapped, Read, A, b
  <2> QED  BY <1>2, <1>11, Zenon
<1> HIDE DEF all
<1>13. unread' = <<>>
  BY <1>7, <1>10, <1>12, NothingRest
<1> HIDE DEF A, b
<1>14. CASE Mapped(all)
  <2>1. stage' = "done"
        /\ colors' = [i \in 0..A - 1 |-> RawColor(Joined(all, i * b, f), f)]
    BY <1>1, <1>12, <1>14, Zenon DEF A
  <2>2. ASSUME NEW i \in 0..A - 1
        PROVE  RawColor(Joined(all, i * b, f), f) = picture.at[i]
    BY <1>1, <1>5, <1>9, <1>14, Zenon DEF A
  <2>3. colors' = picture.at
    <3>1. colors' = [i \in 0..A - 1 |-> picture.at[i]]
      BY <2>1, <2>2
    <3> QED  BY <1>4, <3>1
  <2>4. DataTypeOK'
    <3>1. Area(picture') = A /\ DOMAIN colors' = 0..A - 1 /\ pos' = 0
      BY <1>1, <1>4, <2>3 DEF A
    <3>2. pos' \in 0..Area(picture') /\ DOMAIN colors' = 0..Area(picture') - 1
      BY ONLY <1>4, <3>1
    <3>3. /\ tileX' \in 0..Wrap - 1 /\ tileY' \in 0..Wrap - 1
          /\ byte' \in 0..255 /\ bits' \in 0..7 /\ DOMAIN scratch' = 0..Tile * Tile - 1
          /\ announced' \in Lengths \cup {0} /\ length' \in Nat
      BY <1>1, Zenon DEF DataInv, DataTypeOK
    <3> QED  BY ONLY <2>1, <3>2, <3>3 DEF DataTypeOK, Ended
  <2>5. ShownSoFar' /\ ReadsExactly' /\ FailsOnlyFor'
    BY <1>1, <1>13, <2>1, <2>3, Zenon DEF DataInv, ShownSoFar, ReadsExactly, FailsOnlyFor
  <2>6. picture' \in Pictures /\ colors' = [i \in DOMAIN colors' |-> colors'[i]]
    BY <1>1, <1>4, <2>3, Zenon
  <2>7. TilesInv' /\ PaletteInv' /\ PartInv'
    BY <1>1, <2>1, Zenon DEF DataInv, TilesInv, TileStages, ZRLEStages, PaletteInv, PartInv
  <2> QED  BY <2>4, <2>5, <2>6, <2>7 DEF DataInv
<1>15. CASE ~Mapped(all)
  <2>1. stage' = "panic" /\ colors' = colors
    BY <1>12, <1>15, Zenon
  <2>2. ~f.TrueColor /\ b > 1 /\ A > 0
    <3>1. PICK i \in 0..A - 1 : ~InColorMap(Joined(all, i * b, f))
      BY <1>1, <1>15 DEF A
    <3>2. b > 1
      BY <1>5, <1>9, <1>15, <3>1, Zenon
    <3>3. A > 0
      BY ONLY <1>4, i \in 0..A - 1
    <3> QED  BY <1>15, <3>2, <3>3
  <2>3. encoding' = "Raw" /\ format' = format
    BY <1>1 DEF FormatInv, ReadRawPixels, chosen
  <2>4. FailsOnlyFor'
    BY <1>1, <2>1, <2>2, <2>3, Zenon DEF FailsOnlyFor, A, b
  <2> QED  BY <1>1, <1>13, <2>1, <2>4, LastStep DEF Ended
<1> QED  BY <1>14, <1>15

LEMMA TilesStay ==
  ASSUME picture' = picture, tileX' = tileX, tileY' = tileY
  PROVE  /\ TileWidth' = TileWidth /\ TileHeight' = TileHeight /\ TileArea' = TileArea
         /\ \A k : Pixel(k)' = Pixel(k)
         /\ \A i : Painted(i)' = Painted(i)
BY DEF TileWidth, TileHeight, TileArea, Clipped, Pixel, Painted

(* What holds of the tile while it is read. *)
LEMMA TileRange ==
  ASSUME DataInv, stage \in TileStages
  PROVE  /\ picture \in Pictures /\ unread = <<>> /\ length = announced /\ palette \in Seq(0..255)
         /\ tileX \in 0..Wrap - 1 /\ tileY \in 0..Wrap - 1
         /\ tileX < picture.width /\ tileY < picture.height
         /\ TileArea \in 1..Tile * Tile /\ DOMAIN scratch = 0..Tile * Tile - 1
         /\ Tile * Tile \in Nat /\ TileArea \in Nat
         /\ \A k \in 0..TileArea - 1 : Pixel(k) \in 0..255
<1>1. /\ picture \in Pictures /\ unread = <<>> /\ length = announced /\ palette \in Seq(0..255)
      /\ tileX \in 0..Wrap - 1 /\ tileY \in 0..Wrap - 1
      /\ DOMAIN scratch = 0..Tile * Tile - 1
  BY Zenon DEF DataInv, DataTypeOK, ReadsExactly, PaletteInv
<1>2. tileX < picture.width /\ tileY < picture.height
  BY DEF DataInv, TilesInv
<1>3. tileX \in Nat /\ tileY \in Nat
  BY <1>1, SizesFit
<1>4. TileArea \in 1..Tile * Tile
  BY <1>1, <1>2, <1>3, TileFacts
<1>5. Tile * Tile \in Nat
  BY SizesFit
<1>6. TileArea \in Nat
  BY ONLY <1>4, <1>5
<1> QED  BY <1>1, <1>2, <1>3, <1>4, <1>5, <1>6, TilePixelTyped

(* What a step within a tile has to show.                                  *)
LEMMA TileStep ==
  ASSUME DataInv, stage \in TileStages, stage' \in TileStages \ {"tile", "raw", "solid"},
         picture' = picture, colors' = colors, tileX' = tileX, tileY' = tileY,
         palette' = palette, announced' = announced, length' = length,
         DOMAIN scratch' = DOMAIN scratch, unread' = <<>>,
         byte' \in 0..255, bits' \in 0..7, pos' \in 0..TileArea,
         stage' # "copy" => pos' < TileArea /\ stage' = stage,
         \A k \in 0..(IF stage' = "copy" THEN TileArea ELSE pos') - 1 : scratch'[k] = Pixel(k),
         stage' = "packed" => BitsInv(TileWidth, BitsPerPackedPixel(Len(palette)), TileIndices)'
  PROVE  DataInv'
<1>1. TileWidth' = TileWidth /\ TileHeight' = TileHeight /\ TileArea' = TileArea
      /\ (\A k : Pixel(k)' = Pixel(k)) /\ \A i : Painted(i)' = Painted(i)
  BY TilesStay
<1>2. TileArea \in Nat /\ picture \in Pictures /\ length = announced
  <2>1. Tile * Tile \in Nat
    BY SizesFit
  <2> QED  BY <2>1, TileRange
<1>3. stage' \in {"packed", "runs", "palette runs", "copy"}
  BY Zenon DEF TileStages
<1>4. DataTypeOK'
  <2>1. /\ tileX' \in 0..Wrap - 1 /\ tileY' \in 0..Wrap - 1
        /\ DOMAIN scratch' = 0..Tile * Tile - 1 /\ DOMAIN colors' = 0..Area(picture') - 1
        /\ announced' \in Lengths \cup {0} /\ length' \in Nat
    BY Zenon DEF DataInv, DataTypeOK
  <2> QED  BY <1>1, <1>3, <2>1, Zenon DEF DataTypeOK, Ended
<1>5. ShownSoFar'
  BY <1>1, <1>3, Zenon DEF ShownSoFar
<1>6. ReadsExactly' /\ FailsOnlyFor'
  BY <1>2, <1>3, Zenon DEF ReadsExactly, FailsOnlyFor
<1>7. picture' \in Pictures /\ colors' = [i \in DOMAIN colors' |-> colors'[i]]
  BY DEF DataInv
<1>8. TilesInv'
  BY <1>1, <1>3, Zenon DEF DataInv, TilesInv, ZRLEStages, TileStages
<1>9. PaletteInv'
  BY <1>1, <1>3, Zenon DEF DataInv, PaletteInv, InPalette
<1>10. PartInv'
  BY <1>1, <1>3, Zenon DEF PartInv
<1> QED  BY <1>4, <1>5, <1>6, <1>7, <1>8, <1>9, <1>10 DEF DataInv

(* A byte, and then a palette. *)
LEMMA PaletteReadBack ==
  ASSUME NEW b \in Nat, NEW p \in Seq(0..255)
  PROVE  /\ (<<>> \o <<b>> \o p)[1] = b
         /\ SubSeq(<<>> \o <<b>> \o p, 2, Len(p) + 1) = p
         /\ Rest(<<>> \o <<b>> \o p, Len(p) + 1) = <<>>
<1> DEFINE s == <<b>> \o p
           num == Len(p)
<1>1. num \in Nat /\ p \in Seq(Nat) /\ \A i \in 1..num : p[i] \in Nat
  <2>1. num \in Nat /\ \A i \in 1..num : p[i] \in 0..255
    BY LenProperties, ElementOfSeq
  <2>2. p \in [1..num -> Nat]
    <3>1. p \in [1..num -> 0..255]
      BY LenProperties
    <3>2. 0..255 \subseteq Nat
      OBVIOUS
    <3> HIDE DEF num
    <3> QED  BY ONLY <3>1, <3>2
  <2>3. p \in Seq(Nat)
    <3> HIDE DEF num
    <3> QED  BY <2>1, <2>2, Listed
  <2> QED  BY <2>1, <2>3
<1>2. <<>> \o <<b>> = <<b>> /\ <<b>> \in Seq(Nat) /\ Len(<<b>>) = 1 /\ <<b>>[1] = b
  OBVIOUS
<1>3. s \in Seq(Nat) /\ Len(s) = num + 1 /\ s[1] = b /\ \A i \in 1..num : s[i + 1] = p[i]
  <2>1. s \in Seq(Nat) /\ Len(s) = Len(<<b>>) + Len(p)
        /\ \A i \in 1..Len(<<b>>) + Len(p) :
             s[i] = IF i <= Len(<<b>>) THEN <<b>>[i] ELSE p[i - Len(<<b>>)]
    BY <1>1, <1>2, ConcatProperties
  <2>2. \A i \in 1..1 + num : s[i] = IF i <= 1 THEN <<b>>[i] ELSE p[i - 1]
    BY <1>2, <2>1
  <2> HIDE DEF s, num
  <2>3. Len(s) = num + 1
    BY <1>1, <1>2, <2>1 DEF num
  <2>4. s[1] = b
    BY <1>1, <1>2, <2>2
  <2>5. ASSUME NEW i \in 1..num
        PROVE  s[i + 1] = p[i]
    <3>1. i + 1 \in 1..1 + num /\ ~(i + 1 <= 1) /\ (i + 1) - 1 = i
      BY <1>1
    <3> QED  BY ONLY <2>2, <3>1
  <2> QED  BY <2>1, <2>3, <2>4, <2>5
<1> HIDE DEF s
<1>4. SubSeq(s, 2, num + 1) = p
  <2>1. /\ SubSeq(s, 2, num + 1) \in Seq(Nat) /\ Len(SubSeq(s, 2, num + 1)) = num
        /\ \A i \in 1..num : SubSeq(s, 2, num + 1)[i] = s[i + 1]
    BY <1>1, <1>3
  <2>2. \A i \in 1..num : SubSeq(s, 2, num + 1)[i] = p[i]
    BY <1>3, <2>1
  <2> QED  BY <1>1, <2>1, <2>2, SeqEqual
<1>5. Rest(s, num + 1) = <<>>
  BY <1>1, <1>3, NothingRest
<1>6. <<>> \o <<b>> \o p = s
  BY <1>2 DEF s
<1> QED  BY <1>3, <1>4, <1>5, <1>6

(* What follows a byte that says how large the palette is. *)
SaysSize(b, size) ==
  /\ b \in Nat /\ b % 128 = size
  /\ Kind(b) \in {"raw", "solid", "packed", "runs", "palette runs"}
  /\ Kind(b) \in {"raw", "runs"} => size = 0
  /\ Kind(b) = "solid" => size = 1
  /\ Kind(b) \in {"packed", "palette runs"} => size \in 2..127

LEMMA Kinds ==
  ASSUME NEW size \in 0..127, NEW runs \in BOOLEAN, runs => size # 1, NEW b,
         b = size + IF runs THEN 128 ELSE 0
  PROVE  SaysSize(b, size)
<1>1. CASE runs
  <2>1. b = size + 128 /\ size # 1
    BY <1>1
  <2> QED  BY <2>1 DEF Kind, SaysSize
<1>2. CASE ~runs
  <2>1. b = size
    BY <1>2
  <2> QED  BY <2>1 DEF Kind, SaysSize
<1> QED  BY <1>1, <1>2, Zenon

LEMMA SubencodingKeeps == DataInv /\ ReadSubencoding => DataInv'
<1> SUFFICES ASSUME DataInv, ReadSubencoding
             PROVE  DataInv'
  OBVIOUS
<1>1. /\ stage = "tile" /\ picture' = picture /\ colors' = colors
      /\ tileX' = tileX /\ tileY' = tileY /\ scratch' = scratch /\ pos' = 0
      /\ byte' = byte /\ bits' = bits /\ announced' = announced /\ length' = length
      /\ bits = 0
  BY DEF DataInv, ReadSubencoding, PartInv, byteVars, lengthVars
<1>2. /\ picture \in Pictures /\ unread = <<>> /\ length = announced
      /\ tileX \in 0..Wrap - 1 /\ tileY \in 0..Wrap - 1
      /\ tileX < picture.width /\ tileY < picture.height
      /\ TileArea \in 1..Tile * Tile /\ DOMAIN scratch = 0..Tile * Tile - 1
      /\ \A k \in 0..TileArea - 1 : Pixel(k) \in 0..255
  BY <1>1, TileRange DEF TileStages
<1>3. PICK p \in Palettes, runs \in BOOLEAN :
        /\ p = <<>> \/ \A c \in Colours : \E i \in 1..Len(p) : p[i] = c
        /\ Len(p) < 128 /\ (runs => Len(p) # 1)
        /\ LET bytes == unread \o <<Len(p) + IF runs THEN 128 ELSE 0>> \o p
               size  == bytes[1] % 128
           IN  /\ stage' = Kind(bytes[1])
               /\ palette' = SubSeq(bytes, 2, size + 1)
               /\ unread' = Rest(bytes, size + 1)
  BY DEF ReadSubencoding
<1>4. p \in Seq(0..255) /\ Len(p) \in 0..127
  <2>1. p \in Seq(0..255)
    BY DataAssumption
  <2>2. Len(p) \in Nat
    BY <2>1, LenProperties
  <2>3. Len(p) < 128
    BY <1>3
  <2>4. Len(p) \in 0..127
    <3> DEFINE num == Len(p)
    <3>1. num \in Nat /\ num < 128
      BY <2>2, <2>3
    <3> HIDE DEF num
    <3>2. num \in 0..127
      BY ONLY <3>1
    <3> QED  BY ONLY <3>2 DEF num
  <2> QED  BY <2>1, <2>4
<1> DEFINE b == Len(p) + IF runs THEN 128 ELSE 0
<1>5. /\ b \in Nat /\ b % 128 = Len(p)
      /\ Kind(b) \in {"raw", "solid", "packed", "runs", "palette runs"}
      /\ Kind(b) \in {"raw", "runs"} => Len(p) = 0
      /\ Kind(b) = "solid" => Len(p) = 1
      /\ Kind(b) \in {"packed", "palette runs"} => Len(p) \in 2..127
  <2>1. runs => Len(p) # 1
    BY <1>3
  <2>2. b = Len(p) + IF runs THEN 128 ELSE 0
    OBVIOUS
  <2>3. Len(p) \in 0..127 /\ runs \in BOOLEAN
    BY <1>4
  <2> DEFINE size == Len(p)
  <2> HIDE DEF b
  <2>4. SaysSize(b, size)
    <3>1. size \in 0..127 /\ runs \in BOOLEAN /\ (runs => size # 1)
          /\ b = size + IF runs THEN 128 ELSE 0
      BY <2>1, <2>2, <2>3
    <3> HIDE DEF size
    <3> QED  BY ONLY <3>1, Kinds
  <2> QED  BY ONLY <2>4 DEF SaysSize
<1>6. stage' = Kind(b) /\ palette' = p /\ unread' = <<>>
  <2>1. LET bytes == <<>> \o <<b>> \o p
            size  == bytes[1] % 128
        IN  /\ stage' = Kind(bytes[1])
            /\ palette' = SubSeq(bytes, 2, size + 1)
            /\ unread' = Rest(bytes, size + 1)
    BY <1>2, <1>3
  <2> HIDE DEF b
  <2>2. /\ (<<>> \o <<b>> \o p)[1] = b
        /\ SubSeq(<<>> \o <<b>> \o p, 2, Len(p) + 1) = p
        /\ Rest(<<>> \o <<b>> \o p, Len(p) + 1) = <<>>
    BY <1>4, <1>5, PaletteReadBack, Zenon
  <2> QED  BY <1>5, <2>1, <2>2, Zenon
<1>7. TileWidth' = TileWidth /\ TileHeight' = TileHeight /\ TileArea' = TileArea
      /\ (\A k : Pixel(k)' = Pixel(k)) /\ \A i : Painted(i)' = Painted(i)
  BY <1>1, TilesStay
<1> HIDE DEF b
<1>8. stage' \in {"raw", "solid", "packed", "runs", "palette runs"}
  BY <1>5, <1>6, Zenon
<1>9. TileArea \in Nat /\ TileArea >= 1
  <2>1. TileArea \in Nat /\ Tile * Tile \in Nat
    BY <1>1, TileRange DEF TileStages
  <2> QED  BY ONLY <1>2, <2>1
<1>10. DataTypeOK'
  <2>1. /\ DOMAIN colors' = 0..Area(picture') - 1 /\ byte' \in 0..255 /\ bits' \in 0..7
        /\ announced' \in Lengths \cup {0} /\ length' \in Nat
    BY <1>1 DEF DataInv, DataTypeOK
  <2>2. /\ tileX' \in 0..Wrap - 1 /\ tileY' \in 0..Wrap - 1
        /\ DOMAIN scratch' = 0..Tile * Tile - 1
    BY <1>1, <1>2
  <2>3. pos' \in 0..TileArea'
    BY ONLY <1>1, <1>7, <1>9
  <2> QED  BY ONLY <1>8, <2>1, <2>2, <2>3, Zenon DEF DataTypeOK, Ended
<1>11. ShownSoFar' /\ ReadsExactly' /\ FailsOnlyFor'
  <2>1. ShownSoFar'
    <3>1. pos' = 0
      BY <1>1
    <3>2. \A k \in 0..pos' - 1 : FALSE
      BY ONLY <3>1
    <3> QED  BY ONLY <1>8, <3>2, Zenon DEF ShownSoFar
  <2>2. ReadsExactly' /\ FailsOnlyFor'
    BY <1>1, <1>2, <1>6, <1>8, Zenon DEF ReadsExactly, FailsOnlyFor
  <2> QED  BY <2>1, <2>2
<1>12. picture' \in Pictures /\ colors' = [i \in DOMAIN colors' |-> colors'[i]]
  BY <1>1, <1>2 DEF DataInv
<1>13. TilesInv'
  BY <1>1, <1>7, <1>8, Zenon DEF DataInv, TilesInv, ZRLEStages, TileStages
<1>14. PaletteInv'
  <2>1. stage' \in {"solid", "packed", "palette runs"} => p # <<>>
    <3>1. p = <<>> => Len(p) = 0
      BY <1>4, EmptySeq
    <3>2. stage' \in {"solid", "packed", "palette runs"} => Len(p) = 1 \/ Len(p) \in 2..127
      BY ONLY <1>5, <1>6, Zenon
    <3>3. \A num : num = 1 \/ num \in 2..127 => num # 0
      OBVIOUS
    <3> QED  BY ONLY <3>1, <3>2, <3>3, Zenon
  <2>2. ASSUME p # <<>>, NEW k \in 0..TileArea - 1
        PROVE  InPalette(Pixel(k))'
    <3>1. Pixel(k) \in Colours
      BY DEF Colours
    <3>2. \E i \in 1..Len(p) : p[i] = Pixel(k)
      BY <1>3, <2>2, <3>1
    <3> QED  BY <1>6, <1>7, <3>2 DEF InPalette
  <2> QED  BY <1>4, <1>5, <1>6, <1>7, <1>8, <2>1, <2>2, Zenon DEF PaletteInv
<1>15. PartInv'
  <2>1. pos' = 0 /\ bits' = 0
    BY <1>1
  <2>2. pos' < TileArea'
    BY ONLY <1>7, <1>9, <2>1
  <2>3. BitsInv(TileWidth, BitsPerPackedPixel(Len(palette)), TileIndices)'
    BY <2>1 DEF BitsInv
  <2> QED  BY ONLY <1>8, <2>1, <2>2, <2>3, Zenon DEF PartInv
<1> QED  BY <1>10, <1>11, <1>12, <1>13, <1>14, <1>15 DEF DataInv

LEMMA RawKeeps == DataInv /\ ReadRaw => DataInv'
<1> SUFFICES ASSUME DataInv, ReadRaw
             PROVE  DataInv'
  OBVIOUS
<1> DEFINE written == [k \in 1..TileArea |-> Pixel(k - 1)]
           read == [i \in DOMAIN scratch |->
                      IF i < TileArea THEN written[i + 1] ELSE scratch[i]]
<1>1. stage = "raw" /\ stage \in TileStages
  BY DEF ReadRaw, TileStages
<1>2. /\ unread = <<>> /\ TileArea \in 1..Tile * Tile /\ DOMAIN scratch = 0..Tile * Tile - 1
      /\ \A k \in 0..TileArea - 1 : Pixel(k) \in 0..255
  BY <1>1, TileRange
<1>3. Tile * Tile \in Nat /\ TileArea \in Nat
  BY <1>1, TileRange
<1>4. written \in [1..TileArea -> Nat]
  <2>1. ASSUME NEW k \in 1..TileArea
        PROVE  Pixel(k - 1) \in Nat
    <3>1. k - 1 \in 0..TileArea - 1
      BY <1>3
    <3>2. Pixel(k - 1) \in 0..255
      BY <1>2, <3>1
    <3> QED  BY ONLY <3>2
  <2> QED  BY <2>1
<1>5. written \in Seq(Nat) /\ Len(written) = TileArea
  <2> HIDE DEF written
  <2> QED  BY <1>3, <1>4, Listed
<1>6. unread \o written = written
  <2> HIDE DEF written
  <2> QED  BY <1>2, <1>5, ConcatEmptySeq
<1>7. TileRead(read, Rest(written, TileArea))
  BY <1>6 DEF ReadRaw
<1>8. Rest(written, TileArea) = <<>>
  <2> HIDE DEF written
  <2> QED  BY <1>3, <1>5, NothingRest
<1>9. ASSUME NEW k \in 0..TileArea - 1
      PROVE  read[k] = Pixel(k)
  <2>1. k \in DOMAIN scratch /\ k < TileArea /\ k + 1 \in 1..TileArea /\ (k + 1) - 1 = k
    BY <1>2, <1>3
  <2> QED  BY <2>1
<1>10. DOMAIN read = DOMAIN scratch
  OBVIOUS
<1> HIDE DEF read, written
<1>11. /\ stage' = "copy" /\ scratch' = read /\ unread' = <<>>
       /\ picture' = picture /\ colors' = colors /\ tileX' = tileX /\ tileY' = tileY /\ pos' = pos
       /\ palette' = palette /\ byte' = byte /\ bits' = bits
       /\ announced' = announced /\ length' = length
  BY <1>7, <1>8 DEF TileRead, byteVars, lengthVars
<1>12. byte \in 0..255 /\ bits \in 0..7 /\ pos = 0
  BY <1>1 DEF DataInv, DataTypeOK, PartInv
<1>13. pos' \in 0..TileArea
  BY <1>3, <1>11, <1>12
<1>14. stage' \in TileStages \ {"tile", "raw", "solid"}
  BY <1>11 DEF TileStages
<1> QED  BY <1>1, <1>9, <1>10, <1>11, <1>12, <1>13, <1>14, TileStep

LEMMA SolidKeeps == DataInv /\ ReadSolid => DataInv'
<1> SUFFICES ASSUME DataInv, ReadSolid
             PROVE  DataInv'
  OBVIOUS
<1>1. stage = "solid" /\ stage \in TileStages
  BY DEF ReadSolid, TileStages
<1>2. /\ unread = <<>> /\ TileArea \in 1..Tile * Tile /\ DOMAIN scratch = 0..Tile * Tile - 1
  BY <1>1, TileRange
<1>3. Tile * Tile \in Nat /\ TileArea \in Nat
  BY <1>1, TileRange
<1> DEFINE read == [i \in DOMAIN scratch |->
                      IF i \in 0..0 + TileArea - 1 THEN palette[1] ELSE scratch[i]]
<1>4. FillColor(scratch, 0, TileArea, palette[1]) = read
  BY <1>3, Fills
<1>5. ASSUME NEW k \in 0..TileArea - 1
      PROVE  read[k] = Pixel(k)
  <2>1. k \in DOMAIN scratch /\ k \in 0..0 + TileArea - 1
    BY <1>2, <1>3
  <2>2. Len(palette) = 1 /\ InPalette(Pixel(k))
    BY <1>1 DEF DataInv, PaletteInv
  <2>3. palette[1] = Pixel(k)
    BY <2>2 DEF InPalette
  <2> QED  BY <2>1, <2>3
<1>6. DOMAIN read = DOMAIN scratch
  OBVIOUS
<1> HIDE DEF read
<1>7. /\ stage' = "copy" /\ scratch' = read /\ unread' = <<>>
      /\ picture' = picture /\ colors' = colors /\ tileX' = tileX /\ tileY' = tileY /\ pos' = pos
      /\ palette' = palette /\ byte' = byte /\ bits' = bits
      /\ announced' = announced /\ length' = length
  BY <1>2, <1>4 DEF ReadSolid, TileRead, byteVars, lengthVars
<1>8. byte \in 0..255 /\ bits \in 0..7 /\ pos = 0
  BY <1>1 DEF DataInv, DataTypeOK, PartInv
<1>9. pos' \in 0..TileArea
  BY <1>3, <1>7, <1>8
<1>10. stage' \in TileStages \ {"tile", "raw", "solid"}
  BY <1>7 DEF TileStages
<1> QED  BY <1>1, <1>5, <1>6, <1>7, <1>8, <1>9, <1>10, TileStep

(* A run of the colour that comes next.                                    *)
LEMMA RunKeeps ==
  ASSUME DataInv, stage \in {"runs", "palette runs"}, NEW count \in RunsAt,
         NEW rest, rest = <<>>, RunRead(count, Pixel(pos), rest)
  PROVE  DataInv'
<1>1. stage \in TileStages
  BY Zenon DEF TileStages
<1>2. DOMAIN scratch = 0..Tile * Tile - 1
  BY <1>1, TileRange, Zenon
<1>3. Tile * Tile \in Nat /\ TileArea \in Nat /\ TileArea <= Tile * Tile
  <2>1. Tile * Tile \in Nat /\ TileArea \in Nat /\ TileArea \in 1..Tile * Tile
    BY <1>1, TileRange, Zenon
  <2> QED  BY ONLY <2>1
<1>4. pos \in 0..TileArea - 1
  <2>1. pos \in 0..TileArea
    BY Zenon DEF DataInv, DataTypeOK
  <2>2. pos < TileArea
    BY Zenon DEF DataInv, PartInv
  <2> QED  BY ONLY <1>3, <2>1, <2>2
<1>5. \A k \in 0..pos - 1 : scratch[k] = Pixel(k)
  BY Zenon DEF DataInv, ShownSoFar
<1>6. byte \in 0..255 /\ bits \in 0..7
  BY Zenon DEF DataInv, DataTypeOK
<1>7. count \in 1..TileArea - pos
  BY Zenon DEF RunsAt
<1>8. \A k \in pos..pos + count - 1 : Pixel(k) = Pixel(pos)
  BY Zenon DEF RunsAt
<1>9. pos \in Nat /\ count \in Nat /\ pos + count \in 0..TileArea
  BY ONLY <1>3, <1>4, <1>7
<1> DEFINE read == [i \in DOMAIN scratch |->
                      IF i \in pos..pos + count - 1 THEN Pixel(pos) ELSE scratch[i]]
<1>10. FillColor(scratch, pos, count, Pixel(pos)) = read
  BY ONLY <1>9, Fills
<1>11. ASSUME NEW k \in 0..(pos + count) - 1
       PROVE  read[k] = Pixel(k)
  <2>1. k \in 0..Tile * Tile - 1
    BY ONLY <1>3, <1>9, k \in 0..(pos + count) - 1
  <2>2. CASE k \in pos..pos + count - 1
    BY <1>2, <1>8, <2>1, <2>2, Zenon
  <2>3. CASE ~(k \in pos..pos + count - 1)
    <3>1. k \in 0..pos - 1
      BY ONLY <1>9, <2>3, k \in 0..(pos + count) - 1
    <3> QED  BY <1>2, <1>5, <2>1, <2>3, <3>1, Zenon
  <2> QED  BY <2>2, <2>3, Zenon
<1>12. DOMAIN read = DOMAIN scratch
  BY Zenon
<1> HIDE DEF read
<1>13. /\ scratch' = read /\ unread' = <<>> /\ pos' = pos + count
       /\ stage' = IF pos' < TileArea THEN stage ELSE "copy"
       /\ picture' = picture /\ colors' = colors /\ tileX' = tileX /\ tileY' = tileY
       /\ palette' = palette /\ byte' = byte /\ bits' = bits
       /\ announced' = announced /\ length' = length
  BY <1>10, Zenon DEF RunRead, byteVars, lengthVars
<1>14. CASE pos' < TileArea
  <2>1. stage' = stage /\ pos' = pos + count
    BY <1>13, <1>14, Zenon
  <2>2. pos' \in 0..TileArea
    BY ONLY <1>9, <2>1
  <2>3. stage' \in TileStages \ {"tile", "raw", "solid"} /\ stage' # "packed" /\ stage' # "copy"
    BY <1>1, <2>1, Zenon
  <2>4. \A k \in 0..pos' - 1 : scratch'[k] = Pixel(k)
    BY ONLY <1>11, <1>13, <2>1
  <2> QED  BY <1>1, <1>6, <1>12, <1>13, <1>14, <2>1, <2>2, <2>3, <2>4, TileStep, Zenon
<1>15. CASE ~(pos' < TileArea)
  <2>1. stage' = "copy" /\ pos' = pos + count
    BY <1>13, <1>15, Zenon
  <2>2. pos' \in 0..TileArea /\ pos + count = TileArea
    BY ONLY <1>3, <1>9, <1>15, <2>1
  <2>3. stage' \in TileStages \ {"tile", "raw", "solid"}
    BY <2>1, Zenon DEF TileStages
  <2>4. \A k \in 0..TileArea - 1 : scratch'[k] = Pixel(k)
    BY ONLY <1>11, <1>13, <2>2
  <2> QED  BY <1>1, <1>6, <1>12, <1>13, <2>1, <2>2, <2>3, <2>4, TileStep, Zenon
<1> QED  BY <1>14, <1>15, Zenon

(* Where the next run starts. *)
LEMMA RunStart ==
  ASSUME DataInv, stage \in {"packed", "runs", "palette runs"}
  PROVE  pos \in 0..TileArea - 1 /\ Pixel(pos) \in 0..255
<1>1. TileArea \in Nat /\ \A k \in 0..TileArea - 1 : Pixel(k) \in 0..255
  BY TileRange, Zenon DEF TileStages
<1>2. pos \in 0..TileArea /\ pos < TileArea
  BY Zenon DEF DataInv, DataTypeOK, PartInv
<1>3. pos \in 0..TileArea - 1
  BY ONLY <1>1, <1>2
<1> QED  BY <1>1, <1>3, Zenon

LEMMA AnyRunKeeps == DataInv /\ ReadRun => DataInv'
<1> SUFFICES ASSUME DataInv, ReadRun
             PROVE  DataInv'
  OBVIOUS
<1>1. stage = "runs"
  BY DEF ReadRun
<1>2. unread = <<>>
  BY DEF DataInv, ReadsExactly
<1>3. PICK count \in RunsAt :
        LET bytes == unread \o <<Pixel(pos)>> \o RunBytes(count)
            r     == RunFrom(bytes, 2)
        IN  RunRead(r.count, bytes[1], r.rest)
  BY DEF ReadRun
<1>4. <<>> \o <<Pixel(pos)>> = <<Pixel(pos)>>
  OBVIOUS
<1> DEFINE bytes == <<Pixel(pos)>> \o RunBytes(count)
<1>5. RunRead(RunFrom(bytes, 2).count, bytes[1], RunFrom(bytes, 2).rest)
  BY <1>2, <1>3, <1>4
<1>6. Pixel(pos) \in Nat
  <2>1. Pixel(pos) \in 0..255
    BY <1>1, RunStart
  <2> QED  BY ONLY <2>1
<1>7. count \in Nat \ {0}
  <2>1. count \in 1..TileArea - pos
    BY DEF RunsAt
  <2> QED  BY ONLY <2>1
<1>8. RunFrom(bytes, 2).count = count /\ RunFrom(bytes, 2).rest = <<>> /\ bytes[1] = Pixel(pos)
  BY <1>6, <1>7, RunReadBack
<1> HIDE DEF bytes
<1>9. RunRead(count, Pixel(pos), RunFrom(bytes, 2).rest)
  BY <1>5, <1>8
<1> QED  BY <1>1, <1>8, <1>9, RunKeeps

(* The index of a colour of the palette.                                   *)
LEMMA IndexFound ==
  ASSUME NEW c, NEW p \in Seq(0..255), \E i \in 1..Len(p) : p[i] = c
  PROVE  IndexOf(c, p) \in 0..Len(p) - 1 /\ p[IndexOf(c, p) + 1] = c
<1>1. PICK i \in 1..Len(p) : p[i] = c
  OBVIOUS
<1>2. Len(p) \in Nat
  BY LenProperties
<1>3. i - 1 \in 0..Len(p) - 1 /\ (i - 1) + 1 = i
  BY ONLY <1>2, i \in 1..Len(p)
<1>4. \E k \in 0..Len(p) - 1 : p[k + 1] = c
  BY <1>1, <1>3
<1> QED  BY <1>4 DEF IndexOf

LEMMA PaletteRunKeeps == DataInv /\ ReadPaletteRun => DataInv'
<1> SUFFICES ASSUME DataInv, ReadPaletteRun
             PROVE  DataInv'
  OBVIOUS
<1> DEFINE index == IndexOf(Pixel(pos), palette)
<1>1. stage = "palette runs"
  BY Zenon DEF ReadPaletteRun
<1>2. unread = <<>>
  BY DEF DataInv, ReadsExactly
<1>3. PICK count \in RunsAt, long \in BOOLEAN :
        /\ count > 1 => long
        /\ LET bytes == unread \o IF long THEN <<index + 128>> \o RunBytes(count) ELSE <<index>>
               r     == IF bytes[1] >= 128 THEN RunFrom(bytes, 2)
                        ELSE [count |-> 1, rest |-> Tail(bytes)]
           IN  RunRead(r.count, palette[(bytes[1] % 128) + 1], r.rest)
  BY Zenon DEF ReadPaletteRun
<1>4. count \in Nat \ {0}
  <2>1. count \in 1..TileArea - pos
    BY DEF RunsAt
  <2> QED  BY ONLY <2>1
<1>5. index \in 0..126 /\ palette[index + 1] = Pixel(pos)
  <2>1. palette \in Seq(0..255) /\ Len(palette) \in 2..127
    BY <1>1, Zenon DEF DataInv, PaletteInv
  <2>2. \E i \in 1..Len(palette) : palette[i] = Pixel(pos)
    <3>1. pos \in 0..TileArea - 1
      BY <1>1, RunStart, Zenon
    <3>2. InPalette(Pixel(pos))
      BY <1>1, <3>1, Zenon DEF DataInv, PaletteInv
    <3> QED  BY <3>2 DEF InPalette
  <2>3. index \in 0..Len(palette) - 1 /\ palette[index + 1] = Pixel(pos)
    BY <2>1, <2>2, IndexFound
  <2> HIDE DEF index
  <2>4. index \in 0..126
    <3> DEFINE len == Len(palette)
    <3>1. index \in 0..len - 1 /\ len \in 2..127
      BY <2>1, <2>3
    <3> HIDE DEF len
    <3> QED  BY ONLY <3>1
  <2> QED  BY <2>3, <2>4
<1> HIDE DEF index
<1>6. CASE long
  <2> DEFINE bytes == <<index + 128>> \o RunBytes(count)
  <2>1. index + 128 \in Nat /\ index + 128 >= 128 /\ (index + 128) % 128 = index
    BY ONLY <1>5
  <2>2. RunFrom(bytes, 2).count = count /\ RunFrom(bytes, 2).rest = <<>>
        /\ bytes[1] = index + 128
    BY <1>4, <2>1, RunReadBack
  <2>3. bytes \in Seq(Nat)
    BY <1>4, <2>1, RunReadBack
  <2>4. <<>> \o bytes = bytes
    <3> HIDE DEF bytes
    <3> QED  BY <2>3, ConcatEmptySeq
  <2>5. LET r == IF bytes[1] >= 128 THEN RunFrom(bytes, 2)
                 ELSE [count |-> 1, rest |-> Tail(bytes)]
        IN  RunRead(r.count, palette[(bytes[1] % 128) + 1], r.rest)
    BY <1>2, <1>3, <1>6, <2>4
  <2> HIDE DEF bytes
  <2>6. RunRead(RunFrom(bytes, 2).count, palette[(bytes[1] % 128) + 1], RunFrom(bytes, 2).rest)
    BY <2>1, <2>2, <2>5
  <2>7. RunRead(count, Pixel(pos), RunFrom(bytes, 2).rest)
    BY <1>5, <2>1, <2>2, <2>6
  <2> QED  BY <1>1, <2>2, <2>7, RunKeeps, Zenon
<1>7. CASE ~long
  <2>1. count = 1
    BY <1>3, <1>4, <1>7
  <2>2. <<>> \o <<index>> = <<index>> /\ <<index>>[1] = index /\ Tail(<<index>>) = <<>>
    OBVIOUS
  <2>3. ~(index >= 128) /\ index % 128 = index
    BY ONLY <1>5
  <2>4. RunRead(1, palette[(index % 128) + 1], Tail(<<index>>))
    BY <1>2, <1>3, <1>7, <2>2, <2>3
  <2>5. RunRead(count, Pixel(pos), Tail(<<index>>))
    BY <1>5, <2>1, <2>3, <2>4
  <2> QED  BY <1>1, <2>2, <2>5, RunKeeps, Zenon
<1> QED  BY <1>6, <1>7

(* uint16 does not wrap before the last tile. *)
LEMMA NoWrap ==
  ASSUME picture \in Pictures, ~Excessive(picture)
  PROVE  /\ \A x \in Nat : x < picture.width => (x + Tile) % Wrap = x + Tile
         /\ \A y \in Nat : y < picture.height => (y + Tile) % Wrap = y + Tile
<1>1. picture.width <= MaxWidth /\ picture.height <= MaxHeight
  BY PictureFacts, SizesFit DEF Excessive
<1>2. ASSUME NEW z \in Nat, z < MaxWidth \/ z < MaxHeight
      PROVE  (z + Tile) % Wrap = z + Tile
  <2>1. z + Tile \in Nat /\ z + Tile < Wrap /\ Wrap \in Nat \ {0}
    BY <1>2, SizesFit
  <2> QED  BY <2>1, ModSmall
<1> DEFINE w == picture.width
           h == picture.height
<1>3. w \in Nat /\ h \in Nat /\ MaxWidth \in Nat /\ MaxHeight \in Nat
  BY PictureFacts, SizesFit
<1> HIDE DEF w, h
<1>4. /\ \A x \in Nat : x < w => (x + Tile) % Wrap = x + Tile
      /\ \A y \in Nat : y < h => (y + Tile) % Wrap = y + Tile
  <2>1. w <= MaxWidth /\ h <= MaxHeight
    BY <1>1 DEF w, h
  <2>2. \A z \in Nat : z < w \/ z < h => z < MaxWidth \/ z < MaxHeight
    BY ONLY <1>3, <2>1
  <2> QED  BY <1>2, <2>2
<1> QED  BY <1>4 DEF w, h

(* A pixel and the tile it belongs to.                                     *)
LEMMA CellOf ==
  ASSUME picture \in Pictures, NEW i \in 0..Area(picture) - 1
  PROVE  /\ i % picture.width \in 0..picture.width - 1
         /\ i \div picture.width \in 0..picture.height - 1
         /\ i = (i \div picture.width) * picture.width + (i % picture.width)
<1> DEFINE w == picture.width
           h == picture.height
<1>1. w \in Nat /\ h \in Nat /\ Area(picture) = w * h
  BY PictureFacts
<1>2. i \in 0..w * h - 1
  BY <1>1
<1> HIDE DEF w, h
<1>3. i % w \in 0..w - 1 /\ i \div w \in 0..h - 1 /\ i = (i \div w) * w + (i % w)
  BY ONLY <1>1, <1>2, GridCell
<1> QED  BY <1>3 DEF w, h

LEMMA CopyKeeps == DataInv /\ CopyTile => DataInv'
<1> SUFFICES ASSUME DataInv, CopyTile
             PROVE  DataInv'
  OBVIOUS
<1> DEFINE W == picture.width
           H == picture.height
           X(i) == (i % W) - tileX
           Y(i) == (i \div W) - tileY
<1>1. stage = "copy" /\ stage \in TileStages
  BY DEF CopyTile, TileStages
<1>2. /\ picture \in Pictures /\ unread = <<>> /\ length = announced
      /\ tileX < W /\ tileY < H /\ tileX \in 0..Wrap - 1 /\ tileY \in 0..Wrap - 1
  BY <1>1, TileRange
<1>3. tileX \in Nat /\ tileY \in Nat /\ W \in Nat /\ H \in Nat
  BY <1>2, SizesFit, PictureFacts
<1>4. ~Excessive(picture) /\ \A i \in DOMAIN colors : Painted(i) => colors[i] = picture.at[i]
  BY <1>1 DEF DataInv, TilesInv, ZRLEStages
<1>5. /\ picture' = picture /\ tileY' = tileY /\ tileX' = tileX + Tile
      /\ scratch' = scratch /\ pos' = 0 /\ palette' = <<>> /\ byte' = 0 /\ bits' = 0
      /\ announced' = announced /\ length' = length /\ unread' = unread
  BY <1>2, <1>3, <1>4, NoWrap DEF CopyTile, lengthVars
<1>6. colors' = [i \in DOMAIN colors |->
                   IF X(i) \in 0..TileWidth - 1 /\ Y(i) \in 0..TileHeight - 1
                   THEN scratch[Y(i) * TileWidth + X(i)] ELSE colors[i]]
  BY DEF CopyTile
<1>7. DOMAIN colors = 0..Area(picture) - 1
  BY Zenon DEF DataInv, DataTypeOK
<1>8. \A k \in 0..TileArea - 1 : scratch[k] = Pixel(k)
  BY <1>1 DEF DataInv, ShownSoFar
<1>9. /\ stage' \in {"tile", "row"}
      /\ stage' = "tile" => tileX' < W
      /\ stage' = "row" => tileX' >= W
  <2>1. stage' = IF tileY >= H THEN "end" ELSE IF tileX' < W THEN "tile" ELSE "row"
    BY DEF CopyTile, NextTileIn
  <2>2. tileX' \in Nat
    BY <1>3, <1>5, SizesFit
  <2> HIDE DEF W, H
  <2> QED  BY ONLY <1>2, <1>3, <2>1, <2>2
<1>10. ASSUME NEW i \in DOMAIN colors, Painted(i)'
       PROVE  colors'[i] = picture.at[i]
  <2>1. i % W \in 0..W - 1 /\ i \div W \in 0..H - 1 /\ i = (i \div W) * W + (i % W)
    BY <1>2, <1>7, CellOf
  <2>2. \/ i \div W < tileY
        \/ i \div W < tileY + Tile /\ i % W < tileX + Tile
    BY <1>5, <1>10 DEF Painted
  <2>3. CASE X(i) \in 0..TileWidth - 1 /\ Y(i) \in 0..TileHeight - 1
    <3>1. /\ Y(i) * TileWidth + X(i) \in 0..TileArea - 1
          /\ Pixel(Y(i) * TileWidth + X(i)) = picture.at[(tileY + Y(i)) * W + tileX + X(i)]
      BY <1>2, <1>3, <2>3, TilePixel
    <3>2. colors'[i] = scratch[Y(i) * TileWidth + X(i)]
      BY <1>6, <2>3
    <3>3. (tileY + Y(i)) * W + tileX + X(i) = i
      <4> DEFINE q == i \div W
                 r == i % W
      <4>1. q \in Nat /\ r \in Nat /\ i = q * W + r
        BY <1>3, <2>1
      <4>2. tileY + Y(i) = q /\ q * W \in Nat
        BY <1>3, <4>1
      <4> DEFINE m == q * W
      <4>3. m \in Nat /\ i = m + r /\ X(i) = r - tileX /\ r \in Nat /\ tileX \in Nat
        BY <1>3, <4>1, <4>2
      <4> HIDE DEF q, r, m, X, Y
      <4>4. m + tileX + X(i) = i
        BY ONLY <4>3
      <4> QED  BY <4>2, <4>4 DEF m
    <3> HIDE DEF X, Y
    <3> QED  BY <1>8, <3>1, <3>2, <3>3
  <2>4. CASE ~(X(i) \in 0..TileWidth - 1 /\ Y(i) \in 0..TileHeight - 1)
    <3>1. colors'[i] = colors[i]
      BY <1>6, <2>4
    <3>2. i \div W < tileY \/ (i \div W < tileY + Tile /\ i % W < tileX)
      <4> DEFINE q == i \div W
                 r == i % W
                 TW == TileWidth
                 TH == TileHeight
      <4>1. TW = (IF Tile < W - tileX THEN Tile ELSE W - tileX)
            /\ TH = IF Tile < H - tileY THEN Tile ELSE H - tileY
        BY DEF TileWidth, TileHeight, Clipped, Least
      <4>2. /\ q \in 0..H - 1 /\ r \in 0..W - 1
            /\ ~(r - tileX \in 0..TW - 1 /\ q - tileY \in 0..TH - 1)
        BY <2>1, <2>4
      <4>3. q < tileY \/ (q < tileY + Tile /\ r < tileX + Tile)
        BY <2>2
      <4>4. Tile \in Nat
        BY SizesFit
      <4> HIDE DEF q, r, TW, TH, W, H, X, Y
      <4>5. q < tileY \/ (q < tileY + Tile /\ r < tileX)
        BY ONLY <1>2, <1>3, <4>1, <4>2, <4>3, <4>4
      <4> QED  BY <4>5 DEF q, r
    <3> QED  BY <1>4, <3>1, <3>2 DEF Painted
  <2> QED  BY <2>3, <2>4
<1>11. DOMAIN colors' = DOMAIN colors /\ colors' = [i \in DOMAIN colors' |-> colors'[i]]
  BY <1>6
<1> HIDE DEF W, H
<1>12. DataTypeOK'
  <2>1. tileX' \in 0..Wrap - 1
    <3>1. W <= MaxWidth
      BY <1>2, <1>4, PictureFacts, SizesFit DEF Excessive, W
    <3>2. MaxWidth + Tile <= Wrap /\ Tile \in Nat /\ MaxWidth \in Nat /\ Wrap \in Nat
      BY SizesFit
    <3> QED  BY ONLY <1>2, <1>3, <1>5, <3>1, <3>2
  <2>2. /\ DOMAIN scratch' = 0..Tile * Tile - 1 /\ DOMAIN colors' = 0..Area(picture') - 1
        /\ announced' \in Lengths \cup {0} /\ length' \in Nat /\ tileY' \in 0..Wrap - 1
    BY <1>5, <1>11, Zenon DEF DataInv, DataTypeOK
  <2>3. byte' \in 0..255 /\ bits' \in 0..7
    BY <1>5
  <2> QED  BY ONLY <1>9, <2>1, <2>2, <2>3, Zenon DEF DataTypeOK, Ended
<1>13. ShownSoFar' /\ ReadsExactly' /\ FailsOnlyFor'
  <2>1. ShownSoFar'
    BY <1>9, Zenon DEF ShownSoFar
  <2>2. ReadsExactly' /\ FailsOnlyFor'
    BY <1>2, <1>5, <1>9 DEF ReadsExactly, FailsOnlyFor
  <2> QED  BY <2>1, <2>2
<1>14. picture' \in Pictures
  BY <1>2, <1>5
<1>15. TilesInv'
  <2>1. ~Excessive(picture')
    BY <1>4, <1>5
  <2>2. \A i \in DOMAIN colors' : Painted(i)' => colors'[i] = picture'.at[i]
    BY <1>5, <1>10, <1>11
  <2>3. tileY' < picture'.height /\ picture'.width = W
    BY <1>2, <1>5 DEF W, H
  <2> QED  BY <1>9, <2>1, <2>2, <2>3, Zenon DEF TilesInv, ZRLEStages, TileStages
<1>16. PaletteInv' /\ PartInv'
  <2>1. palette' \in Seq(0..255)
    BY <1>5
  <2> QED  BY <1>5, <1>9, <2>1, Zenon DEF PaletteInv, PartInv
<1> QED  BY <1>11, <1>12, <1>13, <1>14, <1>15, <1>16 DEF DataInv

LEMMA RowKeeps == DataInv /\ EndRow => DataInv'
<1> SUFFICES ASSUME DataInv, EndRow
             PROVE  DataInv'
  OBVIOUS
<1> DEFINE W == picture.width
           H == picture.height
<1>1. stage = "row"
  BY DEF EndRow
<1>2. /\ picture \in Pictures /\ unread = <<>> /\ length = announced
      /\ tileX >= W /\ tileY < H /\ tileX \in 0..Wrap - 1 /\ tileY \in 0..Wrap - 1
      /\ ~Excessive(picture) /\ palette \in Seq(0..255) /\ DOMAIN colors = 0..Area(picture) - 1
      /\ colors = [i \in DOMAIN colors |-> colors[i]]
  BY <1>1 DEF DataInv, DataTypeOK, ReadsExactly, TilesInv, ZRLEStages, PaletteInv
<1>3. \A i \in DOMAIN colors : Painted(i) => colors[i] = picture.at[i]
  BY <1>1 DEF DataInv, TilesInv, ZRLEStages
<1>4. tileX \in Nat /\ tileY \in Nat /\ W \in Nat /\ H \in Nat
  BY <1>2, SizesFit, PictureFacts
<1>5. /\ picture' = picture /\ colors' = colors /\ tileX' = 0 /\ tileY' = tileY + Tile
      /\ scratch' = scratch /\ pos' = pos /\ palette' = palette /\ byte' = byte /\ bits' = bits
      /\ announced' = announced /\ length' = length /\ unread' = unread
  BY <1>2, <1>4, NoWrap DEF EndRow, byteVars, lengthVars
<1>6. /\ stage' \in {"tile", "row", "end"}
      /\ stage' = "tile" => 0 < W /\ tileY' < H
      /\ stage' = "row" => 0 >= W /\ tileY' < H
      /\ stage' = "end" => tileY' >= H
  <2>1. stage' = IF tileY' >= H THEN "end" ELSE IF 0 < W THEN "tile" ELSE "row"
    BY DEF EndRow, NextTileIn
  <2>2. tileY' \in Nat
    BY <1>4, <1>5, SizesFit
  <2> HIDE DEF W, H
  <2> QED  BY ONLY <1>4, <2>1, <2>2
<1>7. ASSUME NEW i \in DOMAIN colors, Painted(i)'
      PROVE  Painted(i)
  <2> DEFINE q == i \div W
             r == i % W
  <2>1. r \in 0..W - 1 /\ q \in 0..H - 1
    BY <1>2, CellOf
  <2>2. q < tileY + Tile \/ r < 0
    BY <1>5, <1>7 DEF Painted
  <2>3. tileX >= W
    BY <1>2
  <2> HIDE DEF q, r, W, H
  <2>4. q < tileY + Tile /\ r < tileX
    BY ONLY <1>4, <2>1, <2>2, <2>3
  <2> QED  BY <2>4 DEF Painted, q, r, W
<1>8. pos = 0 /\ bits = 0
  BY <1>1 DEF DataInv, PartInv
<1>9. DataTypeOK'
  <2>1. tileX' \in 0..Wrap - 1 /\ tileY' \in 0..Wrap - 1
    <3>1. H <= MaxHeight
      BY <1>2, PictureFacts, SizesFit DEF Excessive
    <3>2. tileY < H
      BY <1>2
    <3>3. MaxHeight + Tile <= Wrap /\ Tile \in Nat /\ Tile >= 1 /\ MaxHeight \in Nat /\ Wrap \in Nat
      BY SizesFit
    <3> HIDE DEF W, H
    <3> QED  BY ONLY <1>4, <1>5, <3>1, <3>2, <3>3
  <2>2. /\ DOMAIN scratch' = 0..Tile * Tile - 1 /\ DOMAIN colors' = 0..Area(picture') - 1
        /\ announced' \in Lengths \cup {0} /\ length' \in Nat
        /\ byte' \in 0..255 /\ bits' \in 0..7
    BY <1>5, Zenon DEF DataInv, DataTypeOK
  <2> QED  BY ONLY <1>6, <2>1, <2>2, Zenon DEF DataTypeOK, Ended
<1>10. ShownSoFar' /\ ReadsExactly' /\ FailsOnlyFor'
  <2>1. ShownSoFar'
    BY <1>6, Zenon DEF ShownSoFar
  <2>2. ReadsExactly' /\ FailsOnlyFor'
    BY <1>2, <1>5, <1>6 DEF ReadsExactly, FailsOnlyFor
  <2> QED  BY <2>1, <2>2
<1>11. picture' \in Pictures /\ colors' = [i \in DOMAIN colors' |-> colors'[i]]
  BY <1>2, <1>5
<1>12. TilesInv'
  <2>1. ~Excessive(picture')
    BY <1>2, <1>5
  <2>2. \A i \in DOMAIN colors' : Painted(i)' => colors'[i] = picture'.at[i]
    BY <1>3, <1>5, <1>7
  <2> HIDE DEF W, H
  <2>3. picture'.height = H /\ picture'.width = W
    BY <1>5 DEF W, H
  <2> QED  BY <1>5, <1>6, <2>1, <2>2, <2>3, Zenon DEF TilesInv, ZRLEStages, TileStages
<1>13. PaletteInv' /\ PartInv'
  BY <1>2, <1>5, <1>6, <1>8, Zenon DEF PaletteInv, PartInv
<1> QED  BY <1>9, <1>10, <1>11, <1>12, <1>13 DEF DataInv

LEMMA EndKeeps == DataInv /\ EndOfData => DataInv'
<1> SUFFICES ASSUME DataInv, EndOfData
             PROVE  DataInv'
  OBVIOUS
<1>1. /\ stage = "end" /\ unread = <<>> /\ picture \in Pictures /\ pos = 0
      /\ DOMAIN colors = 0..Area(picture) - 1 /\ colors = [i \in DOMAIN colors |-> colors[i]]
      /\ tileY >= picture.height /\ tileY \in 0..Wrap - 1
  BY DEF DataInv, DataTypeOK, ReadsExactly, EndOfData, TilesInv, PartInv
<1>2. \A i \in DOMAIN colors : Painted(i) => colors[i] = picture.at[i]
  BY <1>1 DEF DataInv, TilesInv, ZRLEStages
<1>3. /\ stage' = "done" /\ picture' = picture /\ tileX' = tileX /\ tileY' = tileY
      /\ scratch' = scratch /\ pos' = pos /\ palette' = palette /\ byte' = byte /\ bits' = bits
      /\ announced' = announced /\ length' = length /\ unread' = unread /\ colors' = colors
  BY <1>1 DEF EndOfData, tileVars, byteVars, lengthVars
<1>4. ASSUME NEW i \in DOMAIN colors
      PROVE  Painted(i)
  <2> DEFINE q == i \div picture.width
             H == picture.height
  <2>1. q \in 0..H - 1
    BY <1>1, CellOf
  <2>2. H \in Nat /\ tileY \in Nat /\ tileY >= H
    BY <1>1, SizesFit, PictureFacts
  <2> HIDE DEF q, H
  <2>3. q < tileY
    BY ONLY <2>1, <2>2
  <2> QED  BY <2>3 DEF Painted, q
<1>5. colors = picture.at
  <2>1. picture.at \in [0..Area(picture) - 1 -> 0..255]
    BY <1>1, PictureFacts
  <2>2. \A i \in DOMAIN colors : colors[i] = picture.at[i]
    BY <1>2, <1>4
  <2> QED  BY ONLY <1>1, <2>1, <2>2
<1>6. pos \in 0..Area(picture)
  <2>1. Area(picture) \in Nat
    BY <1>1, PictureFacts
  <2> QED  BY ONLY <1>1, <2>1
<1>7. FailsOnlyFor' /\ stage' \in Ended
  BY <1>3 DEF FailsOnlyFor, Ended
<1> QED  BY <1>3, <1>5, <1>6, <1>7, LastStep

LEMMA BreakKeeps == DataInv /\ FormatInv /\ ConnectionBreaks => DataInv'
<1> SUFFICES ASSUME DataInv, FormatInv, ConnectionBreaks
             PROVE  DataInv'
  OBVIOUS
<1>1. /\ picture' = picture /\ tileX' = tileX /\ tileY' = tileY
      /\ scratch' = scratch /\ pos' = pos /\ palette' = palette /\ byte' = byte /\ bits' = bits
      /\ announced' = announced /\ length' = length /\ unread' = unread /\ colors' = colors
  BY Zenon DEF ConnectionBreaks, tileVars, byteVars, lengthVars
<1>2. \/ stage' = "broken"
      \/ stage' = "panic" /\ stage = "indices" /\ EndUnchecked(IndicesSize(palette))
  BY Zenon DEF ConnectionBreaks
<1>3. FailsOnlyFor'
  <2>1. CASE stage' = "broken"
    BY <2>1 DEF FailsOnlyFor
  <2>2. CASE stage' = "panic" /\ stage = "indices" /\ EndUnchecked(IndicesSize(palette))
    <3>1. IndicesSize(palette)' = IndicesSize(palette)
      BY <1>1 DEF IndicesSize
    <3>2. IndicesSize(palette) < Uncompressed
      <4> DEFINE z == IndicesSize(palette)
      <4>1. z \in Nat /\ Uncompressed \in Nat
        <5>1. picture \in Pictures
          BY DEF DataInv
        <5>2. picture.width \in Nat /\ picture.height \in Nat /\ Area(picture) \in Nat
          BY <5>1, PictureFacts
        <5>3. ((picture.width + 7) \div 8) \in Nat
          BY <5>2
        <5>4. \A u, v \in Nat : u * v \in Nat
          OBVIOUS
        <5> QED  BY <5>2, <5>3, <5>4, SizesFit DEF IndicesSize
      <4>2. ~(z >= Uncompressed)
        BY <2>2 DEF EndUnchecked, IsCompressed
      <4> HIDE DEF z
      <4>3. z < Uncompressed
        BY ONLY <4>1, <4>2
      <4> QED  BY <4>3 DEF z
    <3>3. palette # <<>>
      <4>1. palette \in Seq(0..255) /\ Len(palette) \in 2..256
        BY <2>2 DEF DataInv, PaletteInv
      <4>2. \A num \in 2..256 : num # 0
        OBVIOUS
      <4> QED  BY <4>1, <4>2, EmptySeq
    <3>4. encoding' = "Tight"
      BY <2>2 DEF FormatInv, ConnectionBreaks, chosen
    <3> QED  BY <1>1, <2>2, <3>1, <3>2, <3>3, <3>4 DEF FailsOnlyFor
  <2> QED  BY <1>2, <2>1, <2>2
<1>4. stage' \in Ended /\ stage' # "done"
  BY <1>2 DEF Ended
<1> QED  BY <1>1, <1>3, <1>4, LastStep

LEMMA LengthKeeps == DataInv /\ ReadCompactLength => DataInv'
<1> SUFFICES ASSUME DataInv, ReadCompactLength
             PROVE  DataInv'
  OBVIOUS
<1>1. /\ stage = "length" /\ stage' = "indices" /\ unread = <<>> /\ pos = 0 /\ bits = 0
      /\ picture \in Pictures
  BY DEF DataInv, ReadCompactLength, ReadsExactly, PartInv
<1>2. /\ picture' = picture /\ colors' = colors /\ tileX' = tileX /\ tileY' = tileY
      /\ scratch' = scratch /\ pos' = pos /\ palette' = palette /\ byte' = byte /\ bits' = bits
  BY DEF ReadCompactLength, tileVars, byteVars
<1>3. PICK l \in Lengths :
        LET r == CompactLength(unread \o CompactBytes(l)) IN
          announced' = l /\ length' = r.length /\ unread' = r.rest
  BY DEF ReadCompactLength
<1>4. announced' = l /\ length' = l /\ unread' = <<>>
  <2>1. CompactLength(CompactBytes(l)).length = l /\ CompactLength(CompactBytes(l)).rest = <<>>
    BY LengthReadBack
  <2>2. <<>> \o CompactBytes(l) = CompactBytes(l)
    BY DEF CompactBytes
  <2> QED  BY <1>1, <1>3, <2>1, <2>2
<1>5. l \in Nat
  <2>1. l \in 0..(2 * Group * Group * Group - 1)
    BY DataAssumption
  <2> HIDE DEF DataAssumption
  <2> QED  BY ONLY <2>1
<1>6. Area(picture) \in Nat
  BY <1>1, PictureFacts
<1>7. DataTypeOK'
  <2>1. /\ tileX' \in 0..Wrap - 1 /\ tileY' \in 0..Wrap - 1
        /\ byte' \in 0..255 /\ bits' \in 0..7 /\ DOMAIN scratch' = 0..Tile * Tile - 1
        /\ DOMAIN colors' = 0..Area(picture') - 1
    BY <1>2, Zenon DEF DataInv, DataTypeOK
  <2>2. pos' \in 0..Area(picture')
    <3>1. pos' = 0 /\ Area(picture') = Area(picture)
      BY <1>1, <1>2
    <3> QED  BY ONLY <1>6, <3>1
  <2>3. announced' \in Lengths \cup {0} /\ length' \in Nat
    BY <1>4, <1>5
  <2> QED  BY ONLY <1>1, <2>1, <2>2, <2>3 DEF DataTypeOK, Ended
<1>8. ShownSoFar' /\ ReadsExactly' /\ FailsOnlyFor'
  <2>1. ShownSoFar'
    <3>1. pos' = 0
      BY <1>1, <1>2
    <3>2. \A k \in 0..pos' - 1 : FALSE
      BY ONLY <3>1
    <3> QED  BY ONLY <1>1, <3>2 DEF ShownSoFar
  <2>2. ReadsExactly' /\ FailsOnlyFor'
    BY <1>1, <1>4 DEF ReadsExactly, FailsOnlyFor
  <2> QED  BY <2>1, <2>2
<1>9. picture' \in Pictures /\ colors' = [i \in DOMAIN colors' |-> colors'[i]]
  BY <1>2 DEF DataInv
<1>10. TilesInv'
  BY <1>1 DEF TilesInv, ZRLEStages, TileStages
<1>11. PaletteInv'
  BY <1>1, <1>2 DEF DataInv, PaletteInv, InPalette
<1>12. PartInv'
  BY <1>1, <1>2 DEF PartInv, BitsInv
<1> QED  BY <1>7, <1>8, <1>9, <1>10, <1>11, <1>12 DEF DataInv

LEMMA PixelsKeep == DataInv /\ FormatInv /\ ReadPixels => DataInv'
<1> SUFFICES ASSUME DataInv, FormatInv, ReadPixels
             PROVE  DataInv'
  OBVIOUS
<1> DEFINE A == Area(picture)
           written == [k \in 1..A |-> picture.at[k - 1]]
<1>1. /\ stage = "pixels" /\ unread = <<>> /\ pos = 0 /\ picture \in Pictures
      /\ palette = <<>> /\ DOMAIN colors = 0..A - 1
  BY DEF DataInv, DataTypeOK, ReadPixels, ReadsExactly, PartInv, PaletteInv
<1>2. A \in Nat /\ picture.at \in [0..A - 1 -> 0..255]
  BY <1>1, PictureFacts
<1> HIDE DEF A
<1>3. written \in [1..A -> Nat]
  <2>1. ASSUME NEW k \in 1..A
        PROVE  picture.at[k - 1] \in Nat
    <3>1. k - 1 \in 0..A - 1
      BY <1>2
    <3>2. picture.at[k - 1] \in 0..255
      BY <1>2, <3>1
    <3> QED  BY ONLY <3>2
  <2> QED  BY <2>1
<1>4. written \in Seq(Nat) /\ Len(written) = A
  <2> HIDE DEF written
  <2> QED  BY <1>2, <1>3, Listed
<1>5. unread \o written = written
  <2> HIDE DEF written
  <2> QED  BY <1>1, <1>4, ConcatEmptySeq
<1>6. /\ stage' = IF written = <<>> THEN "panic" ELSE "done"
      /\ colors' = [i \in DOMAIN colors |-> written[i + 1]]
      /\ unread' = Rest(written, A)
  BY <1>5 DEF ReadPixels, A
<1>7. unread' = <<>>
  <2> HIDE DEF written
  <2> QED  BY <1>2, <1>4, <1>6, NothingRest
<1>8. colors' = picture.at
  <2>1. ASSUME NEW i \in 0..A - 1
        PROVE  written[i + 1] = picture.at[i]
    <3>1. i + 1 \in 1..A /\ (i + 1) - 1 = i
      BY <1>2
    <3> QED  BY <3>1
  <2> HIDE DEF written
  <2>2. colors' = [i \in 0..A - 1 |-> picture.at[i]]
    BY <1>1, <1>6, <2>1
  <2> QED  BY <1>2, <2>2
<1>9. /\ picture' = picture /\ tileX' = tileX /\ tileY' = tileY
      /\ scratch' = scratch /\ pos' = pos /\ palette' = palette /\ byte' = byte /\ bits' = bits
      /\ announced' = announced /\ length' = length
  BY DEF ReadPixels, tileVars, byteVars, lengthVars
<1>10. stage' \in {"panic", "done"} /\ (stage' = "panic" => A = 0)
  <2>1. written = <<>> => Len(written) = 0
    <3> HIDE DEF written
    <3> QED  BY <1>4, EmptySeq
  <2> HIDE DEF written
  <2> QED  BY <1>4, <1>6, <2>1
<1> HIDE DEF written
<1>11. DataTypeOK'
  <2>1. /\ tileX' \in 0..Wrap - 1 /\ tileY' \in 0..Wrap - 1
        /\ byte' \in 0..255 /\ bits' \in 0..7 /\ DOMAIN scratch' = 0..Tile * Tile - 1
        /\ announced' \in Lengths \cup {0} /\ length' \in Nat
    BY <1>9, Zenon DEF DataInv, DataTypeOK
  <2>2. DOMAIN colors' = 0..Area(picture') - 1
    BY <1>2, <1>8, <1>9 DEF A
  <2>3. pos' \in 0..Area(picture')
    <3>1. pos' = 0 /\ Area(picture') = A
      BY <1>1, <1>9 DEF A
    <3> QED  BY ONLY <1>2, <3>1
  <2> QED  BY ONLY <1>10, <2>1, <2>2, <2>3, Zenon DEF DataTypeOK, Ended
<1>12. ShownSoFar' /\ ReadsExactly' /\ FailsOnlyFor'
  <2>1. ShownSoFar'
    BY <1>8, <1>9, <1>10, Zenon DEF ShownSoFar
  <2>2. ReadsExactly'
    BY <1>7, <1>9 DEF DataInv, ReadsExactly
  <2>3. encoding' = "Tight"
    BY <1>1 DEF FormatInv, ReadPixels, chosen
  <2>4. FailsOnlyFor'
    BY <1>1, <1>9, <1>10, <2>3 DEF FailsOnlyFor, A
  <2> QED  BY <2>1, <2>2, <2>4
<1>13. picture' \in Pictures /\ colors' = [i \in DOMAIN colors' |-> colors'[i]]
  BY <1>1, <1>2, <1>8, <1>9
<1>14. TilesInv' /\ PartInv'
  BY <1>10, Zenon DEF TilesInv, ZRLEStages, TileStages, PartInv
<1>15. PaletteInv'
  BY <1>9, <1>10, Zenon DEF DataInv, PaletteInv
<1> QED  BY <1>11, <1>12, <1>13, <1>14, <1>15 DEF DataInv

LEMMA PaletteKeeps == DataInv /\ ReadPalette => DataInv'
<1> SUFFICES ASSUME DataInv, ReadPalette
             PROVE  DataInv'
  OBVIOUS
<1>1. /\ stage = "palette" /\ unread = <<>> /\ pos = 0 /\ bits = 0 /\ picture \in Pictures
      /\ length = announced
  BY DEF DataInv, ReadPalette, ReadsExactly, PartInv
<1>2. /\ picture' = picture /\ colors' = colors /\ tileX' = tileX /\ tileY' = tileY
      /\ scratch' = scratch /\ pos' = pos /\ byte' = byte /\ bits' = bits
      /\ announced' = announced /\ length' = length
      /\ stage' \in {"length", "indices"}
  BY DEF ReadPalette, tileVars, byteVars, lengthVars
<1>3. PICK p \in Palettes :
        /\ Len(p) \in 2..256 /\ \A k \in DOMAIN colors : \E i \in 1..Len(p) : p[i] = picture.at[k]
        /\ LET bytes == unread \o <<Len(p) - 1>> \o p IN
             /\ palette' = SubSeq(bytes, 2, bytes[1] + 2)
             /\ unread' = Rest(bytes, bytes[1] + 2)
  BY Zenon DEF ReadPalette
<1>4. p \in Seq(0..255)
  BY DataAssumption
<1> DEFINE b == Len(p) - 1
<1>5. b \in Nat /\ b + 2 = Len(p) + 1
  <2> DEFINE len == Len(p)
  <2>1. len \in 2..256
    BY <1>3
  <2> HIDE DEF len
  <2>2. len - 1 \in Nat /\ (len - 1) + 2 = len + 1
    BY ONLY <2>1
  <2> QED  BY ONLY <2>2 DEF len
<1>6. palette' = p /\ unread' = <<>>
  <2>1. LET bytes == <<>> \o <<b>> \o p
        IN  /\ palette' = SubSeq(bytes, 2, bytes[1] + 2)
            /\ unread' = Rest(bytes, bytes[1] + 2)
    BY <1>1, <1>3
  <2> HIDE DEF b
  <2>2. /\ (<<>> \o <<b>> \o p)[1] = b
        /\ SubSeq(<<>> \o <<b>> \o p, 2, Len(p) + 1) = p
        /\ Rest(<<>> \o <<b>> \o p, Len(p) + 1) = <<>>
    BY <1>4, <1>5, PaletteReadBack
  <2> QED  BY <1>5, <2>1, <2>2, Zenon
<1>7. Area(picture) \in Nat
  BY <1>1, PictureFacts
<1>8. DataTypeOK'
  <2>1. /\ tileX' \in 0..Wrap - 1 /\ tileY' \in 0..Wrap - 1
        /\ byte' \in 0..255 /\ bits' \in 0..7 /\ DOMAIN scratch' = 0..Tile * Tile - 1
        /\ DOMAIN colors' = 0..Area(picture') - 1
        /\ announced' \in Lengths \cup {0} /\ length' \in Nat
    BY <1>2, Zenon DEF DataInv, DataTypeOK
  <2>2. pos' \in 0..Area(picture')
    <3>1. pos' = 0 /\ Area(picture') = Area(picture)
      BY <1>1, <1>2
    <3> QED  BY ONLY <1>7, <3>1
  <2> QED  BY ONLY <1>2, <2>1, <2>2, Zenon DEF DataTypeOK, Ended
<1>9. ShownSoFar' /\ ReadsExactly' /\ FailsOnlyFor'
  <2>1. ShownSoFar'
    <3>1. pos' = 0
      BY <1>1, <1>2
    <3>2. \A k \in 0..pos' - 1 : FALSE
      BY ONLY <3>1
    <3> QED  BY ONLY <1>2, <3>2, Zenon DEF ShownSoFar
  <2>2. ReadsExactly' /\ FailsOnlyFor'
    BY <1>1, <1>2, <1>6 DEF ReadsExactly, FailsOnlyFor
  <2> QED  BY <2>1, <2>2
<1>10. picture' \in Pictures /\ colors' = [i \in DOMAIN colors' |-> colors'[i]]
  BY <1>2 DEF DataInv
<1>11. TilesInv'
  BY <1>2, Zenon DEF TilesInv, ZRLEStages, TileStages
<1>12. PaletteInv'
  BY <1>2, <1>3, <1>4, <1>6, Zenon DEF PaletteInv, InPalette
<1>13. PartInv'
  BY <1>1, <1>2, Zenon DEF PartInv, BitsInv
<1> QED  BY <1>8, <1>9, <1>10, <1>11, <1>12, <1>13 DEF DataInv

(* There are indices enough for a palette. *)
LEMMA BitsSuffice ==
  ASSUME NEW len \in 2..256
  PROVE  /\ BitsPerPackedPixel(len) \in Sizes /\ len <= TwoTo[BitsPerPackedPixel(len)]
         /\ (IF len = 2 THEN 1 ELSE 8) \in Sizes /\ len <= TwoTo[IF len = 2 THEN 1 ELSE 8]
BY Bytewise DEF BitsPerPackedPixel, Sizes

LEMMA ColourIndexed ==
  ASSUME NEW c, NEW p \in Seq(0..255), \E i \in 1..Len(p) : p[i] = c,
         NEW size \in Sizes, Len(p) <= TwoTo[size]
  PROVE  IndexOf(c, p) \in 0..TwoTo[size] - 1
<1> DEFINE len == Len(p)
           most == TwoTo[size]
           index == IndexOf(c, p)
<1>1. index \in 0..len - 1
  BY IndexFound
<1>2. len \in Nat
  BY LenProperties
<1>3. most \in Nat
  <2>1. size \in Nat
    BY DEF Sizes
  <2> QED  BY <2>1, TwoToTyped
<1>4. len <= most
  OBVIOUS
<1> HIDE DEF len, most, index
<1>5. index \in 0..most - 1
  BY ONLY <1>1, <1>2, <1>3, <1>4
<1> QED  BY <1>5 DEF most, index

LEMMA PackedKeeps == DataInv /\ ReadPacked => DataInv'
<1> SUFFICES ASSUME DataInv, ReadPacked
             PROVE  DataInv'
  OBVIOUS
<1> DEFINE size == BitsPerPackedPixel(Len(palette))
           indices == TileIndices
<1>1. stage = "packed" /\ stage \in TileStages
  BY DEF ReadPacked, TileStages
<1>2. /\ picture \in Pictures /\ unread = <<>> /\ palette \in Seq(0..255)
      /\ tileX < picture.width /\ tileY < picture.height
      /\ tileX \in 0..Wrap - 1 /\ tileY \in 0..Wrap - 1
  BY <1>1, TileRange
<1>3. TileArea \in Nat /\ DOMAIN scratch = 0..Tile * Tile - 1 /\ TileArea \in 1..Tile * Tile
      /\ Tile * Tile \in Nat
  BY <1>1, TileRange
<1>4. pos \in 0..TileArea - 1
  BY <1>1, RunStart
<1>5. /\ TileWidth \in Nat /\ TileHeight \in Nat /\ TileArea = TileWidth * TileHeight
  <2>1. tileX \in Nat /\ tileY \in Nat
    BY <1>2, SizesFit
  <2>2. /\ TileWidth \in 1..Tile /\ TileHeight \in 1..Tile /\ TileArea = TileWidth * TileHeight
    BY <1>2, <2>1, TileFacts
  <2> QED  BY <2>2, SizesFit
<1>6. /\ picture' = picture /\ colors' = colors /\ tileX' = tileX /\ tileY' = tileY
      /\ palette' = palette /\ announced' = announced /\ length' = length
      /\ pos' = pos + 1 /\ stage' = IF pos' < TileArea THEN "packed" ELSE "copy"
      /\ scratch' = [scratch EXCEPT ![pos] = palette[IndexRead(size) + 1]]
      /\ ReadIndex(pos, TileWidth, size, indices)
  BY DEF ReadPacked, lengthVars, TileIndices
<1>7. Len(palette) \in 2..127 /\ \A k \in 0..TileArea - 1 : InPalette(Pixel(k))
  BY <1>1 DEF DataInv, PaletteInv
<1>8. size \in Sizes /\ Len(palette) <= TwoTo[size]
  <2>1. Len(palette) \in 2..256
    <3>1. \A num \in 2..127 : num \in 2..256
      OBVIOUS
    <3> QED  BY <1>7, <3>1
  <2> QED  BY <2>1, BitsSuffice
<1>9. BitsInv(TileWidth, size, indices)
  BY <1>1 DEF DataInv, PartInv
<1> HIDE DEF size
<1>10. Indexed(TileWidth, TileHeight, size, indices)
  <2>1. ASSUME NEW k \in 0..TileArea - 1
        PROVE  indices[k] \in 0..TwoTo[size] - 1
    <3>1. \E i \in 1..Len(palette) : palette[i] = Pixel(k)
      BY <1>7 DEF InPalette
    <3>2. IndexOf(Pixel(k), palette) \in 0..TwoTo[size] - 1
      BY <1>2, <1>8, <3>1, ColourIndexed
    <3> QED  BY <3>2 DEF TileIndices
  <2> QED  BY <1>5, <2>1 DEF Indexed
<1>11. pos \in 0..TileWidth * TileHeight - 1 /\ byte \in 0..255 /\ bits \in 0..7
  BY <1>4, <1>5, Zenon DEF DataInv, DataTypeOK
<1>12. /\ byte' \in 0..255 /\ bits' \in 0..7 /\ unread' = <<>>
       /\ IndexRead(size) = indices[pos]
       /\ \/ bits' = 0
          \/ (pos + 1) % TileWidth = 0
          \/ \E j \in 1..(pos + 1) % TileWidth :
               bits' = 8 - size * j /\ byte' = PackedByte((pos + 1) - j, TileWidth, size, indices)
  <2> HIDE DEF indices
  <2> QED  BY <1>2, <1>5, <1>6, <1>8, <1>9, <1>10, <1>11, IndexReadBack
<1>13. scratch' = [scratch EXCEPT ![pos] = Pixel(pos)]
  <2>1. InPalette(Pixel(pos))
    BY <1>4, <1>7
  <2>2. palette[IndexOf(Pixel(pos), palette) + 1] = Pixel(pos)
    BY <1>2, <2>1, IndexFound DEF InPalette
  <2>3. indices[pos] = IndexOf(Pixel(pos), palette)
    BY <1>4 DEF TileIndices
  <2> QED  BY <1>6, <1>12, <2>2, <2>3
<1>14. TileWidth' = TileWidth /\ TileArea' = TileArea /\ \A k : Pixel(k)' = Pixel(k)
  BY <1>6, TilesStay
<1>15. BitsInv(TileWidth, BitsPerPackedPixel(Len(palette)), TileIndices)'
  <2>1. TileIndices' = indices
    BY <1>6, <1>14 DEF TileIndices
  <2>2. BitsPerPackedPixel(Len(palette'))  = size
    BY <1>6 DEF size
  <2> HIDE DEF indices
  <2> QED  BY <1>6, <1>12, <1>14, <2>1, <2>2 DEF BitsInv
<1>16. ASSUME NEW k \in 0..pos
       PROVE  scratch'[k] = Pixel(k)
  <2>1. k \in 0..Tile * Tile - 1 /\ pos \in 0..Tile * Tile - 1 /\ (k = pos \/ k \in 0..pos - 1)
    BY ONLY <1>3, <1>4, k \in 0..pos
  <2>2. \A i \in 0..pos - 1 : scratch[i] = Pixel(i)
    BY <1>1 DEF DataInv, ShownSoFar
  <2> QED  BY <1>3, <1>13, <2>1, <2>2
<1>17. DOMAIN scratch' = DOMAIN scratch
  BY <1>13
<1>18. pos' \in 0..TileArea /\ pos' - 1 = pos
  BY ONLY <1>3, <1>4, <1>6
<1>19. CASE pos' < TileArea
  <2>1. stage' = stage /\ stage' \in TileStages \ {"tile", "raw", "solid"} /\ stage' # "copy"
    BY <1>1, <1>6, <1>19 DEF TileStages
  <2>2. \A k \in 0..pos' - 1 : scratch'[k] = Pixel(k)
    BY <1>16, <1>18
  <2> QED  BY <1>1, <1>6, <1>12, <1>15, <1>17, <1>18, <1>19, <2>1, <2>2, TileStep
<1>20. CASE ~(pos' < TileArea)
  <2>1. stage' = "copy" /\ stage' \in TileStages \ {"tile", "raw", "solid"}
    BY <1>6, <1>20 DEF TileStages
  <2>2. TileArea - 1 = pos
    BY ONLY <1>3, <1>18, <1>20
  <2>3. \A k \in 0..TileArea - 1 : scratch'[k] = Pixel(k)
    BY <1>16, <2>2
  <2> QED  BY <1>1, <1>6, <1>12, <1>17, <1>18, <2>1, <2>3, TileStep
<1> QED  BY <1>19, <1>20

LEMMA IndicesKeep == DataInv /\ ReadIndices => DataInv'
<1> SUFFICES ASSUME DataInv, ReadIndices
             PROVE  DataInv'
  OBVIOUS
<1> DEFINE size == IF Len(palette) = 2 THEN 1 ELSE 8
           A == Area(picture)
           indices == PictureIndices
<1>1. /\ stage = "indices" /\ picture \in Pictures /\ unread = <<>> /\ palette \in Seq(0..255)
      /\ length = announced /\ DOMAIN colors = 0..A - 1
      /\ colors = [i \in DOMAIN colors |-> colors[i]]
  BY DEF DataInv, DataTypeOK, ReadIndices, ReadsExactly, PaletteInv
<1>2. A \in Nat /\ picture.at \in [0..A - 1 -> 0..255]
  BY <1>1, PictureFacts
<1>3. /\ picture' = picture /\ tileX' = tileX /\ tileY' = tileY /\ scratch' = scratch
      /\ palette' = palette /\ announced' = announced /\ length' = length
  BY DEF ReadIndices, lengthVars
<1>4. pos \in 0..A /\ byte \in 0..255 /\ bits \in 0..7
      /\ \A k \in 0..pos - 1 : colors[k] = picture.at[k]
  BY <1>1 DEF DataInv, DataTypeOK, ShownSoFar
<1>5. CASE pos = A
  <2>1. /\ stage' = "done" /\ colors' = colors /\ pos' = pos /\ byte' = byte /\ bits' = bits
        /\ unread' = unread
    BY <1>5 DEF ReadIndices, byteVars
  <2>2. colors = picture.at
    <3> HIDE DEF A
    <3> QED  BY ONLY <1>1, <1>2, <1>4, <1>5
  <2>3. FailsOnlyFor' /\ stage' \in Ended
    BY <2>1 DEF FailsOnlyFor, Ended
  <2> QED  BY <1>3, <1>4, <2>1, <2>2, <2>3, LastStep
<1>6. CASE pos # A
  <2>1. pos \in 0..A - 1
    <3> HIDE DEF A
    <3> QED  BY ONLY <1>2, <1>4, <1>6
  <2>2. /\ stage' = "indices" /\ pos' = pos + 1
        /\ colors' = [colors EXCEPT ![pos] = palette[IndexRead(size) + 1]]
        /\ ReadIndex(pos, picture.width, size, indices)
    BY <1>1, <1>6 DEF ReadIndices, PictureIndices
  <2>3. Len(palette) \in 2..256 /\ \A k \in DOMAIN colors : InPalette(picture.at[k])
    BY <1>1 DEF DataInv, PaletteInv
  <2>4. size \in Sizes /\ Len(palette) <= TwoTo[size]
    BY <2>3, BitsSuffice
  <2>5. BitsInv(picture.width, size, indices)
    BY <1>1 DEF DataInv, PartInv, IndexBits
  <2> HIDE DEF size
  <2>6. picture.width \in Nat /\ picture.height \in Nat /\ A = picture.width * picture.height
    BY <1>1, PictureFacts
  <2>7. Indexed(picture.width, picture.height, size, indices)
    <3>1. ASSUME NEW k \in 0..A - 1
          PROVE  indices[k] \in 0..TwoTo[size] - 1
      <4>1. k \in DOMAIN colors
        BY <1>1
      <4>2. \E i \in 1..Len(palette) : palette[i] = picture.at[k]
        BY <2>3, <4>1 DEF InPalette
      <4>3. IndexOf(picture.at[k], palette) \in 0..TwoTo[size] - 1
        BY <1>1, <2>4, <4>2, ColourIndexed
      <4> QED  BY <4>1, <4>3 DEF PictureIndices
    <3> QED  BY <2>6, <3>1 DEF Indexed
  <2>8. pos \in 0..picture.width * picture.height - 1
    BY <2>1, <2>6
  <2>9. /\ byte' \in 0..255 /\ bits' \in 0..7 /\ unread' = <<>>
        /\ IndexRead(size) = indices[pos]
        /\ \/ bits' = 0
           \/ (pos + 1) % picture.width = 0
           \/ \E j \in 1..(pos + 1) % picture.width :
                /\ bits' = 8 - size * j
                /\ byte' = PackedByte((pos + 1) - j, picture.width, size, indices)
    <3> DEFINE w == picture.width
               h == picture.height
    <3>1. /\ w \in Nat /\ h \in Nat /\ Indexed(w, h, size, indices) /\ pos \in 0..w * h - 1
          /\ BitsInv(w, size, indices) /\ ReadIndex(pos, w, size, indices)
      BY <2>2, <2>5, <2>6, <2>7, <2>8
    <3> HIDE DEF indices, w, h
    <3>2. /\ byte' \in 0..255 /\ bits' \in 0..7 /\ unread' = <<>>
          /\ IndexRead(size) = indices[pos]
          /\ \/ bits' = 0
             \/ (pos + 1) % w = 0
             \/ \E j \in 1..(pos + 1) % w :
                  bits' = 8 - size * j /\ byte' = PackedByte((pos + 1) - j, w, size, indices)
      BY <1>1, <1>4, <2>4, <3>1, IndexReadBack
    <3> QED  BY ONLY <3>2 DEF w
  <2>10. colors' = [colors EXCEPT ![pos] = picture.at[pos]]
    <3>1. pos \in DOMAIN colors
      BY <1>1, <2>1
    <3>2. \E i \in 1..Len(palette) : palette[i] = picture.at[pos]
      BY <2>3, <3>1 DEF InPalette
    <3>3. palette[IndexOf(picture.at[pos], palette) + 1] = picture.at[pos]
      BY <1>1, <3>2, IndexFound
    <3>4. indices[pos] = IndexOf(picture.at[pos], palette)
      BY <3>1 DEF PictureIndices
    <3> QED  BY <2>2, <2>9, <3>3, <3>4
  <2>11. DOMAIN colors' = 0..A - 1 /\ colors' = [i \in DOMAIN colors' |-> colors'[i]]
    BY <1>1, <2>10
  <2>12. ASSUME NEW k \in 0..pos
         PROVE  colors'[k] = picture.at[k]
    <3>1. k \in 0..A - 1 /\ (k = pos \/ k \in 0..pos - 1)
      <4> HIDE DEF A
      <4> QED  BY ONLY <1>2, <2>1, k \in 0..pos
    <3> QED  BY <1>1, <1>4, <2>1, <2>10, <3>1
  <2>13. pos' \in 0..A /\ pos' - 1 = pos
    <3> HIDE DEF A
    <3> QED  BY ONLY <1>2, <2>1, <2>2
  <2>14. DataTypeOK'
    <3>1. /\ tileX' \in 0..Wrap - 1 /\ tileY' \in 0..Wrap - 1
          /\ DOMAIN scratch' = 0..Tile * Tile - 1
          /\ announced' \in Lengths \cup {0} /\ length' \in Nat
      BY <1>3, Zenon DEF DataInv, DataTypeOK
    <3>2. pos' \in 0..Area(picture') /\ DOMAIN colors' = 0..Area(picture') - 1
      BY <1>3, <2>11, <2>13
    <3>3. stage' = "indices" /\ byte' \in 0..255 /\ bits' \in 0..7
      BY <2>2, <2>9
    <3> QED  BY ONLY <3>1, <3>2, <3>3 DEF DataTypeOK, Ended
  <2>15. ShownSoFar' /\ ReadsExactly' /\ FailsOnlyFor'
    <3>1. \A k \in 0..pos' - 1 : colors'[k] = picture'.at[k]
      BY <1>3, <2>12, <2>13
    <3>2. ShownSoFar'
      BY <2>2, <3>1 DEF ShownSoFar
    <3>3. ReadsExactly' /\ FailsOnlyFor'
      BY <1>1, <1>3, <2>2, <2>9 DEF ReadsExactly, FailsOnlyFor
    <3> QED  BY <3>2, <3>3
  <2>16. TilesInv'
    BY <2>2 DEF TilesInv, ZRLEStages, TileStages
  <2>17. PaletteInv'
    <3>1. DOMAIN colors' = DOMAIN colors
      BY <2>10
    <3> QED  BY <1>1, <1>3, <2>2, <2>3, <3>1 DEF PaletteInv, InPalette
  <2>18. PartInv'
    <3>1. PictureIndices' = indices
      BY <1>3, <2>10 DEF PictureIndices
    <3>2. IndexBits' = size
      BY <1>3 DEF IndexBits, size
    <3> HIDE DEF indices
    <3>3. BitsInv(picture.width, IndexBits, PictureIndices)'
      BY <1>3, <2>2, <2>9, <3>1, <3>2 DEF BitsInv
    <3> QED  BY <2>2, <3>3 DEF PartInv
  <2>19. picture' \in Pictures
    BY <1>1, <1>3
  <2> QED  BY <2>11, <2>14, <2>15, <2>16, <2>17, <2>18, <2>19 DEF DataInv
<1> QED  BY <1>5, <1>6

LEMMA StepData == DataInv /\ FormatInv /\ [DataNext]_dataVars => DataInv'
<1> SUFFICES ASSUME DataInv, FormatInv, [DataNext]_dataVars
             PROVE  DataInv'
  OBVIOUS
<1>1. CASE ReadRectangle
  BY <1>1, RectangleKeeps
<1>2. CASE ReadRawPixels
  BY <1>2, RawPixelsKeep
<1>3. CASE ZRLE
  BY <1>3, SubencodingKeeps, RawKeeps, SolidKeeps, PackedKeeps, AnyRunKeeps, PaletteRunKeeps,
     CopyKeeps, RowKeeps, EndKeeps DEF ZRLE
<1>4. CASE Tight
  BY <1>4, PixelsKeep, PaletteKeeps, LengthKeeps, IndicesKeep DEF Tight
<1>5. CASE ConnectionBreaks
  BY <1>5, BreakKeeps
<1>6. CASE UNCHANGED dataVars
  <2>1. /\ picture' = picture /\ stage' = stage /\ colors' = colors
        /\ tileX' = tileX /\ tileY' = tileY /\ scratch' = scratch /\ pos' = pos
        /\ palette' = palette /\ byte' = byte /\ bits' = bits
        /\ announced' = announced /\ length' = length /\ unread' = unread
        /\ format' = format /\ encoding' = encoding
    BY <1>6 DEF dataVars, chosen, tileVars, byteVars, lengthVars
  <2>2. TileWidth' = TileWidth /\ TileHeight' = TileHeight /\ TileArea' = TileArea
        /\ (\A k : Pixel(k)' = Pixel(k)) /\ \A i : Painted(i)' = Painted(i)
    BY <2>1, TilesStay
  <2>3. DataTypeOK' /\ ShownSoFar' /\ ReadsExactly' /\ FailsOnlyFor'
    <3>1. DataTypeOK'
      BY <2>1, <2>2, Zenon DEF DataInv, DataTypeOK
    <3>2. ShownSoFar' /\ ReadsExactly'
      BY <2>1, <2>2, Zenon DEF DataInv, ShownSoFar, ReadsExactly
    <3>3. FailsOnlyFor'
      BY <2>1 DEF DataInv, FailsOnlyFor, IndicesSize
    <3> QED  BY <3>1, <3>2, <3>3
  <2>4. picture' \in Pictures /\ colors' = [i \in DOMAIN colors' |-> colors'[i]]
    BY <2>1 DEF DataInv
  <2>5. TilesInv' /\ PaletteInv'
    <3>1. TilesInv'
      BY <2>1, <2>2 DEF DataInv, TilesInv
    <3>2. PaletteInv'
      BY <2>1, <2>2, Zenon DEF DataInv, PaletteInv, InPalette
    <3> QED  BY <3>1, <3>2
  <2>6. PartInv'
    <3>1. TileIndices' = TileIndices /\ PictureIndices' = PictureIndices /\ IndexBits' = IndexBits
      BY <2>1, <2>2 DEF TileIndices, PictureIndices, IndexBits
    <3>2. BitsInv(TileWidth, BitsPerPackedPixel(Len(palette)), TileIndices)'
            = BitsInv(TileWidth, BitsPerPackedPixel(Len(palette)), TileIndices)
      BY <2>1, <2>2, <3>1 DEF BitsInv
    <3>3. BitsInv(picture.width, IndexBits, PictureIndices)'
            = BitsInv(picture.width, IndexBits, PictureIndices)
      BY <2>1, <3>1 DEF BitsInv
    <3> QED  BY <2>1, <2>2, <3>2, <3>3, Zenon DEF DataInv, PartInv
  <2> QED  BY <2>3, <2>4, <2>5, <2>6 DEF DataInv
<1> QED  BY <1>1, <1>2, <1>3, <1>4, <1>5, <1>6 DEF DataNext

-----------------------------------------------------------------------------

(* No run, palette or row of any picture the server may show goes beyond   *)
(* what parse, parseTile and the filters of Tight have made room for.      *)
THEOREM DataTypeCorrect == DataSpec => []DataTypeOK
<1>1. DataInv => DataTypeOK
  BY DEF DataInv
<1> QED  BY <1>1, InitData, InitFormat, StepData, StepFormat, PTL DEF DataSpec

(* Whatever the picture, the sizes of its tiles, and the way the server    *)
(* writes it, what RawEncoding, ZRLEEncoding and TightEncoding have read   *)
(* is what is shown.                                                       *)
THEOREM ReadsWhatIsShown == DataSpec => []ShownSoFar
<1>1. DataInv => ShownSoFar
  BY DEF DataInv
<1> QED  BY <1>1, InitData, InitFormat, StepData, StepFormat, PTL DEF DataSpec

(* Every part of a rectangle, compact lengths included, is read to its     *)
(* last byte, and no further.                                              *)
THEOREM ReadsToTheLastByte == DataSpec => []ReadsExactly
<1>1. DataInv => ReadsExactly
  BY DEF DataInv
<1> QED  BY <1>1, InitData, InitFormat, StepData, StepFormat, PTL DEF DataSpec

(* Nothing is refused but what FramebufferUpdateMessage.Read and the       *)
(* decoders say they do not support, and nothing makes the client panic    *)
(* but an entry beyond its colour map, a connection that breaks within a   *)
(* few indices, and pixels of which there are none, whatever the formats   *)
(* and the pictures (RawEncoding.Read, readToBuf, ReadColors).             *)
THEOREM FailsForNothingElse == DataSpec => []FailsOnlyFor
<1>1. DataInv => FailsOnlyFor
  BY DEF DataInv
<1> QED  BY <1>1, InitData, InitFormat, StepData, StepFormat, PTL DEF DataSpec
=============================================================================
