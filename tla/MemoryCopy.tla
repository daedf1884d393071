----------------------------- MODULE MemoryCopy -----------------------------
(* Copying k cells of a memory m from s on to d on. *)
EXTENDS Integers

(* Go's copy: the source is read as it was before anything is written. *)
CopyRange(m, d, s, k) ==
  [i \in DOMAIN m |-> IF d <= i /\ i < d + k THEN m[s + (i - d)] ELSE m[i]]

(* What forwardCopy (flexflate/copy.go) leaves: with an overlap to the     *)
(* right, the cells between s and d are repeated.                          *)
Forward(m, d, s, k) ==
  [i \in DOMAIN m |->
     IF ~(d <= i /\ i < d + k) THEN m[i]
     ELSE IF d <= s THEN m[s + (i - d)]
     ELSE m[s + ((i - d) % (d - s))]]

(* What its comment says: for i := 0; i < n; i++ { mem[dst+i] = mem[src+i] } *)
ByteByByte(m, d, s, k) ==
  LET turn[i \in 0..k] ==
        IF i = 0 THEN m
        ELSE [turn[i - 1] EXCEPT ![d + (i - 1)] = turn[i - 1][s + (i - 1)]]
  IN  turn[k]
=============================================================================
