----------------------------- MODULE ForwardCopy ----------------------------
(***************************************************************************)
(* forwardCopy (flexflate/copy.go): copying n bytes inside a memory from   *)
(* src to dst, always forward, although the two ranges may overlap.  One   *)
(* action is one turn of its loop.  mem0, dst0 and n0 are what it was      *)
(* called with.                                                            *)
(***************************************************************************)
EXTENDS MemoryCopy

CONSTANTS
  Byte,     \* what a cell of the memory holds
  Size      \* cells of the memory

ASSUME CopyAssumption == Size \in Nat /\ Byte # {}

VARIABLES mem, dst, src, n, pc, mem0, dst0, n0

copyVars == <<mem, dst, src, n, pc, mem0, dst0, n0>>

Memory == [0..Size-1 -> Byte]

Init ==
  /\ mem \in Memory /\ dst \in 0..Size /\ src \in 0..Size /\ n \in 0..Size
  /\ dst + n <= Size /\ src + n <= Size
  /\ pc = "copy"
  /\ mem0 = mem /\ dst0 = dst /\ n0 = n

(* One call of copy is enough: the bytes to read are not written first.    *)
(* A Mutant... definition is the next one with a mistake.                  *)
MutantOverlapByOne == dst <= src \/ dst + 1 >= src + n
Disjoint == dst <= src \/ dst >= src + n

CopyAll ==
  /\ pc = "copy" /\ Disjoint
  /\ mem' = CopyRange(mem, dst, src, n)
  /\ pc' = "done"
  /\ UNCHANGED <<dst, src, n, mem0, dst0, n0>>

(* One instance of the pattern, k bytes. *)
MutantPatternTooLong == dst - src + 1
Pattern == dst - src

MutantUncounted(k) == n
Remaining(k) == n - k

(* Otherwise one instance of the pattern is copied: twice as much can be   *)
(* copied the next time.                                                   *)
CopyPattern ==
  /\ pc = "copy" /\ ~Disjoint
  /\ mem' = CopyRange(mem, dst, src, Pattern)
  /\ n' = Remaining(Pattern) /\ dst' = dst + Pattern
  /\ UNCHANGED <<src, pc, mem0, dst0, n0>>

Next == CopyAll \/ CopyPattern

Spec == Init /\ [][Next]_copyVars /\ WF_copyVars(Next)
-----------------------------------------------------------------------------
CopyTypeOK ==
  /\ mem \in Memory /\ mem0 \in Memory
  /\ dst \in 0..Size /\ dst0 \in 0..Size /\ src \in 0..Size
  /\ n \in 0..Size /\ n0 \in 0..Size
  /\ dst + n <= Size /\ src + n <= Size
  /\ pc \in {"copy", "done"}

(* The doubled copies of the loop leave what a copy byte by byte leaves:   *)
(* the periodic repetition of the overlap, and nothing else is touched     *)
(* (copy.go:13-31).                                                        *)
CopiesForward ==
  pc = "done" => mem = Forward(mem0, dst0, src, n0)

(* The closed form used in proofs is the loop of the comment (copy.go:9-12). *)
ForwardIsByteByByte ==
  pc = "done" => mem = ByteByByte(mem0, dst0, src, n0)

=============================================================================
