------------------------------ MODULE MCFindCode -----------------------------
(***************************************************************************)
(* Instances of FindCode for TLC: snapshots of different sizes, so that    *)
(* one leaves chunks of another behind it.                                 *)
(***************************************************************************)
EXTENDS FindCodeInv, TLC

CONSTANTS w1, w2, w3

Shape(b, o) == [a \in Arrays |-> IF a = "buf" THEN b ELSE o]

\* The first snapshot is the longer one.
MCChunkCount == w1 :> Shape(2, 1) @@ w2 :> Shape(1, 1)
MCChunkCount1 == [w \in Workers |-> Shape(1, 1)]
\* A program in which nothing is disassembled: only the leading line feed is stored.
MCChunkCount0 == [w \in Workers |-> Shape(1, 0)]

MCSymmetry == Permutations(Windows)
=============================================================================
