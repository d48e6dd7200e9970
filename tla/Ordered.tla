------------------------------- MODULE Ordered -------------------------------
(***************************************************************************)
(* The elements of a set, and those of a sequence, put in an order: what a *)
(* loop over a list or a table makes of the entries it takes.              *)
(***************************************************************************)
EXTENDS Integers, Sequences, FiniteSets

\* The elements of S in the order R: as many come before one as its place says.
Sorted(S, R) ==
  [i \in 1..Cardinality(S) |->
     CHOOSE x \in S : Cardinality({y \in S : <<y, x>> \in R}) = i - 1]

\* The numbers of I, ascending.
InOrder(I) == Sorted(I, {ij \in I \X I : ij[1] < ij[2]})

\* The elements of s at the places I, in their order.
Selected(s, I) == [k \in 1..Cardinality(I) |-> s[InOrder(I)[k]]]
=============================================================================
