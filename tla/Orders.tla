--------------------------------- MODULE Orders ---------------------------------
(***************************************************************************)
(* The elements of a finite set in an order, and of a sequence those at    *)
(* some positions: what SetToSortSeq and SelectSeq compute, in a form that *)
(* the provers can open.                                                   *)
(***************************************************************************)
EXTENDS Integers, FiniteSets, Sequences

(* sorted(): the n-th element is the one that n - 1 others are before. *)
InOrder(S, Before(_, _)) ==
  [n \in 1..Cardinality(S) |-> CHOOSE x \in S : Cardinality({y \in S : Before(y, x)}) = n - 1]

Ascending(K) == InOrder(K, LAMBDA i, j : i < j)

(* A list comprehension: the elements of a sequence at the positions K, as they stand in it. *)
Selected(s, K) == [n \in 1..Cardinality(K) |-> s[Ascending(K)[n]]]
=============================================================================
