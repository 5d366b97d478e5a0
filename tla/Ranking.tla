------------------------------ MODULE Ranking ------------------------------
(***************************************************************************)
(* Sorting by counting: the k-th element is the one with k - 1 before it.  *)
(* The orders here are strict and total on what is sorted.  (SortSeq and   *)
(* SelectSeq have no definition that the prover can open.)                 *)
(***************************************************************************)
EXTENDS Integers, FiniteSets

Ranked(S, Before(_, _)) ==
  [k \in 1 .. Cardinality(S) |->
     CHOOSE x \in S : Cardinality({y \in S : Before(y, x)}) = k - 1]

\* The numbers of a set in their order, and the items of a sequence in theirs.
Ascending(S) == Ranked(S, <)
Sorted(items, Before(_, _)) == Ranked({items[i] : i \in DOMAIN items}, Before)
=============================================================================
