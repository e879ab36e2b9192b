------------------------------- MODULE Listing -------------------------------
(* Sorted lists of the elements of a finite set, as Python's sorted returns  *)
(* them. SortSeq and SetToSortSeq of the community modules say the same, but *)
(* through recursive operators that the proofs could not look into.          *)
EXTENDS Integers, FiniteSets

\* The elements of S in the order of the relation R: the i-th has i - 1 before it.
Listed(S, R) ==
  [i \in 1..Cardinality(S) |->
     CHOOSE x \in S : Cardinality({y \in S : <<y, x>> \in R}) = i - 1]

Ascending(S) ==
  [i \in 1..Cardinality(S) |->
     CHOOSE x \in S : Cardinality({y \in S : y < x}) = i - 1]
=============================================================================
