------------------------------ MODULE Sorting ------------------------------
(***************************************************************************)
(* Sorting a finite set by a strict total order on it, and adding up.      *)
(* SetToSortSeq of the community modules chooses a permutation; here the   *)
(* place of an element is counted, so that what the result is follows      *)
(* from cardinalities; sums are counted too.                               *)
(***************************************************************************)
EXTENDS Integers, FiniteSets

\* The members of S that R puts before x.
Ahead(S, R, x) == {y \in S : <<y, x>> \in R}

\* S in the order R: the i-th has i - 1 others ahead.
Sorted(S, R) ==
  [i \in 1 .. Cardinality(S) |-> CHOOSE x \in S : Cardinality(Ahead(S, R, x)) = i - 1]

\* The sum of the natural numbers a function gives to the members of its domain.
Total(f) == Cardinality(UNION {{x} \X (1 .. f[x]) : x \in DOMAIN f})
=============================================================================
