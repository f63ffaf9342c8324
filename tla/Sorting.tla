------------------------------- MODULE Sorting -------------------------------
(***************************************************************************)
(* Sets in order: SetToSortSeq of the community modules, given by what the *)
(* sequence is and not by how it is sorted, so that its use can be         *)
(* reasoned about.                                                         *)
(***************************************************************************)
EXTENDS Integers, FiniteSets

\* The elements of a finite set, one before the other.
Sorted(S, Before(_, _)) ==
  CHOOSE s \in [1..Cardinality(S) -> S] :
    \A i, j \in DOMAIN s : i < j => Before(s[i], s[j])

\* A finite set of numbers, the least first.
Ascending(S) == Sorted(S, <)
=============================================================================
