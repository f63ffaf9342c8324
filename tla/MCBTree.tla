------------------------------- MODULE MCBTree -------------------------------
(* Small instances of BTree for TLC. *)
EXTENDS BTreeRefinement, TLC

\* Keys and operation slots are interchangeable; transactions are ordered.
MCSymmetry == Permutations(Key) \cup Permutations(Op)
=============================================================================
