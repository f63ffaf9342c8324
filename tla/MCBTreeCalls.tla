---------------------------- MODULE MCBTreeCalls ----------------------------
(* BTree for TLC with the number of calls in a behaviour bounded. *)
EXTENDS BTreeRefinement, FiniteSets, TLC

CONSTANT MaxCalls  \* reads and writes that are started in a behaviour

VARIABLE started

MCSymmetry == Permutations(Key) \cup Permutations(Op)

MCInit == Init /\ started = 0
MCNext ==
  /\ Next
  /\ started' = started + Cardinality({o \in Op : pc[o] = "idle" /\ pc'[o] # "idle"})
  /\ started' <= MaxCalls

MCSpec == MCInit /\ [][MCNext]_<<vars, started>>
=============================================================================
