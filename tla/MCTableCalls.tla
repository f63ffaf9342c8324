---------------------------- MODULE MCTableCalls ----------------------------
(* Table for TLC with the number of writes in a behaviour bounded. *)
EXTENDS MCTable

CONSTANT MaxCalls  \* writes that are started in a behaviour

VARIABLE started

\* Canonical storage starts with rows of one value; writes bring in the other.
MCInit ==
  /\ Init
  /\ \A k \in Key : persistent[k] \in {NoRow, CHOOSE v \in Val : TRUE}
  /\ started = 0
MCNext ==
  /\ Next
  /\ started' = started + Cardinality({o \in Op : pc[o] = "idle" /\ pc'[o] # "idle"})
  /\ started' <= MaxCalls

MCSpec == MCInit /\ [][MCNext]_<<vars, started>>
=============================================================================
