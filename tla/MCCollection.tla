----------------------------- MODULE MCCollection -----------------------------
(* A small instance of Collection for TLC. *)
EXTENDS Collection, MCTableViews

MCBounds == {Unbounded} \cup {Included(k) : k \in 2..3} \cup {Excluded(k) : k \in 2..3}

\* One class at a time: what the caller does not hold has one initial state.
MCCollectionInit ==
  /\ CollectionInit
  /\ class # "table" => source = CHOOSE s \in Sources : TRUE
  /\ class # "btree" => keys = {}

MCCollectionSpec == MCCollectionInit /\ [][CollectionNext]_collectionVars
=============================================================================
