----------------------------- MODULE BTreeDelta -----------------------------
(***************************************************************************)
(* The delta of one transaction on a BTree (src/src/btree/file.rs): the    *)
(* keys it inserts and the keys it deletes, each kept in a native tree.    *)
(* A call of insert or delete awaits twice, so it is two steps; another    *)
(* task runs, or the call is dropped, between them.                        *)
(***************************************************************************)

DeltaOver(keys) == [inserts : SUBSET keys, deletes : SUBSET keys]

\* Delta::create
EmptyDelta == [inserts |-> {}, deletes |-> {}]

\* Mutant of InsertFirst: insert forgets the earlier delete of the key.
InsertFirst_KeepsDelete(d, k) == d

\* Delta::insert: first the key leaves the deletes, then it joins the inserts.
InsertFirst(d, k) == [d EXCEPT !.deletes = @ \ {k}]
InsertSecond(d, k) == [d EXCEPT !.inserts = @ \cup {k}]

\* Delta::delete: first the key leaves the inserts, then it joins the deletes.
DeleteFirst(d, k) == [d EXCEPT !.inserts = @ \ {k}]
DeleteSecond(d, k) == [d EXCEPT !.deletes = @ \cup {k}]

Mentions(d, k) == k \in d.inserts \cup d.deletes

\* One layer of is_row_visible, and of the diff-then-merge of the streams: the
\* deletes hide the key, then the inserts show it.
Shows(d, k, below) == k \in d.inserts \/ (below /\ k \notin d.deletes)
=============================================================================
