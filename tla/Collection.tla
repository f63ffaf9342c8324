------------------------------ MODULE Collection ------------------------------
(***************************************************************************)
(* A Collection (src/src/collection.rs): a view of a BTree, a Table or a   *)
(* view of one, or a Tensor, under one set of operations, each of which    *)
(* goes to the class it is of.  Calls on a Tensor are in TensorRoutes.     *)
(***************************************************************************)
EXTENDS TableRoutes, BTreeViews

VARIABLE class  \* what the caller holds is of this class

collectionVars == <<vars, btreeVars, class>>

CollectionInit ==
  /\ class \in {"btree", "table", "tensor"}
  /\ Init /\ BTreeInit

\* Mutant of IsPersistent: a view of a tree is as good as the tree.
IsPersistent_AnyTree ==
  \/ class = "btree"
  \/ class = "table" /\ view.kind = "table" /\ ~source.local

\* A full persistent owner: not a slice, a local table or a Tensor.
IsPersistent ==
  \/ class = "btree" /\ WholeOwner(btree)
  \/ class = "table" /\ view.kind = "table" /\ ~source.local

\* Table::copy_into, then the caller goes on with the copy.
CopyTable ==
  LET copy == CopyInto(source, view)
      table == [schema |-> view.schema, local |-> FALSE, rows |-> copy.rows,
                inserts |-> {}, deletes |-> {}]
  IN  /\ Began
      /\ copy.ok
      /\ source' = table
      /\ view' = TableView(table)
      /\ reply' = "copied"
      /\ work' = Idle

\* Table::restore_from, in one step: the visible committed rows that the other table
\* has no row for are deleted, its rows are inserted, and that replaces the delta.
RestoreTable ==
  \E other \in Sources :
    /\ Began
    /\ IsPersistent /\ ~other.local /\ SchemaToValue(other.schema) = SchemaToValue(source.schema)
    /\ LET shown == Visible(other)
       IN  source' = [source EXCEPT
             !.inserts = shown,
             !.deletes = {r \in source.rows : \A x \in shown : KeyOf(x) # KeyOf(r)}]
    /\ Reply("restored")
    /\ work' = Idle

\* A copy or a restoration of anything else is refused, and no route of a Table or a
\* BTree leads to a Tensor.
CollectionNext ==
  \/ class = "btree" /\ BTreeNext /\ UNCHANGED <<vars, class>>
  \/ class = "table" /\ (Next \/ CopyTable \/ RestoreTable) /\ UNCHANGED <<btreeVars, class>>

CollectionSpec == CollectionInit /\ [][CollectionNext]_collectionVars

\* What may be restored from, or into, is a whole: it shows every visible key or row
\* in the natural order, so that a restoration neither loses nor keeps anything.
PersistentIsWhole ==
  IsPersistent =>
    IF class = "btree" THEN KeysIn(btree) = Ascending(keys)
    ELSE Rows(source, view) = RowStream(source.schema, Visible(source), NoRange, <<>>, FALSE)
=============================================================================
