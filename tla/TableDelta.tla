------------------------------ MODULE TableDelta ------------------------------
(***************************************************************************)
(* The delta of one transaction on a Table (src/src/table/file.rs): rows   *)
(* to insert and rows to delete, each in a native table that is keyed by   *)
(* the key columns.  A deleted row is kept whole, since range reads find   *)
(* it by its columns.                                                      *)
(*                                                                         *)
(* A native table is a function from keys to values, NoRow where it has    *)
(* none.  A range is the set of the rows that lie in it.                   *)
(***************************************************************************)
EXTENDS TxnSemaphore

CONSTANTS Val, NoRow

\* A row has a value, if only that of no columns.
ASSUME NoRowAssumption == NoRow \notin Val /\ Val # {}

Row == [key : Key, val : Val]
Native == [Key -> Val \cup {NoRow}]
Delta == [inserts : Native, deletes : Native]

\* Delta::create
NoRows == [k \in Key |-> NoRow]
EmptyDelta == [inserts |-> NoRows, deletes |-> NoRows]

\* row_stream over a range, in the natural order, in which no two rows tie.
RowsIn(native, range) == {r \in range : native[r.key] = r.val}

\* Mutant of LeaveDeletes: an upsert forgets the earlier delete of its key.
LeaveDeletes_Not(d, k) == d

\* The native steps of upsert, delete_from_inserts and add_to_deletes.
LeaveDeletes(d, k) == [d EXCEPT !.deletes[k] = NoRow]
LeaveInserts(d, k) == [d EXCEPT !.inserts[k] = NoRow]
JoinInserts(d, r) == [d EXCEPT !.inserts[r.key] = r.val]
JoinDeletes(d, r) == [d EXCEPT !.deletes[r.key] = r.val]

-----------------------------------------------------------------------------
\* resolve_row, one layer: deletes hide the row, then inserts show one.
ResolveThrough(native, d) ==
  [k \in Key |-> IF d.inserts[k] # NoRow THEN d.inserts[k]
                 ELSE IF d.deletes[k] # NoRow THEN NoRow
                 ELSE native[k]]

\* Mutant of WithoutRows: nothing is taken out.
WithoutRows_None(rows, deleted) == rows

\* try_merge with the delta on the left, and try_diff: rows meet by their keys.
WithoutRows(rows, others) == {r \in rows : \A x \in others : x.key # r.key}

\* merge_into: one layer of a range read.  Inserted and deleted rows are those of
\* the delta that lie in the range themselves.
MergeInto(rows, d, range) ==
  LET inserted == RowsIn(d.inserts, range)
  IN  WithoutRows(inserted \cup WithoutRows(rows, inserted), RowsIn(d.deletes, range))

\* Mutant of ApplyTo: a deleted row that canonical storage holds is kept.
ApplyTo_KeepsDeleted(native, d) ==
  [k \in Key |-> IF d.inserts[k] # NoRow THEN d.inserts[k] ELSE native[k]]

\* apply_to: upsert the inserts, then delete the deletes.
ApplyTo(native, d) ==
  [k \in Key |-> IF d.deletes[k] # NoRow THEN NoRow
                 ELSE IF d.inserts[k] # NoRow THEN d.inserts[k]
                 ELSE native[k]]
=============================================================================
