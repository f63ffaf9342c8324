------------------------------ MODULE TableViews ------------------------------
(***************************************************************************)
(* A Table and the views over it (src/src/table/view.rs, stream.rs and the *)
(* read side of file.rs): a slice has a range and an order, a limited view *)
(* a cap, a selection some of the columns.  A view holds no rows: each     *)
(* read streams them from the source and transforms them on the way.       *)
(*                                                                         *)
(* A row is the sequence of its cells, key columns first, and a native     *)
(* table the set of its rows.  A range maps some columns to the cells it   *)
(* admits.  Calls are atomic here: Table has their interleavings.          *)
(***************************************************************************)
EXTENDS TableSchema

NoLimit == -1

Key(schema, row) == SubSeq(row, 1, KeyLen(schema))
Values(schema, row) == SubSeq(row, KeyLen(schema) + 1, Len(row))
RowsWithKey(schema, rows, key) == {r \in rows : Key(schema, r) = key}

\* A source is a persistent table as one transaction sees it, or a local table,
\* which has no transactions: canonical rows alone.
Without(rows, schema, key) == {r \in rows : Key(schema, r) # key}
IsTable(t) ==
  /\ IsSchema(t.schema)
  /\ t \in [schema : {t.schema}, local : BOOLEAN,
            rows : {t.rows}, inserts : {t.inserts}, deletes : {t.deletes}]
  /\ \A rows \in {t.rows, t.inserts, t.deletes} :
       /\ IsFiniteSet(rows)
       /\ \A r \in rows : IsCells(r) /\ Fits(r, t.schema.types)
       /\ \A r, x \in rows : Key(t.schema, r) = Key(t.schema, x) => r = x
  /\ \A r \in t.inserts, x \in t.deletes : Key(t.schema, r) # Key(t.schema, x)
  /\ t.local => t.inserts = {} /\ t.deletes = {}

\* A table after one change for each row of a stream.
Through(Change(_, _), table, rows) ==
  LET after[i \in 0..Len(rows)] == IF i = 0 THEN table ELSE Change(after[i - 1], rows[i])
  IN  after[Len(rows)]

Admits(schema, range, row) ==
  \A c \in DOMAIN range : row[Where(Columns(schema), c)] \in range[c]

-----------------------------------------------------------------------------
(* Streams of rows in order.                                               *)

KeyPlaces(schema) == [i \in 1..KeyLen(schema) |-> i]
Places(schema, columns) == [i \in DOMAIN columns |-> Where(Columns(schema), columns[i])]

Rank(cell) == cell[Class(cell)]

\* Cells are compared place by place.
Lower(places, l, r) ==
  \E i \in DOMAIN places : /\ Rank(l[places[i]]) < Rank(r[places[i]])
                           /\ \A j \in 1..(i - 1) : l[places[j]] = r[places[j]]
Ahead(places, reverse, l, r) == IF reverse THEN Lower(places, r, l) ELSE Lower(places, l, r)

\* row_stream: the native order of an ordered read ends with the key.
RowStream(schema, rows, range, order, reverse) ==
  LET places == Places(schema, order) \o KeyPlaces(schema)
  IN  Sorted({r \in rows : Admits(schema, range, r)},
             LAMBDA l, r : Ahead(places, reverse, l, r))

\* RowCollator::for_order: rows meet by the order columns alone, or by the key.
CollatorPlaces(schema, order) ==
  IF order = <<>> THEN KeyPlaces(schema) ELSE Places(schema, order)

\* Where two streams are read together: a place of each, or past its end.
Grid(left, right) == (1..(Len(left) + 1)) \X (1..(Len(right) + 1))

\* try_merge: of two rows that meet, the one on the left.
Merged(left, right, places, reverse) ==
  LET M[p \in Grid(left, right)] ==
        LET i == p[1]
            j == p[2]
        IN  IF i > Len(left) THEN SubSeq(right, j, Len(right))
            ELSE IF j > Len(right) THEN SubSeq(left, i, Len(left))
            ELSE IF Ahead(places, reverse, left[i], right[j]) THEN <<left[i]>> \o M[<<i + 1, j>>]
            ELSE IF Ahead(places, reverse, right[j], left[i]) THEN <<right[j]>> \o M[<<i, j + 1>>]
            ELSE <<left[i]>> \o M[<<i + 1, j + 1>>]
  IN  M[<<1, 1>>]

\* try_diff: rows that meet a row on the right are dropped, and it with them.
Diffed(left, right, places, reverse) ==
  LET D[p \in Grid(left, right)] ==
        LET i == p[1]
            j == p[2]
        IN  IF i > Len(left) \/ j > Len(right) THEN SubSeq(left, i, Len(left))
            ELSE IF Ahead(places, reverse, left[i], right[j]) THEN <<left[i]>> \o D[<<i + 1, j>>]
            ELSE IF Ahead(places, reverse, right[j], left[i]) THEN D[<<i, j + 1>>]
            ELSE D[<<i + 1, j + 1>>]
  IN  D[<<1, 1>>]

\* TableSource::rows
SourceRows(source, range, order, reverse) ==
  LET schema == source.schema
      Stream(rows) == RowStream(schema, rows, range, order, reverse)
      places == CollatorPlaces(schema, order)
  IN  IF source.local THEN Stream(source.rows)
      ELSE Diffed(Merged(Stream(source.inserts), Stream(source.rows), places, reverse),
                  Stream(source.deletes), places, reverse)

\* Mutant of ReadRow: rows that the delta deletes are still read.
ReadRow_Deleted(source, key) ==
  LET inserted == RowsWithKey(source.schema, source.inserts, key)
  IN  IF inserted # {} THEN inserted ELSE RowsWithKey(source.schema, source.rows, key)

\* read_row: resolve_row over the delta, or the native row.
ReadRow(source, key) ==
  LET inserted == RowsWithKey(source.schema, source.inserts, key)
  IN  IF inserted # {} THEN inserted
      ELSE IF RowsWithKey(source.schema, source.deletes, key) # {} THEN {}
      ELSE RowsWithKey(source.schema, source.rows, key)

\* The rows of the snapshot that every read is a part of.
Visible(source) ==
  LET seen == source.rows \cup source.inserts
  IN  UNION {ReadRow(source, Key(source.schema, r)) : r \in seen}

-----------------------------------------------------------------------------
(* Views.                                                                  *)

NoRange == <<>>
TableView(source) ==
  [kind |-> "table", range |-> NoRange, order |-> <<>>, reverse |-> FALSE,
   limit |-> NoLimit, columns |-> <<>>, schema |-> source.schema]
NoView == [TableView([schema |-> NoSchema]) EXCEPT !.kind = "error"]

SliceOf(view, range, order, reverse) ==
  [view EXCEPT !.kind = "slice", !.range = range, !.order = order, !.reverse = reverse]
LimitedOf(slice, n) == [slice EXCEPT !.kind = "limited", !.limit = n]
\* TableSlice::select and Limited::select: the source is the slice below either.
SelectionOf(view, columns) ==
  LET p == Project(view.schema, columns)
  IN  IF p.schema = NoSchema THEN NoView
      ELSE [view EXCEPT !.kind = "selection", !.schema = p.schema, !.columns = p.columns]

\* Table::slice, order_by, limit and select: of a table alone.
SliceTable(view, range, order, reverse) ==
  IF view.kind = "table" THEN SliceOf(view, range, order, reverse) ELSE NoView
LimitTable(view, n) ==
  IF view.kind = "table" THEN LimitedOf(SliceOf(view, NoRange, <<>>, FALSE), n) ELSE NoView
SelectTable(view, columns) ==
  IF view.kind = "table" THEN SelectionOf(SliceOf(view, NoRange, <<>>, FALSE), columns)
                         ELSE NoView

\* TableSlice::slice: the new bound of a column replaces the one it had.
Narrow(view, range) == [view EXCEPT !.range = range @@ view.range]

Take(rows, n) == IF n = NoLimit THEN rows ELSE SubSeq(rows, 1, IF n < Len(rows) THEN n ELSE Len(rows))
Pick(source, rows, columns) ==
  LET places == Places(source.schema, columns)
  IN  [i \in DOMAIN rows |-> [c \in DOMAIN places |-> rows[i][places[c]]]]

Slice(source, view) == SourceRows(source, view.range, view.order, view.reverse)

\* rows of a slice, of a limited view, of a selection.
Rows(source, view) ==
  LET capped == Take(Slice(source, view), view.limit)
  IN  IF view.kind = "selection" THEN Pick(source, capped, view.columns) ELSE capped

\* count_in and is_empty_in of the source know the range alone.
CountIn(source, view) == Len(SourceRows(source, view.range, <<>>, FALSE))

Count(source, view) ==
  IF view.kind = "limited"
    THEN IF view.limit = 0 THEN 0 ELSE Len(Rows(source, view))
    ELSE CountIn(source, view)

\* Mutant of IsEmpty: a cap of zero is not looked at.
IsEmpty_NoCap(source, view) == CountIn(source, view) = 0

IsEmpty(source, view) ==
  \/ view.kind = "limited" /\ view.limit = 0
  \/ CountIn(source, view) = 0

\* for_each_row_in_order: a selection goes to its slice, past the cap.
ForEach(source, view) ==
  IF view.kind = "selection" THEN Pick(source, Slice(source, view), view.columns)
                             ELSE Rows(source, view)

\* copy_into: each row of the view is loaded into a new table of its schema; a row
\* that does not fit ends the copy with an error.
Load(rows, schema, row) ==
  Without(rows, schema, Key(schema, row)) \cup {row}
CopyInto(source, view) ==
  LET rows == Rows(source, view)
      Fit(r) == ValidateKey(view.schema, Key(view.schema, r))
                /\ ValidateValues(view.schema, Values(view.schema, r))
  IN  IF \A i \in DOMAIN rows : Fit(rows[i])
        THEN [ok |-> TRUE, rows |-> Through(LAMBDA t, r : Load(t, view.schema, r), {}, rows)]
        ELSE [ok |-> FALSE, rows |-> {}]
=============================================================================
