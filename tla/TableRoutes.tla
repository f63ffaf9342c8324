------------------------------ MODULE TableRoutes ------------------------------
(***************************************************************************)
(* The routes of a Table (src/src/table/public and mod.rs): a caller holds *)
(* a table or a view of it, calls one route after another, and goes on     *)
(* with the view it is answered.  A refused call leaves the view as it was.*)
(*                                                                         *)
(* A write to a persistent table is one step, the transaction's delta      *)
(* being what Table has in detail; the rewrite of a local table, which has *)
(* no delta, goes row by row and may be dropped between two.               *)
(***************************************************************************)
EXTENDS TableViews

CONSTANTS Cells,        \* the cells that a bound of a range may admit
          Sources,      \* tables a behaviour starts from
          Selectors,    \* values passed as selectors and as bounds
          Updates,      \* maps from column names to cells
          Puts,         \* [key, values] of rows put and inserted
          Orders,       \* [columns, reverse]
          ColumnLists,  \* columns selected
          Limits,
          MaxCalls      \* routes called in a behaviour

\* What the types of the code's parameters promise.  A tuple as a cell is left out: in
\* a selector it reads as bounds.
ASSUME TableAssumption ==
  /\ CellClass \cap {"tuple", "none"} = {}
  /\ \A s \in Sources : IsTable(s)
  /\ \A v \in Selectors : IsTup(v) => v.tuple \in Seq(Range(v.tuple))
  /\ \A u \in Updates : \A c \in DOMAIN u : IsCells(<<u[c]>>)
  /\ \A p \in Puts : IsCells(p.key) /\ IsCells(p.values)
  /\ \A o \in Orders : o.columns \in Seq(Name) /\ o.reverse \in BOOLEAN
  /\ ColumnLists \subseteq Seq(Name)
  /\ Limits \subseteq Nat

VARIABLES source,  \* the table: its schema, rows and delta
          view,    \* what the caller holds
          work,    \* the rewrite of a local table in flight
          was,     \* history: the visible rows when the last call began
          reply,   \* how the last call was answered
          calls

vars == <<source, view, work, was, reply, calls>>

Idle == [phase |-> "idle", updating |-> FALSE, left |-> <<>>, goal |-> <<>>]

Init ==
  /\ source \in Sources
  /\ view = TableView(source)
  /\ work = Idle
  /\ was = Visible(source)
  /\ reply = "none"
  /\ calls = 0

-----------------------------------------------------------------------------
(* Selectors.                                                              *)

IsBound(v) ==
  \/ v = None
  \/ IsPair(v) /\ v.tuple[1] \in {Str("in"), Str("ex")}
AboveBound(c, v) ==
  \/ v = None
  \/ /\ Class(c) = Class(v.tuple[2])
     /\ IF v.tuple[1] = Str("in") THEN Rank(c) >= Rank(v.tuple[2]) ELSE Rank(c) > Rank(v.tuple[2])
BelowBound(c, v) ==
  \/ v = None
  \/ /\ Class(c) = Class(v.tuple[2])
     /\ IF v.tuple[1] = Str("in") THEN Rank(c) <= Rank(v.tuple[2]) ELSE Rank(c) < Rank(v.tuple[2])

\* A 2-tuple is a lower and an upper bound, anything else the one cell admitted.
ColumnRange(v) ==
  IF IsPair(v)
    THEN {c \in Cells : AboveBound(c, v.tuple[1]) /\ BelowBound(c, v.tuple[2])}
    ELSE {v}

NamesColumn(schema, v) ==
  IsPair(v) /\ Class(v.tuple[1]) = "string" /\ v.tuple[1].string \in ToSet(Columns(schema))

\* cast_into_range: the later of two entries for a column counts.
RangeOf(entries) ==
  LET names == {e.tuple[1].string : e \in ToSet(entries)}
      Latest(name) == SelectLastInSeq(entries, LAMBDA e : e.tuple[1].string = name)
  IN  [c \in names |-> ColumnRange(entries[Latest(c)].tuple[2])]
CastIntoRange(schema, v) ==
  IF v = None THEN [sel |-> "range", range |-> NoRange]
  ELSE IF /\ IsTup(v)
          /\ \A e \in ToSet(v.tuple) :
               /\ NamesColumn(schema, e)
               /\ IsPair(e.tuple[2]) => \A b \in ToSet(e.tuple[2].tuple) : IsBound(b)
    THEN [sel |-> "range", range |-> RangeOf(v.tuple)]
    ELSE [sel |-> "error"]

\* KeyOrRange::try_from_value: a tuple of column bounds is a range before any tuple
\* of the length of the key is a key.
Selector(schema, v) ==
  IF v = None \/ v = Tup(<<>>) THEN [sel |-> "all", range |-> NoRange]
  ELSE IF ~IsTup(v) THEN [sel |-> "error"]
  ELSE IF \A e \in ToSet(v.tuple) : NamesColumn(schema, e) THEN CastIntoRange(schema, v)
  ELSE IF Len(v.tuple) = KeyLen(schema) THEN [sel |-> "key", key |-> v.tuple]
  ELSE [sel |-> "error"]

\* The count route: -1 stands for an error.
Counted(v) ==
  LET s == Selector(view.schema, v) IN
  CASE s.sel = "all" -> Count(source, view)
    [] s.sel = "key" /\ view.kind = "table" -> Cardinality(ReadRow(source, s.key))
    [] s.sel = "range" /\ view.kind = "table" ->
         Count(source, SliceTable(view, s.range, <<>>, FALSE))
    [] OTHER -> -1

\* The is_empty route, which the contains route negates.
Emptied(v) ==
  LET s == Selector(view.schema, v) IN
  CASE s.sel = "all" -> IsEmpty(source, view)
    [] s.sel = "key" -> ReadRow(source, s.key) = {}
    [] s.sel = "range" -> IsEmpty(source, SliceTable(view, s.range, <<>>, FALSE))

-----------------------------------------------------------------------------
(* Writes.                                                                 *)

KeyOf(row) == Key(source.schema, row)
RowFits(row) == Fits(row, source.schema.types)
Deleted(rows, key) == Without(rows, source.schema, key)

\* Mutant of DeltaUpsert: the native table takes any row.
DeltaUpsert_Unchecked(acc, row) ==
  [ok |-> TRUE,
   table |-> [acc.table EXCEPT !.deletes = Deleted(@, KeyOf(row)),
                               !.inserts = Deleted(@, KeyOf(row)) \cup {row}]]

\* Delta::upsert: the row leaves both sides before the native table checks it.
DeltaUpsert(acc, row) ==
  LET left == [acc.table EXCEPT !.deletes = Deleted(@, KeyOf(row)),
                                !.inserts = Deleted(@, KeyOf(row))]
  IN  IF ~acc.ok THEN acc
      ELSE [ok |-> RowFits(row),
            table |-> IF RowFits(row) THEN [left EXCEPT !.inserts = @ \cup {row}] ELSE left]

DeltaDelete(table, row) ==
  [table EXCEPT !.inserts = Deleted(@, KeyOf(row)),
                !.deletes = Deleted(@, KeyOf(row)) \cup {row}]

\* Range::intersection, column by column; empty where no cell is left.
Intersection(range, other) ==
  [c \in DOMAIN range \cup DOMAIN other |->
     IF c \notin DOMAIN other THEN range[c]
     ELSE IF c \notin DOMAIN range THEN other[c]
     ELSE range[c] \cap other[c]]

\* Mutant of Within: the bounds of the request replace those of the view.
Within_Replaced(range) == range @@ view.range

\* A bulk write through a slice writes within it.
Within(range) == Intersection(view.range, range)

Updated(row, values) ==
  [i \in DOMAIN row |-> LET name == Columns(source.schema)[i]
                        IN  IF i > KeyLen(source.schema) /\ name \in DOMAIN values
                              THEN values[name] ELSE row[i]]
UpdateFits(values) == DOMAIN values \subseteq ToSet(source.schema.values)

Began == was' = Visible(source) /\ calls < MaxCalls /\ calls' = calls + 1 /\ work.phase = "idle"
Reply(answer) == reply' = answer /\ UNCHANGED view
Refuse == Reply("error") /\ work' = Idle /\ UNCHANGED source
Stored(table, ok) == source' = table /\ Reply(IF ok THEN "ok" ELSE "error") /\ work' = Idle

Mutable == view.kind \in {"table", "slice"}
TargetRows(range) == SourceRows(source, Within(range), <<>>, FALSE)

\* update and truncate of a persistent table, from the visible rows of the range.
UpdateFile(range, values) ==
  LET rows == TargetRows(range)
      new == [i \in DOMAIN rows |-> Updated(rows[i], values)]
      done == Through(DeltaUpsert, [ok |-> TRUE, table |-> source], new)
  IN  Stored(done.table, done.ok)
TruncateFile(range) == Stored(Through(DeltaDelete, source, TargetRows(range)), TRUE)

\* rewrite_local: all rows are staged, and checked, before the first is written.
RewriteLocal(rows, updating) ==
  IF \E i \in DOMAIN rows : ~RowFits(rows[i]) THEN Refuse
  ELSE /\ work' = [phase |-> IF rows = <<>> THEN "idle" ELSE "delete",
                   updating |-> updating, left |-> rows, goal |-> rows]
       /\ Reply("ok")
       /\ UNCHANGED source
UpdateLocal(range, values) ==
  LET rows == TargetRows(range)
  IN  RewriteLocal([i \in DOMAIN rows |-> Updated(rows[i], values)], TRUE)
TruncateLocal(range) == RewriteLocal(TargetRows(range), FALSE)

Tell(answer) == Reply(answer) /\ work' = Idle /\ UNCHANGED source

\* A write through a slice that the request does not meet is answered at once.
Misses(range) == view.kind = "slice" /\ \E c \in DOMAIN Within(range) : Within(range)[c] = {}

Update(range, values) ==
  IF Misses(range) THEN Tell("ok")
  ELSE IF ~Mutable \/ ~UpdateFits(values) THEN Refuse
  ELSE IF source.local THEN UpdateLocal(range, values)
  ELSE UpdateFile(range, values)
Truncate(range) ==
  IF ~Mutable THEN Refuse
  ELSE IF source.local THEN TruncateLocal(range)
  ELSE TruncateFile(range)

\* Mutant of RewriteDelete: every row is deleted before the first is put back.
RewriteDelete_All ==
  /\ work.phase = "delete"
  /\ source' = [source EXCEPT !.rows = {r \in @ : \A n \in ToSet(work.left) : KeyOf(n) # KeyOf(r)}]
  /\ work' = [work EXCEPT !.phase = IF work.updating THEN "upsert" ELSE "idle"]
  /\ UNCHANGED <<view, was, reply, calls>>

NextRow ==
  [work EXCEPT !.left = Tail(@), !.phase = IF Len(work.left) = 1 THEN "idle" ELSE "delete"]

\* One row of the rewrite: out, and back in.
RewriteDelete ==
  /\ work.phase = "delete"
  /\ source' = [source EXCEPT !.rows = Deleted(@, KeyOf(Head(work.left)))]
  /\ work' = IF work.updating THEN [work EXCEPT !.phase = "upsert"]
             ELSE NextRow
  /\ UNCHANGED <<view, was, reply, calls>>
RewriteUpsert ==
  /\ work.phase = "upsert"
  /\ source' = [source EXCEPT !.rows = @ \cup {Head(work.left)}]
  /\ work' = NextRow
  /\ UNCHANGED <<view, was, reply, calls>>
\* The call is dropped at an await.
RewriteDropped ==
  /\ work.phase # "idle"
  /\ work' = [work EXCEPT !.phase = "idle"]
  /\ UNCHANGED <<source, view, was, reply, calls>>

\* upsert_row: a persistent table checks the row first, a local one deletes first.
Upsert(key, values) ==
  LET row == key \o values
      fits == ValidateKey(source.schema, key) /\ ValidateValues(source.schema, values)
  IN  IF view.kind # "table" THEN Refuse
      ELSE IF source.local
        THEN Stored([source EXCEPT !.rows = Deleted(@, key) \cup IF fits THEN {row} ELSE {}], fits)
      ELSE IF ~fits THEN Refuse
      ELSE Stored(DeltaUpsert([ok |-> TRUE, table |-> source], row).table, TRUE)

\* insert_row: an error if there is a row, and on either table if it does not fit.
InsertRow(key, values) ==
  IF \/ view.kind # "table" \/ ReadRow(source, key) # {}
     \/ ~ValidateKey(source.schema, key) \/ ~ValidateValues(source.schema, values)
    THEN Refuse
    ELSE Upsert(key, values)

\* delete_row: an inserted row, or the visible one, is recorded as deleted.
DeleteRow(key) ==
  IF view.kind # "table" \/ (~source.local /\ ~ValidateKey(source.schema, key)) THEN Refuse
  ELSE IF source.local THEN Stored([source EXCEPT !.rows = Deleted(@, key)], TRUE)
  ELSE Stored(Through(DeltaDelete, source, SetToSeq(ReadRow(source, key))), TRUE)

-----------------------------------------------------------------------------
(* Routes, and the methods of views that no route reaches.                 *)

Hold(new) ==
  /\ IF new.kind = "error" THEN Reply("error") ELSE view' = new /\ reply' = "view"
  /\ work' = Idle
  /\ UNCHANGED source

Get == \E v \in Selectors : Began /\
  LET s == Selector(view.schema, v) IN
  CASE s.sel = "all" -> Hold(view)
    [] s.sel = "range" -> Hold(SliceTable(view, s.range, <<>>, FALSE))
    [] s.sel = "key" /\ view.kind = "table" ->
         Tell(IF ReadRow(source, s.key) = {} THEN "value" ELSE "row")
    [] OTHER -> Refuse
Post == \E v \in Selectors : Began /\
  LET s == CastIntoRange(view.schema, v)
  IN IF s.sel = "error" THEN Refuse ELSE Hold(SliceTable(view, s.range, <<>>, FALSE))
PutRange == \E v \in Selectors, values \in Updates : Began /\
  LET s == Selector(view.schema, v)
  IN IF s.sel \in {"all", "range"} THEN Update(s.range, values) ELSE Refuse
PutRow == \E p \in Puts : Began /\ Upsert(p.key, p.values)
Delete == \E v \in Selectors : Began /\
  LET s == Selector(view.schema, v) IN
  CASE s.sel \in {"all", "range"} -> Truncate(s.range)
    [] s.sel = "key" -> DeleteRow(s.key)
    [] OTHER -> Refuse
Insert == \E p \in Puts : Began /\ InsertRow(p.key, p.values)
Counting == \E v \in Selectors : Began /\ Tell(IF Counted(v) = -1 THEN "error" ELSE "value")
Limit == \E n \in Limits : Began /\ Hold(LimitTable(view, n))
\* Every read in the order of a column that the table has not is an error: left out.
Order == \E o \in Orders : Began /\ ToSet(o.columns) \subseteq ToSet(Columns(view.schema)) /\
  Hold(SliceTable(view, NoRange, o.columns, o.reverse))
Select == \E c \in ColumnLists : Began /\ Hold(SelectTable(view, c))

\* TableSlice::slice, limit and select, and Limited::select.
ViewSlice == \E v \in Selectors : Began /\ view.kind = "slice" /\
  LET s == CastIntoRange(view.schema, v)
  IN s.sel = "range" /\ Hold(Narrow(view, s.range))
ViewLimit == \E n \in Limits : Began /\ view.kind = "slice" /\ Hold(LimitedOf(view, n))
ViewSelect == \E c \in ColumnLists : Began /\ view.kind \in {"slice", "limited"} /\
  Hold(SelectionOf(view, c))

Next ==
  \/ Get \/ Post \/ PutRange \/ PutRow \/ Delete \/ Insert \/ Counting
  \/ Limit \/ Order \/ Select \/ ViewSlice \/ ViewLimit \/ ViewSelect
  \/ RewriteDelete \/ RewriteUpsert \/ RewriteDropped

Spec == Init /\ [][Next]_vars

-----------------------------------------------------------------------------
(* Properties.                                                             *)

\* What the routes let a caller hold is a table or a view of it, with a schema that
\* fits its columns, over rows with one key each.
OneRowPerKey(rows) == \A r, x \in rows : KeyOf(r) = KeyOf(x) => r = x
TypeOK ==
  /\ view.kind \in {"table", "slice", "limited", "selection"}
  /\ view.kind = "selection" => Columns(view.schema) = view.columns
  /\ \A rows \in {source.rows, source.inserts, source.deletes} :
       OneRowPerKey(rows) /\ \A r \in rows : RowFits(r)
  /\ work.phase \in {"idle", "delete", "upsert"}

\* Ranges over key columns: a range over a value column of a persistent table also
\* returns rows that have left it, which is a finding about Table.
Exact(range) == source.local \/ DOMAIN range \subseteq ToSet(source.schema.key)

\* The streams of a persistent table meet row by row in the natural order; in others
\* they may not, as OrderKeepsRows shows.
Natural == source.local \/ view.order = <<>>

\* count, is_empty and the two ways to stream a view tell of the same rows.  Left
\* out: a selection made from a limited view, which SelectionKeepsCap is about.
CountIsRows ==
  Natural /\ ~(view.kind = "selection" /\ view.limit # NoLimit) =>
    /\ Count(source, view) = Len(Rows(source, view))
    /\ IsEmpty(source, view) <=> Rows(source, view) = <<>>
    /\ ForEach(source, view) = Rows(source, view)

\* copy_into makes of every view a table of the rows that the view shows: each fits
\* the schema the view has, and no two have one key, whatever columns were selected.
\* A projection finds columns by name, so they must have different ones.
CopyIsView ==
  Natural /\ (view.kind = "selection" => IsInjective(Columns(source.schema))) =>
  LET copy == CopyInto(source, view)
  IN  /\ copy.ok
      /\ copy.rows = ToSet(Rows(source, view))
      /\ Cardinality(copy.rows) = Len(Rows(source, view))

\* Every row of a table fits the native schemas of its indices too, which the table
\* is stored in, unless two columns have one name.
IndexRowsFit ==
  IsInjective(Columns(source.schema)) =>
    \A r \in Visible(source), i \in DOMAIN source.schema.indices :
      LET index == source.schema.indices[i]
      IN  ValidateIndexKey(index, IndexRow(source.schema, index, r))

\* The schema of any table or view, written as a value, is read back as it was.
SchemaRoundTrip ==
  /\ SchemaFromValue(SchemaToValue(view.schema)) = view.schema
  /\ CanCastFrom(SchemaToValue(view.schema))

\* contains, count and is_empty resolve a selector to the same rows, though keys go
\* through point reads and ranges through merged streams: the visible ones it means.
\* A range has one bound for a name, so a key is a range where its columns have
\* different names.
KeyAsRange(key) ==
  Tup([i \in DOMAIN key |-> Tup(<<Str(source.schema.key[i]), key[i]>>)])
SelectorsAgree ==
  view.kind = "table" => \A v \in Selectors :
    LET s == Selector(view.schema, v) IN
    /\ s.sel # "error" => (Emptied(v) <=> Counted(v) = 0)
    /\ /\ s.sel = "key" /\ ValidateKey(view.schema, s.key)
       /\ IsInjective(source.schema.key)
       => Counted(v) = Counted(KeyAsRange(s.key))
    /\ s.sel = "range" /\ Exact(s.range) =>
         Counted(v) = Cardinality({r \in Visible(source) : Admits(source.schema, s.range, r)})

\* A write through a slice changes rows inside it, and adds none outside: a new row
\* is inside, or takes the place of one that was.
WritesStayInside ==
  view.kind = "slice" /\ Exact(view.range) =>
    LET inside == {r \in was : Admits(source.schema, view.range, r)}
    IN  /\ was \ Visible(source) \subseteq inside
        /\ \A r \in Visible(source) \ was :
             Admits(source.schema, view.range, r) \/ \E x \in inside : KeyOf(x) = KeyOf(r)

\* An update of a local table goes row by row: wherever it is dropped, at most one
\* row is missing, and each of the others is as it was or as it was to be.
RewriteLosesOneRow ==
  work.updating =>
    /\ Cardinality({KeyOf(r) : r \in was} \ {KeyOf(r) : r \in source.rows}) <= 1
    /\ source.rows \subseteq was \cup ToSet(work.goal)

\* "Project only the given `columns` from each row, preserving this view's row cap"
\* (Limited::select): no read of the selection goes past the cap.
SelectionKeepsCap ==
  view.limit # NoLimit =>
    Count(source, view) <= view.limit /\ Len(ForEach(source, view)) <= view.limit

\* "Iteration, ranges, projections, limits, updates, and truncation preserve this
\* same snapshot": a view in any order, without a cap, shows the rows of the snapshot.
OrderKeepsRows ==
  view.kind = "slice" /\ Exact(view.range) =>
    ToSet(Rows(source, view)) = {r \in Visible(source) : Admits(source.schema, view.range, r)}
=============================================================================
