----------------------------- MODULE TableSchema -----------------------------
(***************************************************************************)
(* The schema of a Table (src/src/table/schema.rs): what it accepts, what  *)
(* a projection keeps of it, and its form as a value.                      *)
(*                                                                         *)
(* A Value is a record of one field, named for its class.  A text cell     *)
(* holds the rank of its text; the text of a name is the name.             *)
(***************************************************************************)
EXTENDS SequencesExt, Integers, Sorting

CONSTANTS Name,      \* the strings that parse as an Id
          CellClass  \* the value types of columns

Num(n) == [number |-> n]
Text(n) == [text |-> n]
Str(s) == [string |-> s]
Type(c) == [type |-> c]
Tup(items) == [tuple |-> items]
None == [none |-> TRUE]

Class(v) == CHOOSE c \in DOMAIN v : TRUE
IsTup(v) == Class(v) = "tuple"
IsPair(v) == IsTup(v) /\ Len(v.tuple) = 2

Each(Op(_), seq) == [i \in DOMAIN seq |-> Op(seq[i])]
Where(seq, x) == SelectInSeq(seq, LAMBDA y : y = x)

-----------------------------------------------------------------------------
(* Construction.                                                           *)

NoSchema == [key |-> <<>>, values |-> <<>>, types |-> <<>>, indices |-> <<>>]

NamesOf(columns) == [i \in DOMAIN columns |-> columns[i].name]
TypesOf(columns) == [i \in DOMAIN columns |-> columns[i].class]

\* Mutant of NewIndex: the types of the key come first.
NewIndex_KeyFirst(index, key, all) ==
  LET Found(name) == SelectLastInSeq(all, LAMBDA c : c.name = name)
  IN  [name |-> index.name,
       columns |-> index.columns \o NamesOf(key),
       types |-> TypesOf(key)
                 \o [i \in DOMAIN index.columns |-> all[Found(index.columns[i])].class]]

\* An auxiliary index has the columns it names, then those of the key.  Where
\* two columns have one name, the map that finds them holds the later.
NewIndex(index, key, all) ==
  LET Found(name) == SelectLastInSeq(all, LAMBDA c : c.name = name)
  IN  [name |-> index.name,
       columns |-> index.columns \o NamesOf(key),
       types |-> [i \in DOMAIN index.columns |-> all[Found(index.columns[i])].class]
                 \o TypesOf(key)]

\* TableSchema::new: NoSchema stands for its errors.
NewSchema(key, values, indices) ==
  LET all == key \o values IN
  IF key = <<>> \/ \E i \in DOMAIN indices :
                     ~(ToSet(indices[i].columns) \subseteq ToSet(NamesOf(all)))
    THEN NoSchema
    ELSE [key |-> NamesOf(key), values |-> NamesOf(values), types |-> TypesOf(all),
          indices |-> [i \in DOMAIN indices |-> NewIndex(indices[i], key, all)]]

Columns(schema) == schema.key \o schema.values
KeyLen(schema) == Len(schema.key)
ColumnSchema(schema) ==
  [i \in DOMAIN schema.types |-> [name |-> Columns(schema)[i], class |-> schema.types[i]]]
KeySchema(schema) == SubSeq(ColumnSchema(schema), 1, KeyLen(schema))
ValueSchema(schema) ==
  SubSeq(ColumnSchema(schema), KeyLen(schema) + 1, Len(schema.types))

\* The columns that an index was made to name, without those that new added to it.
NamedBy(schema, index) == SubSeq(index.columns, 1, Len(index.columns) - KeyLen(schema))

\* Any schema is what new makes of its parts.
IsSchema(schema) ==
  /\ schema \in [key : Seq(Name), values : Seq(Name), types : Seq(CellClass),
                 indices : Seq([name : STRING, columns : Seq(Name), types : Seq(CellClass)])]
  /\ schema.key # <<>>
  /\ Len(schema.types) = Len(Columns(schema))
  /\ schema = NewSchema(KeySchema(schema), ValueSchema(schema),
       [i \in DOMAIN schema.indices |->
          [name |-> schema.indices[i].name, columns |-> NamedBy(schema, schema.indices[i])]])

-----------------------------------------------------------------------------
(* What fits.                                                              *)

Fits(cells, types) ==
  /\ Len(cells) = Len(types)
  /\ \A i \in DOMAIN cells : Class(cells[i]) = types[i]
IsCells(seq) ==
  seq \in Seq(Range(seq)) /\ \A i \in DOMAIN seq : \E c \in CellClass : seq[i] \in [{c} -> Int]
ValidateKey(schema, key) == Fits(key, SubSeq(schema.types, 1, KeyLen(schema)))
ValidateValues(schema, values) ==
  Fits(values, SubSeq(schema.types, KeyLen(schema) + 1, Len(schema.types)))
ValidateIndexKey(index, cells) == Fits(cells, index.types)

\* The row that an auxiliary index holds for a row of the table.
IndexRow(schema, index, row) ==
  [i \in DOMAIN index.columns |-> row[Where(Columns(schema), index.columns[i])]]

\* Mutant of Project: the columns keep the order of the request.
Project_AsAsked(schema, columns) ==
  LET all == ColumnSchema(schema)
      rest == SelectSeq(columns, LAMBDA c : c \notin ToSet(schema.key))
      Col(name) == all[Where(Columns(schema), name)]
  IN  IF /\ ToSet(columns) \subseteq ToSet(Columns(schema))
         /\ ToSet(schema.key) \subseteq ToSet(columns)
        THEN [schema |-> NewSchema(KeySchema(schema), [i \in DOMAIN rest |-> Col(rest[i])], <<>>),
              columns |-> columns]
        ELSE [schema |-> NoSchema, columns |-> <<>>]

\* project: known columns, among them the key; the schema keeps the order of the
\* table, and none of its indices.
Project(schema, columns) ==
  LET kept == Ascending({i \in DOMAIN schema.types : Columns(schema)[i] \in ToSet(columns)})
      selected == [j \in DOMAIN kept |-> ColumnSchema(schema)[kept[j]]]
      keyLen == KeyLen(schema)
  IN  IF /\ ToSet(columns) \subseteq ToSet(Columns(schema))
         /\ ToSet(schema.key) \subseteq ToSet(columns)
        THEN [schema |-> NewSchema(SubSeq(selected, 1, keyLen),
                                   SubSeq(selected, keyLen + 1, Len(selected)), <<>>),
              columns |-> NamesOf(selected)]
        ELSE [schema |-> NoSchema, columns |-> <<>>]

-----------------------------------------------------------------------------
(* As a value: ((key, values), indices).                                   *)

ColumnToValue(c) == Tup(<<Str(c.name), Type(c.class)>>)

\* Mutant of IndexToValue: the added columns are written too.
IndexToValue_Whole(schema, index) == Tup(<<Str(index.name), Tup(Each(Str, index.columns))>>)

IndexToValue(schema, index) ==
  Tup(<<Str(index.name), Tup(Each(Str, NamedBy(schema, index)))>>)

SchemaToValue(schema) ==
  LET all == Each(ColumnToValue, ColumnSchema(schema))
      keyLen == KeyLen(schema)
  IN  Tup(<<Tup(<<Tup(SubSeq(all, 1, keyLen)), Tup(SubSeq(all, keyLen + 1, Len(all)))>>),
            Tup([i \in DOMAIN schema.indices |-> IndexToValue(schema, schema.indices[i])])>>)

\* The pattern that can_cast_from and opt_cast_from share.
IsNest(v) == IsPair(v) /\ IsPair(v.tuple[1])

IsColumn(v) == IsPair(v) /\ Class(v.tuple[1]) = "string" /\ Class(v.tuple[2]) = "type"
IsColumnList(v) == IsTup(v) /\ \A c \in ToSet(v.tuple) : IsColumn(c)
IsIndexList(v) ==
  \/ v = None
  \/ /\ IsTup(v)
     /\ \A x \in ToSet(v.tuple) :
          IsPair(x) /\ Class(x.tuple[1]) = "string" /\ IsTup(x.tuple[2])
            /\ \A c \in ToSet(x.tuple[2].tuple) : Class(c) = "string"

CanCastFrom(v) ==
  /\ IsNest(v)
  /\ IsColumnList(v.tuple[1].tuple[1]) /\ IsColumnList(v.tuple[1].tuple[2])
  /\ IsIndexList(v.tuple[2])

CastColumn(v) == [name |-> v.tuple[1].string, class |-> v.tuple[2].type]
CastIndex(v) == [name |-> v.tuple[1].string, columns |-> Each(LAMBDA c : c.string, v.tuple[2].tuple)]

\* opt_cast_from: names must parse too, and new must accept the parts.
SchemaFromValue(v) ==
  IF ~CanCastFrom(v) THEN NoSchema
  ELSE LET key == Each(CastColumn, v.tuple[1].tuple[1].tuple)
           values == Each(CastColumn, v.tuple[1].tuple[2].tuple)
           indices == IF v.tuple[2] = None THEN <<>> ELSE Each(CastIndex, v.tuple[2].tuple)
           names == (UNION {ToSet(indices[i].columns) : i \in DOMAIN indices})
                    \cup ToSet(NamesOf(key \o values))
       IN  IF names \subseteq Name THEN NewSchema(key, values, indices) ELSE NoSchema
=============================================================================
