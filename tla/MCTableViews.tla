------------------------------ MODULE MCTableViews ------------------------------
(* Small instances of TableRoutes for TLC. *)
EXTENDS TableRoutes

Col(name, class) == [name |-> name, class |-> class]

\* A key of two columns with two value columns, two indices; one of one column.
MCWide == NewSchema(<<Col("x", "number"), Col("y", "number")>>,
                    <<Col("a", "number"), Col("b", "text")>>,
                    <<[name |-> "by_a", columns |-> <<"a">>], [name |-> "by_b", columns |-> <<"b", "y">>]>>)
MCNarrow == NewSchema(<<Col("x", "number")>>, <<Col("a", "number")>>,
                      <<[name |-> "by_a", columns |-> <<"a">>]>>)

MCCells == {Num(1), Num(2), Text(1)}

Table(schema, local, rows, inserts, deletes) ==
  [schema |-> schema, local |-> local, rows |-> rows, inserts |-> inserts, deletes |-> deletes]

W(x, y, a) == <<Num(x), Num(y), Num(a), Text(1)>>
N(x, a) == <<Num(x), Num(a)>>

\* Rows of the delta that tie with canonical ones, replace them and delete them.
MCSources ==
  {Table(MCNarrow, TRUE, {N(x, f[x]) : x \in DOMAIN f}, {}, {}) :
     f \in UNION {[S -> {1, 2}] : S \in SUBSET {1, 2}}}
  \cup {Table(MCNarrow, FALSE, {N(1, 1)}, ins, del) :
          ins \in {{}, {N(2, 1)}, {N(2, 2)}}, del \in {{}, {N(1, 1)}}}
  \cup {Table(MCNarrow, FALSE, {N(1, 1), N(2, 2)}, {N(1, 2)}, {})}
  \cup {Table(MCWide, local, {W(1, 1, 1), W(1, 2, 1), W(2, 1, 2)}, {}, {}) : local \in BOOLEAN}
  \cup {Table(MCWide, FALSE, {W(1, 1, 1), W(2, 1, 2)}, {W(1, 2, 1)}, {W(2, 1, 2)})}

In(c) == Tup(<<Str("in"), c>>)
Ex(c) == Tup(<<Str("ex"), c>>)
Between(name, lower, upper) == Tup(<<Str(name), Tup(<<lower, upper>>)>>)
Eq(name, c) == Tup(<<Str(name), c>>)

MCSelectors ==
  {None, Tup(<<>>), Num(1), Tup(<<Num(1)>>), Tup(<<Num(2)>>), Tup(<<Num(1), Num(2)>>),
   Tup(<<Num(2), Num(1)>>), Tup(<<Text(1)>>),
   Tup(<<Eq("x", Num(1))>>), Tup(<<Eq("a", Num(1))>>), Tup(<<Eq("c", Num(1))>>),
   Tup(<<Between("x", In(Num(1)), Ex(Num(2)))>>), Tup(<<Between("x", Ex(Num(1)), None)>>),
   Tup(<<Between("a", None, In(Num(1)))>>), Tup(<<Between("a", Num(1), None)>>),
   Tup(<<Eq("x", Num(1)), Eq("a", Num(2))>>), Tup(<<Eq("x", Num(1)), Eq("x", Num(2))>>),
   Tup(<<Eq("x", Num(2)), Eq("y", Num(1))>>)}

MCUpdates == {[c \in {"a"} |-> Num(2)], [c \in {"a"} |-> Text(1)], [c \in {"x"} |-> Num(2)]}
MCPuts == {[key |-> <<Num(x)>>, values |-> <<v>>] : x \in {1, 2}, v \in {Num(1), Text(1)}}
          \cup {[key |-> <<Num(2), Num(2)>>, values |-> <<Num(1), Text(1)>>]}
MCOrders == {[columns |-> c, reverse |-> r] : c \in {<<>>, <<"x">>, <<"a">>}, r \in BOOLEAN}
MCColumnLists == {<<"x">>, <<"a", "x">>, <<"b", "y", "a", "x">>, <<"y", "x", "b">>, <<"a">>, <<"c", "x">>}
MCLimits == {0, 1, 5}
=============================================================================
