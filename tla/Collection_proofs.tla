--------------------------- MODULE Collection_proofs ---------------------------
(***************************************************************************)
(* Proofs about Collection: slices of trees, and the views and routes of   *)
(* tables, for every table, row and bound.                                 *)
(***************************************************************************)
EXTENDS Collection, InductionLemmas

-----------------------------------------------------------------------------
(* Slices of a BTree. *)

\* What a view shows of the numbers it admits.
Shown(S, down) == Sorted(S, LAMBDA l, r : IF down THEN l > r ELSE l < r)

\* A finite set of numbers in either direction: every number once.
LEMMA EitherWay ==
  ASSUME NEW S \in SUBSET Int, IsFiniteSet(S), NEW down \in BOOLEAN
  PROVE  ToSet(Shown(S, down)) = S /\ Len(Shown(S, down)) = Cardinality(S)
<1> DEFINE R == {p \in Int \X Int : IF down THEN p[1] > p[2] ELSE p[1] < p[2]}
           n == Cardinality(S)
           s == Sorted(S, LAMBDA l, r : IF down THEN l > r ELSE l < r)
<1>1. R \in Ordering(Int)
  BY DEF Ordering
<1>2. n \in Nat
  BY FS_CardinalityType
<1>3. PICK t : InOrder(t, n, S, R)
  <2> HIDE DEF R
  <2> QED
    BY <1>1, InOrderExists
<1>4. t \in [1 .. n -> S] /\ \A i, j \in DOMAIN t : i < j => IF down THEN t[i] > t[j] ELSE t[i] < t[j]
  <2>1. t \in [1 .. n -> S] /\ \A i, j \in 1 .. n : i < j => <<t[i], t[j]>> \in R
    BY <1>3 DEF InOrder
  <2>2. \A x, y : <<x, y>> \in R => IF down THEN x > y ELSE x < y
    OBVIOUS
  <2> HIDE DEF R
  <2> QED
    BY <2>1, <2>2
<1>5. s = CHOOSE u \in [1 .. n -> S] :
            \A i, j \in DOMAIN u : i < j => IF down THEN u[i] > u[j] ELSE u[i] < u[j]
  BY DEF Sorted
<1>6. s \in [1 .. n -> S] /\ \A i, j \in DOMAIN s : i < j => IF down THEN s[i] > s[j] ELSE s[i] < s[j]
  <2> HIDE DEF s, n
  <2> QED
    BY <1>4, <1>5
<1> HIDE DEF s
<1>7. InOrder(s, n, S, R)
  <2>1. \A x, y \in S : (IF down THEN x > y ELSE x < y) => <<x, y>> \in R
    OBVIOUS
  <2> HIDE DEF R
  <2>2. \A i, j \in 1 .. n : i < j => <<s[i], s[j]>> \in R
    BY <1>6, <2>1
  <2> QED
    BY <1>6, <2>2 DEF InOrder
<1>8. Enumerates(s, n, S)
  <2> HIDE DEF R
  <2> QED
    BY <1>1, <1>7, InOrderIsOnto
<1>9. ToSet(s) = S
  <2>1. ToSet(s) = {s[i] : i \in 1 .. n}
    BY <1>6 DEF ToSet
  <2>2. \A i \in 1 .. n : s[i] \in S
    BY <1>6
  <2>3. \A e \in S : \E i \in 1 .. n : s[i] = e
    BY <1>8 DEF Enumerates
  <2> QED
    BY <2>1, <2>2, <2>3
<1>10. Len(s) = n
  BY <1>2, <1>6
<1> QED
  BY <1>9, <1>10 DEF s, Shown

\* Two bounds meet in the tighter one.
LEMMA BoundsMeet ==
  ASSUME NEW a, NEW b, NEW c, NEW d, IsTreeBound(a), IsTreeBound(b), IsTreeBound(c), IsTreeBound(d)
  PROVE  /\ IsTreeBound(MaxLower(a, c)) /\ IsTreeBound(MinUpper(b, d))
         /\ Admitted(MaxLower(a, c), MinUpper(b, d)) = Admitted(a, b) \cap Admitted(c, d)
<1>1. IsTreeBound(MaxLower(a, c)) /\ IsTreeBound(MinUpper(b, d))
  BY DEF MaxLower, MinUpper
<1>2. \A k \in BKeys : k \in Int
  BY TreeAssumption
<1>3. ASSUME NEW k \in Int
      PROVE  LET lower == MaxLower(a, c)
             IN (lower = Unbounded \/ k > lower.at \/ lower = Included(k))
                  <=> /\ a = Unbounded \/ k > a.at \/ a = Included(k)
                      /\ c = Unbounded \/ k > c.at \/ c = Included(k)
  BY DEF MaxLower, IsTreeBound, Unbounded, Included, Excluded
<1>4. ASSUME NEW k \in Int
      PROVE  LET upper == MinUpper(b, d)
             IN (upper = Unbounded \/ k < upper.at \/ upper = Included(k))
                  <=> /\ b = Unbounded \/ k < b.at \/ b = Included(k)
                      /\ d = Unbounded \/ k < d.at \/ d = Included(k)
  BY DEF MinUpper, IsTreeBound, Unbounded, Included, Excluded
<1> QED
  BY <1>1, <1>2, <1>3, <1>4 DEF Admitted

\* A view is of the keys that every slice so far asked for.
TreeInv ==
  /\ keys \in SUBSET BKeys
  /\ IsTreeBound(btree.lower) /\ IsTreeBound(btree.upper) /\ btree.reverse \in BOOLEAN
  /\ asked = Admitted(btree.lower, btree.upper)

\* The whole tree admits every key.
LEMMA WholeAdmitsAll ==
  /\ IsTreeBound(WholeTree.lower) /\ IsTreeBound(WholeTree.upper) /\ WholeTree.reverse \in BOOLEAN
  /\ Admitted(WholeTree.lower, WholeTree.upper) = BKeys
  BY DEF WholeTree, IsTreeBound, Admitted

\* What the view that the caller holds shows, whatever its direction.
LEMMA KeysShown ==
  TreeInv => /\ ToSet(KeysIn(btree)) = keys \cap asked
             /\ Len(KeysIn(btree)) = Cardinality(keys \cap asked)
<1> SUFFICES ASSUME TreeInv PROVE ToSet(KeysIn(btree)) = keys \cap asked
                                 /\ Len(KeysIn(btree)) = Cardinality(keys \cap asked)
  OBVIOUS
<1>1. keys \cap asked \in SUBSET Int /\ IsFiniteSet(keys \cap asked) /\ btree.reverse \in BOOLEAN
  BY TreeAssumption, FS_Subset DEF TreeInv
<1>2. KeysIn(btree) = Shown(keys \cap asked, btree.reverse)
  BY DEF KeysIn, Shown, TreeInv
<1> QED
  BY <1>1, <1>2, EitherWay

LEMMA TreeInit == BTreeInit => TreeInv
  BY WholeAdmitsAll DEF BTreeInit, TreeInv

LEMMA TreeStep == TreeInv /\ [BTreeNext]_btreeVars => TreeInv'
<1> SUFFICES ASSUME TreeInv, [BTreeNext]_btreeVars PROVE TreeInv'
  OBVIOUS
<1>1. CASE GetSlice
  <2>1. PICK lower \in Bounds, upper \in Bounds, reverse \in BOOLEAN :
          /\ btree' = SliceBTree(btree, lower, upper, reverse)
          /\ asked' = asked \cap Admitted(lower, upper)
          /\ UNCHANGED keys
    BY <1>1 DEF GetSlice
  <2>2. IsTreeBound(lower) /\ IsTreeBound(upper)
    BY <2>1, TreeAssumption
  <2>3. /\ IsTreeBound(MaxLower(btree.lower, lower)) /\ IsTreeBound(MinUpper(btree.upper, upper))
        /\ Admitted(MaxLower(btree.lower, lower), MinUpper(btree.upper, upper))
             = Admitted(btree.lower, btree.upper) \cap Admitted(lower, upper)
    BY <2>2, BoundsMeet DEF TreeInv
  <2> QED
    BY <2>1, <2>3 DEF TreeInv, SliceBTree, IsTreeBound, Admitted
<1>2. CASE PutKey \/ DeleteKey \/ RestoreTree \/ UNCHANGED btreeVars
  BY <1>2 DEF TreeInv, PutKey, DeleteKey, RestoreTree, btreeVars, Admitted, IsTreeBound
<1>3. CASE CopyTree
  <2>1. keys' = keys \cap asked
    BY <1>3, KeysShown DEF CopyTree
  <2> QED
    BY <1>3, <2>1, WholeAdmitsAll DEF CopyTree, TreeInv, WholeTree, Unbounded, IsTreeBound, Admitted
<1> QED
  BY <1>1, <1>2, <1>3 DEF BTreeNext

LEMMA TreeInvariance == CollectionSpec => []TreeInv
<1>1. CollectionInit => TreeInv
  BY TreeInit DEF CollectionInit
<1>2. TreeInv /\ [CollectionNext]_collectionVars => TreeInv'
  <2>1. [CollectionNext]_collectionVars => [BTreeNext]_btreeVars
    BY DEF CollectionNext, collectionVars
  <2> QED
    BY <2>1, TreeStep
<1> QED
  BY <1>1, <1>2, PTL DEF CollectionSpec

\* SliceBTree: however a view was sliced, it shows the keys every slice asked for,
\* and the counts through it are of those.
THEOREM SlicesIntersect == CollectionSpec => []SliceIsIntersection
<1>1. TreeInv => SliceIsIntersection
  <2> SUFFICES ASSUME TreeInv PROVE SliceIsIntersection
    OBVIOUS
  <2>1. ToSet(KeysIn(btree)) = keys \cap asked
    BY KeysShown
  <2>2. ASSUME NEW lower \in Bounds, NEW upper \in Bounds, NEW reverse \in BOOLEAN
        PROVE  CountKeys(lower, upper, reverse) = Cardinality(keys \cap asked \cap Admitted(lower, upper))
    <3> DEFINE v == SliceBTree(btree, lower, upper, reverse)
               S == keys \cap asked \cap Admitted(lower, upper)
    <3>1. /\ v.reverse = reverse /\ v.lower = MaxLower(btree.lower, lower)
          /\ v.upper = MinUpper(btree.upper, upper)
      BY DEF SliceBTree
    <3>2. Admitted(v.lower, v.upper) = asked \cap Admitted(lower, upper)
      BY <3>1, BoundsMeet, TreeAssumption DEF TreeInv
    <3>3. S \in SUBSET Int /\ IsFiniteSet(S)
      BY TreeAssumption, FS_Subset DEF TreeInv
    <3>4. KeysIn(v) = Shown(S, reverse)
      <4> HIDE DEF v, S
      <4>1. keys \cap Admitted(v.lower, v.upper) = S
        BY <3>2 DEF S
      <4>2. KeysIn(v) = Shown(keys \cap Admitted(v.lower, v.upper), v.reverse)
        BY DEF KeysIn, Shown
      <4> QED
        BY <3>1, <4>1, <4>2
    <3> HIDE DEF S
    <3>5. Len(Shown(S, reverse)) = Cardinality(S)
      BY <3>3, EitherWay
    <3> QED
      BY <3>4, <3>5 DEF CountKeys, S
  <2> QED
    BY <2>1, <2>2 DEF SliceIsIntersection
<1> QED
  BY <1>1, TreeInvariance, PTL

\* Cells, and rows of cells of some types.
AllCells == UNION {[{c} -> Int] : c \in CellClass}
RowsOf(types) == {r \in Seq(AllCells) : Fits(r, types)}

\* A cell is its class and its rank.
LEMMA CellMeans ==
  /\ \A c \in AllCells : Class(c) \in CellClass /\ DOMAIN c = {Class(c)} /\ Rank(c) \in Int
  /\ \A c, d \in AllCells : Class(c) = Class(d) /\ Rank(c) = Rank(d) => c = d
<1>1. ASSUME NEW c \in AllCells
      PROVE  Class(c) \in CellClass /\ c \in [{Class(c)} -> Int]
  <2>1. PICK k \in CellClass : c \in [{k} -> Int]
    BY DEF AllCells
  <2>2. DOMAIN c = {k}
    BY <2>1
  <2>3. Class(c) = k
    BY <2>2 DEF Class
  <2> QED
    BY <2>1, <2>3
<1>2. ASSUME NEW c \in AllCells
      PROVE  DOMAIN c = {Class(c)} /\ Rank(c) \in Int
  BY <1>1 DEF Rank
<1>3. ASSUME NEW c \in AllCells, NEW d \in AllCells, Class(c) = Class(d), Rank(c) = Rank(d)
      PROVE  c = d
  <2> DEFINE k == Class(c)
  <2>1. c \in [{k} -> Int] /\ d \in [{k} -> Int]
    BY <1>1, <1>3
  <2>2. c[k] = d[k]
    BY <1>3 DEF Rank
  <2> HIDE DEF k
  <2> QED
    BY <2>1, <2>2
<1> QED
  BY <1>1, <1>2, <1>3

LEMMA RowMeans ==
  ASSUME NEW types \in Seq(CellClass), NEW r \in RowsOf(types)
  PROVE  /\ Len(r) = Len(types) /\ DOMAIN r = 1 .. Len(types) /\ r \in [1 .. Len(types) -> AllCells]
         /\ \A i \in 1 .. Len(types) : r[i] \in AllCells /\ Class(r[i]) = types[i]
<1>1. r \in Seq(AllCells) /\ Fits(r, types)
  BY DEF RowsOf
<1> QED
  BY <1>1 DEF Fits

\* The rows that are ahead of others, place by place.
AheadIn(U, places, reverse) == {p \in U \X U : Ahead(places, reverse, p[1], p[2])}
\* Rows that have the same cells in all of the places.
Tied(places, l, r) == \A i \in DOMAIN places : l[places[i]] = r[places[i]]
\* Of two rows one is ahead, unless they tie.
OrdersRows(U, places, reverse) ==
  /\ \A x, y \in U :
       Tied(places, x, y) \/ Ahead(places, reverse, x, y) \/ Ahead(places, reverse, y, x)
  /\ \A x, y \in U : Tied(places, x, y) => ~Ahead(places, reverse, x, y)
  /\ \A x, y, z \in U :
       /\ Ahead(places, reverse, x, y)
       /\ Ahead(places, reverse, y, z) \/ Tied(places, y, z)
       => Ahead(places, reverse, x, z)
  /\ \A x, y, z \in U :
       Tied(places, x, y) /\ Ahead(places, reverse, y, z) => Ahead(places, reverse, x, z)

\* Lower is an order of the rows that do not tie.
LEMMA LowerOrders ==
  ASSUME NEW types \in Seq(CellClass), NEW places \in Seq(1 .. Len(types)),
         NEW U \in SUBSET RowsOf(types)
  PROVE  /\ \A x, y \in U : Tied(places, x, y) => ~Lower(places, x, y)
         /\ \A x, y, z \in U : Lower(places, x, y) /\ Lower(places, y, z) => Lower(places, x, z)
         /\ \A x, y \in U : Tied(places, x, y) \/ Lower(places, x, y) \/ Lower(places, y, x)
<1> DEFINE D == DOMAIN places
<1>1. D = 1 .. Len(places) /\ \A i \in D : places[i] \in 1 .. Len(types)
  OBVIOUS
<1>2. \A x \in U, i \in D : Rank(x[places[i]]) \in Int
  BY <1>1, RowMeans, CellMeans
<1>3. \A x, y \in U, i \in D :
        Rank(x[places[i]]) = Rank(y[places[i]]) => x[places[i]] = y[places[i]]
  BY <1>1, RowMeans, CellMeans
<1>4. ASSUME NEW x \in U, NEW y \in U, NEW z \in U, Lower(places, x, y), Lower(places, y, z)
      PROVE  Lower(places, x, z)
  <2>1. PICK i \in D : /\ Rank(x[places[i]]) < Rank(y[places[i]])
                       /\ \A j \in 1 .. (i - 1) : x[places[j]] = y[places[j]]
    BY <1>4 DEF Lower
  <2>2. PICK k \in D : /\ Rank(y[places[k]]) < Rank(z[places[k]])
                       /\ \A j \in 1 .. (k - 1) : y[places[j]] = z[places[j]]
    BY <1>4 DEF Lower
  <2>3. CASE i < k
    <3>1. i \in 1 .. (k - 1) /\ \A j \in 1 .. (i - 1) : j \in 1 .. (k - 1)
      BY <1>1, <2>3
    <3>2. Rank(x[places[i]]) < Rank(z[places[i]])
      BY <2>1, <2>2, <3>1
    <3>3. \A j \in 1 .. (i - 1) : x[places[j]] = z[places[j]]
      BY <2>1, <2>2, <3>1
    <3> QED
      BY <3>2, <3>3 DEF Lower
  <2>4. CASE k < i
    <3>1. k \in 1 .. (i - 1) /\ \A j \in 1 .. (k - 1) : j \in 1 .. (i - 1)
      BY <1>1, <2>4
    <3>2. Rank(x[places[k]]) < Rank(z[places[k]])
      BY <2>1, <2>2, <3>1
    <3>3. \A j \in 1 .. (k - 1) : x[places[j]] = z[places[j]]
      BY <2>1, <2>2, <3>1
    <3> QED
      BY <3>2, <3>3 DEF Lower
  <2>5. CASE i = k
    <3>1. Rank(x[places[i]]) < Rank(z[places[i]])
      BY <1>2, <2>1, <2>2, <2>5
    <3>2. \A j \in 1 .. (i - 1) : x[places[j]] = z[places[j]]
      BY <2>1, <2>2, <2>5
    <3> QED
      BY <3>1, <3>2 DEF Lower
  <2> QED
    BY <1>1, <2>3, <2>4, <2>5
<1>5. ASSUME NEW x \in U, NEW y \in U, ~Tied(places, x, y)
      PROVE  Lower(places, x, y) \/ Lower(places, y, x)
  <2> DEFINE apart == {i \in D : x[places[i]] # y[places[i]]}
  <2>1. apart # {} /\ apart \in SUBSET Nat
    BY <1>1, <1>5 DEF Tied
  <2>2. PICK p \in apart : \A q \in apart : p <= q
    <3> HIDE DEF apart
    <3> QED
      BY <2>1, LeastNumber
  <2>3. ASSUME NEW j \in 1 .. (p - 1) PROVE x[places[j]] = y[places[j]]
    <3>1. p \in 1 .. Len(places)
      BY <1>1, <2>2
    <3>2. j \in D /\ ~(p <= j)
      BY <1>1, <3>1
    <3> QED
      BY <2>2, <3>2
  <2>4. p \in D /\ Rank(x[places[p]]) # Rank(y[places[p]])
    BY <1>3, <2>2
  <2>5. Rank(x[places[p]]) < Rank(y[places[p]]) \/ Rank(y[places[p]]) < Rank(x[places[p]])
    BY <1>2, <2>4
  <2> QED
    BY <2>3, <2>4, <2>5 DEF Lower
<1>6. \A x, y \in U : Tied(places, x, y) => ~Lower(places, x, y)
  BY <1>2 DEF Lower, Tied
<1> QED
  BY <1>4, <1>5, <1>6

\* And so is it in the opposite direction.
LEMMA RowsOrdered ==
  ASSUME NEW types \in Seq(CellClass), NEW places \in Seq(1 .. Len(types)),
         NEW U \in SUBSET RowsOf(types), NEW reverse \in BOOLEAN
  PROVE  OrdersRows(U, places, reverse)
<1>1. /\ \A x, y \in U : Tied(places, x, y) => ~Lower(places, x, y)
      /\ \A x, y, z \in U : Lower(places, x, y) /\ Lower(places, y, z) => Lower(places, x, z)
      /\ \A x, y \in U : Tied(places, x, y) \/ Lower(places, x, y) \/ Lower(places, y, x)
  BY LowerOrders
<1>2. \A x, y : Tied(places, x, y) => Tied(places, y, x)
  BY DEF Tied
<1>3. ASSUME NEW x, NEW y, NEW z, Tied(places, x, y)
      PROVE  /\ Lower(places, y, z) => Lower(places, x, z)
             /\ Lower(places, z, y) => Lower(places, z, x)
  <2>1. \A i \in DOMAIN places : x[places[i]] = y[places[i]]
    BY <1>3 DEF Tied
  <2>2. DOMAIN places = 1 .. Len(places) /\ Len(places) \in Nat
    OBVIOUS
  <2>3. ASSUME NEW i \in DOMAIN places, NEW j \in 1 .. (i - 1) PROVE j \in DOMAIN places
    BY <2>2
  <2> QED
    BY <2>1, <2>3 DEF Lower
<1>4. CASE reverse
  BY <1>1, <1>2, <1>3, <1>4 DEF OrdersRows, Ahead
<1>5. CASE ~reverse
  BY <1>1, <1>2, <1>3, <1>5 DEF OrdersRows, Ahead
<1> QED
  BY <1>4, <1>5

\* Rows that tie with no other are put in order.
LEMMA AheadOrders ==
  ASSUME NEW U, NEW places, NEW reverse, OrdersRows(U, places, reverse),
         \A x, y \in U : Tied(places, x, y) => x = y
  PROVE  AheadIn(U, places, reverse) \in Ordering(U)
<1>1. \A x, y \in U : <<x, y>> \in AheadIn(U, places, reverse) <=> Ahead(places, reverse, x, y)
  BY DEF AheadIn
<1>2. AheadIn(U, places, reverse) \in SUBSET (U \X U)
  BY DEF AheadIn
<1>3. \A x : Tied(places, x, x)
  BY DEF Tied
<1> QED
  BY <1>1, <1>2, <1>3 DEF Ordering, OrdersRows

\* The rows of a set in the order of some places.
InPlaces(S, places, reverse) == Sorted(S, LAMBDA l, r : Ahead(places, reverse, l, r))
\* A sequence that goes through a set in the order of some places.
Streams(s, S, places, reverse) ==
  /\ s \in Seq(S)
  /\ \A e \in S : \E i \in 1 .. Len(s) : s[i] = e
  /\ \A i, j \in 1 .. Len(s) : i < j => Ahead(places, reverse, s[i], s[j])

LEMMA SortedStreams ==
  ASSUME NEW U, NEW places, NEW reverse, OrdersRows(U, places, reverse),
         NEW S \in SUBSET U, IsFiniteSet(S), \A x, y \in S : Tied(places, x, y) => x = y
  PROVE  Streams(InPlaces(S, places, reverse), S, places, reverse)
<1> DEFINE Q == AheadIn(S, places, reverse)
           n == Cardinality(S)
           s == InPlaces(S, places, reverse)
<1>1. Q \in Ordering(S)
  <2> DEFINE V == S
  <2>1. OrdersRows(V, places, reverse)
    BY DEF OrdersRows
  <2>2. \A x, y \in V : Tied(places, x, y) => x = y
    OBVIOUS
  <2> HIDE DEF V
  <2>3. AheadIn(V, places, reverse) \in Ordering(V)
    BY <2>1, <2>2, AheadOrders
  <2> QED
    BY <2>3 DEF V
<1>2. n \in Nat
  BY FS_CardinalityType
<1>3. \A x, y : <<x, y>> \in Q <=> x \in S /\ y \in S /\ Ahead(places, reverse, x, y)
  BY DEF AheadIn
<1> HIDE DEF Q
<1>4. PICK t : InOrder(t, n, S, Q)
  <2> DEFINE W == S
  <2>1. Q \in Ordering(W) /\ S \in SUBSET W
    BY <1>1
  <2> HIDE DEF W
  <2> QED
    BY <2>1, InOrderExists
<1>5. t \in [1 .. n -> S] /\ \A i, j \in DOMAIN t : i < j => Ahead(places, reverse, t[i], t[j])
  BY <1>3, <1>4 DEF InOrder
<1>6. s = CHOOSE u \in [1 .. n -> S] :
            \A i, j \in DOMAIN u : i < j => Ahead(places, reverse, u[i], u[j])
  BY DEF InPlaces, Sorted
<1>7. s \in [1 .. n -> S] /\ \A i, j \in DOMAIN s : i < j => Ahead(places, reverse, s[i], s[j])
  <2> HIDE DEF s, n
  <2> QED
    BY <1>5, <1>6
<1> HIDE DEF s
<1>8. InOrder(s, n, S, Q)
  BY <1>3, <1>7 DEF InOrder
<1>9. Enumerates(s, n, S)
  <2> DEFINE W == S
  <2>1. Q \in Ordering(W) /\ S \in SUBSET W
    BY <1>1
  <2> HIDE DEF W
  <2> QED
    BY <1>8, <2>1, InOrderIsOnto
<1>10. Len(s) = n /\ s \in Seq(S)
  BY <1>2, <1>7
<1> HIDE DEF n
<1>11. Streams(s, S, places, reverse)
  BY <1>7, <1>9, <1>10 DEF Streams, Enumerates
<1> QED
  BY <1>11 DEF s

\* Such a sequence holds every row once.
LEMMA StreamsOnce ==
  ASSUME NEW U, NEW places, NEW reverse, OrdersRows(U, places, reverse),
         NEW S \in SUBSET U, NEW s, Streams(s, S, places, reverse)
  PROVE  /\ \A i, j \in 1 .. Len(s) : s[i] = s[j] => i = j
         /\ IsFiniteSet(S) /\ Len(s) = Cardinality(S) /\ ToSet(s) = S
<1>1. s \in Seq(S) /\ \A e \in S : \E i \in 1 .. Len(s) : s[i] = e
  BY DEF Streams
<1>2. ASSUME NEW i \in 1 .. Len(s), NEW j \in 1 .. Len(s), s[i] = s[j] PROVE i = j
  <2>1. s[i] \in U /\ ~Ahead(places, reverse, s[i], s[i])
    BY <1>1 DEF OrdersRows, Tied
  <2>2. ~(i < j) /\ ~(j < i)
    BY <1>2, <2>1 DEF Streams
  <2> QED
    BY <2>2
<1> DEFINE n == Len(s)
<1>3. n \in Nat
  BY <1>1
<1>4. s \in [1 .. n -> S]
  BY <1>1
<1> HIDE DEF n
<1>5. s \in Bijection(1 .. n, S)
  BY <1>1, <1>2, <1>4 DEF Bijection, Injection, Surjection, IsInjective, n
<1>6. IsFiniteSet(1 .. n) /\ Cardinality(1 .. n) = n
  BY <1>3, FS_Interval
<1>7. IsFiniteSet(S) /\ Cardinality(S) = n
  BY <1>5, <1>6, FS_Bijection DEF ExistsBijection
<1>8. ToSet(s) = S
  <2>1. ToSet(s) = {s[i] : i \in 1 .. n}
    BY <1>4 DEF ToSet
  <2>2. \A i \in 1 .. n : s[i] \in S
    BY <1>4
  <2>3. \A e \in S : \E i \in 1 .. n : s[i] = e
    BY <1>1 DEF n
  <2> QED
    BY <2>1, <2>2, <2>3
<1> QED
  BY <1>2, <1>7, <1>8 DEF n

\* There is one such sequence.
LEMMA StreamsUnique ==
  ASSUME NEW U, NEW places, NEW reverse, OrdersRows(U, places, reverse),
         NEW S \in SUBSET U, NEW s, NEW t,
         Streams(s, S, places, reverse), Streams(t, S, places, reverse)
  PROVE  s = t
<1> DEFINE A(x, y) == Ahead(places, reverse, x, y)
           n == Len(s)
<1>1. Len(s) = n /\ Len(t) = n /\ \A i, j \in 1 .. n : s[i] = s[j] => i = j
  BY StreamsOnce
<1>2. s \in Seq(S) /\ t \in Seq(S)
  BY DEF Streams
<1>3. n \in Nat /\ s \in [1 .. n -> S] /\ t \in [1 .. n -> S]
  BY <1>1, <1>2
<1>4. /\ \A e \in S : (\E i \in 1 .. n : s[i] = e) /\ (\E i \in 1 .. n : t[i] = e)
      /\ \A i, j \in 1 .. n : i < j => A(s[i], s[j]) /\ A(t[i], t[j])
  BY <1>1 DEF Streams
<1>5. \A x, y, z \in S : ~A(x, x) /\ (A(x, y) /\ A(y, z) => A(x, z))
  BY DEF OrdersRows, Tied
<1> HIDE DEF A, n
<1>6. SUFFICES ASSUME s # t PROVE FALSE
  OBVIOUS
<1> DEFINE apart == {i \in 1 .. n : s[i] # t[i]}
<1>7. apart # {} /\ apart \in SUBSET Nat
  BY <1>3, <1>6
<1>8. PICK p \in apart : \A q \in apart : p <= q
  <2> HIDE DEF apart
  <2> QED
    BY <1>7, LeastNumber
<1>9. p \in 1 .. n /\ s[p] # t[p] /\ \A i \in 1 .. n : i < p => s[i] = t[i]
  BY <1>3, <1>8
<1>10. PICK k \in 1 .. n : t[k] = s[p]
  BY <1>3, <1>4, <1>9
<1>11. PICK m \in 1 .. n : s[m] = t[p]
  BY <1>3, <1>4, <1>9
<1>12. p < k
  BY <1>1, <1>3, <1>9, <1>10
<1>13. ~(m < p) /\ m # p
  <2>1. m # p
    BY <1>9, <1>11
  <2>2. ASSUME m < p PROVE FALSE
    <3>1. t[m] = t[p] /\ A(t[m], t[p])
      BY <1>4, <1>9, <1>11, <2>2
    <3> QED
      BY <1>3, <1>5, <1>9, <3>1
  <2> QED
    BY <2>1, <2>2
<1>14. A(t[p], s[p]) /\ A(s[p], t[p])
  BY <1>3, <1>4, <1>9, <1>10, <1>11, <1>12, <1>13
<1> QED
  BY <1>3, <1>5, <1>9, <1>14

\* The rows of a stream from one on.
From(s, i) == {s[k] : k \in i .. Len(s)}

LEMMA FromMeans ==
  ASSUME NEW U, NEW s \in Seq(U)
  PROVE  /\ From(s, Len(s) + 1) = {}
         /\ From(s, 1) = ToSet(s)
         /\ \A i \in 1 .. Len(s) : From(s, i) = {s[i]} \cup From(s, i + 1)
         /\ \A i \in 1 .. (Len(s) + 1) : From(s, i) \in SUBSET U
<1> DEFINE n == Len(s)
<1>1. n \in Nat /\ DOMAIN s = 1 .. n /\ \A i \in 1 .. n : s[i] \in U
  OBVIOUS
<1> HIDE DEF n
<1>2. \A i : From(s, i) = {s[k] : k \in i .. n}
  BY DEF From, n
<1>3. From(s, n + 1) = {}
  BY <1>1, <1>2
<1>4. From(s, 1) = ToSet(s)
  BY <1>1, <1>2 DEF ToSet
<1>5. ASSUME NEW i \in 1 .. n PROVE From(s, i) = {s[i]} \cup From(s, i + 1)
  <2>1. \A k : k \in i .. n <=> k = i \/ k \in (i + 1) .. n
    BY <1>1
  <2> QED
    BY <1>2, <2>1
<1>6. ASSUME NEW i \in 1 .. (n + 1) PROVE From(s, i) \in SUBSET U
  <2>1. \A k \in i .. n : k \in 1 .. n
    BY <1>1
  <2> QED
    BY <1>1, <1>2, <2>1
<1> QED
  BY <1>3, <1>4, <1>5, <1>6 DEF n

\* What is left of a stream, and a row put ahead of one.
LEMMA SuffixStreams ==
  ASSUME NEW U, NEW s \in Seq(U), NEW places, NEW reverse,
         Streams(s, ToSet(s), places, reverse), NEW i \in 1 .. (Len(s) + 1)
  PROVE  /\ SubSeq(s, i, Len(s)) \in Seq(U)
         /\ Streams(SubSeq(s, i, Len(s)), From(s, i), places, reverse)
<1> DEFINE n == Len(s)
           t == SubSeq(s, i, n)
           m == n + 1 - i
<1>1. n \in Nat /\ m \in Nat /\ i \in 1 .. (n + 1) /\ \A k \in 1 .. n : s[k] \in U
  OBVIOUS
<1>2. \A a, b \in 1 .. n : a < b => Ahead(places, reverse, s[a], s[b])
  BY DEF Streams
<1>3. t = [k \in 1 .. m |-> s[i + k - 1]] /\ Len(t) = m
  BY <1>1
<1>4. From(s, i) = {s[k] : k \in i .. n}
  BY DEF From
<1> HIDE DEF n, t, m
<1>5. \A k \in 1 .. m : i + k - 1 \in i .. n /\ i + k - 1 \in 1 .. n
  BY <1>1 DEF m
<1>6. t \in Seq(From(s, i)) /\ t \in Seq(U)
  <2>1. \A k \in 1 .. m : t[k] \in From(s, i) /\ t[k] \in U
    BY <1>1, <1>3, <1>4, <1>5
  <2>2. DOMAIN t = 1 .. m
    BY <1>3
  <2>3. t \in [1 .. m -> From(s, i)] /\ t \in [1 .. m -> U]
    BY <1>3, <2>1
  <2> QED
    BY <1>1, <2>3
<1>7. ASSUME NEW e \in From(s, i) PROVE \E k \in 1 .. m : t[k] = e
  <2>1. PICK k \in i .. n : s[k] = e
    BY <1>4
  <2>2. k + 1 - i \in 1 .. m /\ i + (k + 1 - i) - 1 = k
    BY <1>1 DEF m
  <2>3. t[k + 1 - i] = e
    BY <1>3, <2>1, <2>2
  <2> QED
    BY <2>2, <2>3
<1>8. ASSUME NEW a \in 1 .. m, NEW b \in 1 .. m, a < b PROVE Ahead(places, reverse, t[a], t[b])
  <2>1. i + a - 1 < i + b - 1
    BY <1>8, <1>1
  <2> QED
    BY <1>2, <1>3, <1>5, <2>1
<1> QED
  BY <1>3, <1>6, <1>7, <1>8 DEF Streams, t, n

LEMMA ConsStreams ==
  ASSUME NEW U, NEW x \in U, NEW T \in SUBSET U, NEW s, NEW places, NEW reverse,
         Streams(s, T, places, reverse), \A y \in T : Ahead(places, reverse, x, y)
  PROVE  Streams(<<x>> \o s, {x} \cup T, places, reverse)
<1> DEFINE t == <<x>> \o s
           n == Len(s)
<1>1. s \in Seq(T) /\ n \in Nat /\ \A i \in 1 .. n : s[i] \in T
  BY DEF Streams
<1>2. t \in Seq({x} \cup T) /\ Len(t) = n + 1 /\ t[1] = x /\ \A i \in 2 .. (n + 1) : t[i] = s[i - 1]
  <2>1. s \in Seq({x} \cup T)
    BY <1>1
  <2> QED
    BY <2>1
<1>3. ASSUME NEW e \in {x} \cup T PROVE \E i \in 1 .. (n + 1) : t[i] = e
  <2>1. CASE e = x
    BY <1>1, <1>2, <2>1
  <2>2. CASE e \in T
    <3>1. PICK i \in 1 .. n : s[i] = e
      BY <2>2 DEF Streams
    <3>2. i + 1 \in 2 .. (n + 1) /\ (i + 1) - 1 = i /\ i + 1 \in 1 .. (n + 1)
      BY <1>1
    <3>3. t[i + 1] = e
      BY <1>2, <3>1, <3>2
    <3> QED
      BY <3>2, <3>3
  <2> QED
    BY <2>1, <2>2
<1>4. ASSUME NEW i \in 1 .. (n + 1), NEW j \in 1 .. (n + 1), i < j
      PROVE  Ahead(places, reverse, t[i], t[j])
  <2>1. j \in 2 .. (n + 1) /\ j - 1 \in 1 .. n
    BY <1>1, <1>4
  <2>2. CASE i = 1
    BY <1>1, <1>2, <2>1, <2>2
  <2>3. CASE i # 1
    <3>1. i \in 2 .. (n + 1) /\ i - 1 \in 1 .. n /\ i - 1 < j - 1
      BY <1>1, <1>4, <2>3
    <3>2. Ahead(places, reverse, s[i - 1], s[j - 1])
      BY <2>1, <3>1 DEF Streams
    <3> QED
      BY <1>2, <2>1, <3>1, <3>2
  <2> QED
    BY <2>2, <2>3
<1> QED
  BY <1>2, <1>3, <1>4 DEF Streams

\* Of two sets, the rows of the first, and those of the second that meet none of
\* them; the rows of the first that meet none of the second.
Over(places, L, R) == L \cup {x \in R : \A y \in L : ~Tied(places, y, x)}
Less(places, L, R) == {x \in L : \A y \in R : ~Tied(places, x, y)}

LEMMA OverStep ==
  ASSUME NEW U, NEW places, NEW reverse, OrdersRows(U, places, reverse),
         NEW l \in U, NEW r \in U, NEW L \in SUBSET U, NEW R \in SUBSET U,
         \A y \in L : Ahead(places, reverse, l, y), \A y \in R : Ahead(places, reverse, r, y)
  PROVE  /\ Ahead(places, reverse, l, r) =>
              /\ Over(places, {l} \cup L, {r} \cup R) = {l} \cup Over(places, L, {r} \cup R)
              /\ \A y \in Over(places, L, {r} \cup R) : Ahead(places, reverse, l, y)
         /\ Ahead(places, reverse, r, l) =>
              /\ Over(places, {l} \cup L, {r} \cup R) = {r} \cup Over(places, {l} \cup L, R)
              /\ \A y \in Over(places, {l} \cup L, R) : Ahead(places, reverse, r, y)
         /\ Tied(places, l, r) =>
              /\ Over(places, {l} \cup L, {r} \cup R) = {l} \cup Over(places, L, R)
              /\ \A y \in Over(places, L, R) : Ahead(places, reverse, l, y)
<1> DEFINE A(x, y) == Ahead(places, reverse, x, y)
<1>1. \A x, y, z \in U : /\ A(x, y) /\ (A(y, z) \/ Tied(places, y, z)) => A(x, z)
                         /\ Tied(places, x, y) /\ A(y, z) => A(x, z)
                         /\ Tied(places, x, y) => ~A(x, y) /\ ~A(y, x)
  <2>1. \A x, y : Tied(places, x, y) => Tied(places, y, x)
    BY DEF Tied
  <2> QED
    BY <2>1 DEF OrdersRows
<1>2. (\A y \in L : A(l, y)) /\ (\A y \in R : A(r, y))
  OBVIOUS
<1> HIDE DEF A
<1>3. ASSUME A(l, r)
      PROVE  /\ Over(places, {l} \cup L, {r} \cup R) = {l} \cup Over(places, L, {r} \cup R)
             /\ \A y \in Over(places, L, {r} \cup R) : A(l, y)
  <2>1. \A y \in {r} \cup R : A(l, y) /\ ~Tied(places, l, y)
    BY <1>1, <1>2, <1>3
  <2> QED
    BY <1>2, <2>1 DEF Over
<1>4. ASSUME A(r, l)
      PROVE  /\ Over(places, {l} \cup L, {r} \cup R) = {r} \cup Over(places, {l} \cup L, R)
             /\ \A y \in Over(places, {l} \cup L, R) : A(r, y)
  <2>1. \A y \in {l} \cup L : A(r, y) /\ ~Tied(places, y, r)
    BY <1>1, <1>2, <1>4
  <2> QED
    BY <1>2, <2>1 DEF Over
<1>5. ASSUME Tied(places, l, r)
      PROVE  /\ Over(places, {l} \cup L, {r} \cup R) = {l} \cup Over(places, L, R)
             /\ \A y \in Over(places, L, R) : A(l, y)
  <2>1. \A y \in R : A(l, y) /\ ~Tied(places, l, y)
    BY <1>1, <1>2, <1>5
  <2> QED
    BY <1>2, <1>5, <2>1 DEF Over
<1> QED
  BY <1>3, <1>4, <1>5 DEF A

LessSteps(places, reverse, l, r, L, R) ==
  /\ Ahead(places, reverse, l, r) =>
       /\ Less(places, {l} \cup L, {r} \cup R) = {l} \cup Less(places, L, {r} \cup R)
       /\ \A y \in Less(places, L, {r} \cup R) : Ahead(places, reverse, l, y)
  /\ Ahead(places, reverse, r, l) =>
       Less(places, {l} \cup L, {r} \cup R) = Less(places, {l} \cup L, R)
  /\ Tied(places, l, r) =>
       Less(places, {l} \cup L, {r} \cup R) = Less(places, L, R)
LEMMA LessStep ==
  ASSUME NEW U, NEW places, NEW reverse, OrdersRows(U, places, reverse),
         NEW l \in U, NEW r \in U, NEW L \in SUBSET U, NEW R \in SUBSET U,
         \A y \in L : Ahead(places, reverse, l, y), \A y \in R : Ahead(places, reverse, r, y)
  PROVE  LessSteps(places, reverse, l, r, L, R)
<1> DEFINE A(x, y) == Ahead(places, reverse, x, y)
<1>1. \A x, y, z \in U : /\ A(x, y) /\ (A(y, z) \/ Tied(places, y, z)) => A(x, z)
                         /\ Tied(places, x, y) /\ A(y, z) => A(x, z)
                         /\ Tied(places, x, y) => ~A(x, y) /\ ~A(y, x)
  <2>1. \A x, y : Tied(places, x, y) => Tied(places, y, x)
    BY DEF Tied
  <2> QED
    BY <2>1 DEF OrdersRows
<1>2. (\A y \in L : A(l, y)) /\ (\A y \in R : A(r, y))
  OBVIOUS
<1> HIDE DEF A
<1>3. ASSUME A(l, r)
      PROVE  /\ Less(places, {l} \cup L, {r} \cup R) = {l} \cup Less(places, L, {r} \cup R)
             /\ \A y \in Less(places, L, {r} \cup R) : A(l, y)
  <2>1. \A y \in {r} \cup R : ~Tied(places, l, y)
    BY <1>1, <1>2, <1>3
  <2> QED
    BY <1>2, <2>1 DEF Less
<1>4. ASSUME A(r, l) PROVE Less(places, {l} \cup L, {r} \cup R) = Less(places, {l} \cup L, R)
  <2>1. \A y \in {l} \cup L : ~Tied(places, y, r)
    BY <1>1, <1>2, <1>4
  <2> QED
    BY <2>1 DEF Less
<1>5. ASSUME Tied(places, l, r) PROVE Less(places, {l} \cup L, {r} \cup R) = Less(places, L, R)
  <2>1. \A y \in L : ~Tied(places, y, r)
    <3>1. \A y \in L : Tied(places, y, r) => Tied(places, y, l)
      BY <1>5 DEF Tied
    <3> QED
      BY <1>1, <1>2, <3>1
  <2> QED
    BY <1>5, <2>1 DEF Less
<1> QED
  BY <1>3, <1>4, <1>5 DEF A, LessSteps

\* What try_merge and try_diff go on with at every place of their streams.
MergedFrom(M, U, left, right, places, reverse) ==
  /\ M \in [Grid(left, right) -> Seq(U)]
  /\ \A i \in 1 .. (Len(left) + 1), j \in 1 .. (Len(right) + 1) :
       M[<<i, j>>] =
         IF i > Len(left) THEN SubSeq(right, j, Len(right))
         ELSE IF j > Len(right) THEN SubSeq(left, i, Len(left))
         ELSE IF Ahead(places, reverse, left[i], right[j]) THEN <<left[i]>> \o M[<<i + 1, j>>]
         ELSE IF Ahead(places, reverse, right[j], left[i]) THEN <<right[j]>> \o M[<<i, j + 1>>]
         ELSE <<left[i]>> \o M[<<i + 1, j + 1>>]
DiffedFrom(D, U, left, right, places, reverse) ==
  /\ D \in [Grid(left, right) -> Seq(U)]
  /\ \A i \in 1 .. (Len(left) + 1), j \in 1 .. (Len(right) + 1) :
       D[<<i, j>>] =
         IF i > Len(left) \/ j > Len(right) THEN SubSeq(left, i, Len(left))
         ELSE IF Ahead(places, reverse, left[i], right[j]) THEN <<left[i]>> \o D[<<i + 1, j>>]
         ELSE IF Ahead(places, reverse, right[j], left[i]) THEN D[<<i, j + 1>>]
         ELSE D[<<i + 1, j + 1>>]

LEMMA SuffixIsSeq ==
  ASSUME NEW U, NEW s \in Seq(U), NEW i \in 1 .. (Len(s) + 1)
  PROVE  SubSeq(s, i, Len(s)) \in Seq(U)
<1> DEFINE n == Len(s)
           m == n + 1 - i
           t == SubSeq(s, i, n)
<1>1. n \in Nat /\ m \in Nat /\ i \in 1 .. (n + 1) /\ \A k \in 1 .. n : s[k] \in U
  OBVIOUS
<1>2. t = [k \in 1 .. m |-> s[i + k - 1]]
  BY <1>1
<1> HIDE DEF n, t, m
<1>3. \A k \in 1 .. m : i + k - 1 \in 1 .. n
  BY <1>1 DEF m
<1>4. t \in [1 .. m -> U]
  BY <1>1, <1>2, <1>3
<1>5. t \in Seq(U)
  BY <1>1, <1>4
<1> QED
  BY <1>5 DEF t, n

LEMMA MergedMeans ==
  ASSUME NEW U, NEW left \in Seq(U), NEW right \in Seq(U), NEW places, NEW reverse
  PROVE  \E M : /\ MergedFrom(M, U, left, right, places, reverse)
                /\ Merged(left, right, places, reverse) = M[<<1, 1>>]
<1> DEFINE m == Len(left)
           n == Len(right)
           V == Seq(U)
           A(x, y) == Ahead(places, reverse, x, y)
           base == [p \in GridOf(m, n) |->
                      IF p[1] > m THEN SubSeq(right, p[2], n) ELSE SubSeq(left, p[1], m)]
           F == [p \in (1 .. m) \X (1 .. n) |-> [v \in V \X V \X V |->
                   IF A(left[p[1]], right[p[2]]) THEN <<left[p[1]]>> \o v[1]
                   ELSE IF A(right[p[2]], left[p[1]]) THEN <<right[p[2]]>> \o v[2]
                   ELSE <<left[p[1]]>> \o v[3]]]
           Body(f, i, j) ==
             IF i > m THEN SubSeq(right, j, n)
             ELSE IF j > n THEN SubSeq(left, i, m)
             ELSE IF A(left[i], right[j]) THEN <<left[i]>> \o f[<<i + 1, j>>]
             ELSE IF A(right[j], left[i]) THEN <<right[j]>> \o f[<<i, j + 1>>]
             ELSE <<left[i]>> \o f[<<i + 1, j + 1>>]
           Is(f) == f = [p \in Grid(left, right) |-> Body(f, p[1], p[2])]
           R == CHOOSE f : Is(f)
<1>1. m \in Nat /\ n \in Nat /\ (\A i \in 1 .. m : left[i] \in U) /\ \A j \in 1 .. n : right[j] \in U
  OBVIOUS
<1>2. Grid(left, right) = GridOf(m, n)
  BY DEF Grid, GridOf
<1>3. base \in [GridOf(m, n) -> V]
  <2>1. /\ \A i \in 1 .. (m + 1) : SubSeq(left, i, m) \in V
        /\ \A j \in 1 .. (n + 1) : SubSeq(right, j, n) \in V
    BY SuffixIsSeq
  <2> HIDE DEF m, n, V
  <2> QED
    BY <2>1 DEF GridOf
<1>4. F \in GridSteps(m, n, V)
  <2>1. \A x \in U, v \in V : <<x>> \o v \in V
    OBVIOUS
  <2> HIDE DEF m, n, V, A
  <2> QED
    BY <1>1, <2>1 DEF GridSteps
<1>5. PICK f : IsGrid(f, m, n, V, base, F)
  <2> HIDE DEF m, n, V, base, F
  <2> QED
    BY <1>1, <1>3, <1>4, GridRecursion
<1>6. f \in [GridOf(m, n) -> V]
  BY <1>5 DEF IsGrid
<1>7. ASSUME NEW i \in 1 .. (m + 1), NEW j \in 1 .. (n + 1) PROVE f[<<i, j>>] = Body(f, i, j)
  <2>1. f[<<i, j>>] = IF i > m \/ j > n THEN base[<<i, j>>]
                 ELSE F[<<i, j>>][<<f[<<i + 1, j>>], f[<<i, j + 1>>], f[<<i + 1, j + 1>>]>>]
    BY <1>5 DEF IsGrid
  <2>2. CASE i > m \/ j > n
    <3>1. base[<<i, j>>] = IF i > m THEN SubSeq(right, j, n) ELSE SubSeq(left, i, m)
      BY DEF GridOf
    <3> HIDE DEF m, n, A, base, F
    <3> QED
      BY <2>1, <2>2, <3>1
  <2>3. CASE ~(i > m \/ j > n)
    <3>1. i \in 1 .. m /\ j \in 1 .. n /\ i + 1 \in 1 .. (m + 1) /\ j + 1 \in 1 .. (n + 1)
      BY <1>1, <2>3
    <3>2. f[<<i + 1, j>>] \in V /\ f[<<i, j + 1>>] \in V /\ f[<<i + 1, j + 1>>] \in V
      BY <1>6, <3>1 DEF GridOf
    <3> HIDE DEF m, n, A, base, V
    <3> QED
      BY <2>1, <2>3, <3>1, <3>2
  <2> QED
    BY <2>2, <2>3
<1>8. Is(f)
  <2>1. ASSUME NEW p \in GridOf(m, n) PROVE f[p] = Body(f, p[1], p[2])
    <3>1. p[1] \in 1 .. (m + 1) /\ p[2] \in 1 .. (n + 1) /\ p = <<p[1], p[2]>>
      BY DEF GridOf
    <3> HIDE DEF Body
    <3> QED
      BY <1>7, <3>1
  <2> HIDE DEF Body
  <2> QED
    BY <1>2, <1>6, <2>1
<1>9. Is(R)
  <2> HIDE DEF Is
  <2> QED
    BY <1>8
<1>10. Merged(left, right, places, reverse) = R[<<1, 1>>]
  BY DEF Merged
<1> HIDE DEF R
<1>11. \A i \in 1 .. (m + 1), j \in 1 .. (n + 1) : R[<<i, j>>] = Body(R, i, j)
  BY <1>2, <1>9 DEF GridOf
<1>12. R \in [Grid(left, right) -> V]
  <2> DEFINE S == {c \in GridOf(m, n) : R[c] = f[c]}
  <2>1. ASSUME NEW i \in 1 .. (m + 1) PROVE <<i, n + 1>> \in S
    <3>1. n + 1 \in 1 .. (n + 1) /\ n + 1 > n
      BY <1>1
    <3>2. Body(R, i, n + 1) = Body(f, i, n + 1)
      BY <3>1
    <3> HIDE DEF Body
    <3> QED
      BY <1>7, <1>11, <3>1, <3>2 DEF GridOf
  <2>2. ASSUME NEW j \in 1 .. (n + 1) PROVE <<m + 1, j>> \in S
    <3>1. m + 1 \in 1 .. (m + 1) /\ m + 1 > m
      BY <1>1
    <3>2. Body(R, m + 1, j) = Body(f, m + 1, j)
      BY <3>1
    <3> HIDE DEF Body
    <3> QED
      BY <1>7, <1>11, <3>1, <3>2 DEF GridOf
  <2>3. ASSUME NEW i \in 1 .. m, NEW j \in 1 .. n,
               <<i + 1, j>> \in S, <<i, j + 1>> \in S, <<i + 1, j + 1>> \in S
        PROVE  <<i, j>> \in S
    <3>1. i \in 1 .. (m + 1) /\ j \in 1 .. (n + 1)
      BY <1>1
    <3>2. R[<<i, j>>] = Body(R, i, j) /\ f[<<i, j>>] = Body(f, i, j)
      BY <1>7, <1>11, <3>1
    <3> HIDE DEF A
    <3> QED
      BY <2>3, <3>1, <3>2 DEF GridOf
  <2> HIDE DEF S, m, n
  <2>4. \A i \in 1 .. (m + 1), j \in 1 .. (n + 1) : <<i, j>> \in S
    BY <1>1, <2>1, <2>2, <2>3, GridInduction
  <2>5. \A c \in GridOf(m, n) : R[c] = f[c]
    BY <2>4 DEF GridOf, S
  <2>6. R = [p \in Grid(left, right) |-> Body(R, p[1], p[2])]
    BY <1>9
  <2> HIDE DEF Body, Is
  <2> QED
    BY <1>2, <1>6, <2>5, <2>6
<1>13. MergedFrom(R, U, left, right, places, reverse)
  BY <1>11, <1>12 DEF MergedFrom
<1> QED
  BY <1>10, <1>13

LEMMA DiffedMeans ==
  ASSUME NEW U, NEW left \in Seq(U), NEW T, NEW right \in Seq(T), NEW places, NEW reverse
  PROVE  \E M : /\ DiffedFrom(M, U, left, right, places, reverse)
                /\ Diffed(left, right, places, reverse) = M[<<1, 1>>]
<1> DEFINE m == Len(left)
           n == Len(right)
           V == Seq(U)
           A(x, y) == Ahead(places, reverse, x, y)
           base == [p \in GridOf(m, n) |-> SubSeq(left, p[1], m)]
           F == [p \in (1 .. m) \X (1 .. n) |-> [v \in V \X V \X V |->
                   IF A(left[p[1]], right[p[2]]) THEN <<left[p[1]]>> \o v[1]
                   ELSE IF A(right[p[2]], left[p[1]]) THEN v[2]
                   ELSE v[3]]]
           Body(f, i, j) ==
             IF i > m \/ j > n THEN SubSeq(left, i, m)
             ELSE IF A(left[i], right[j]) THEN <<left[i]>> \o f[<<i + 1, j>>]
             ELSE IF A(right[j], left[i]) THEN f[<<i, j + 1>>]
             ELSE f[<<i + 1, j + 1>>]
           Is(f) == f = [p \in Grid(left, right) |-> Body(f, p[1], p[2])]
           R == CHOOSE f : Is(f)
<1>1. m \in Nat /\ n \in Nat /\ \A i \in 1 .. m : left[i] \in U
  OBVIOUS
<1>2. Grid(left, right) = GridOf(m, n)
  BY DEF Grid, GridOf
<1>3. base \in [GridOf(m, n) -> V]
  <2>1. \A i \in 1 .. (m + 1) : SubSeq(left, i, m) \in V
    BY SuffixIsSeq
  <2> HIDE DEF m, n, V
  <2> QED
    BY <2>1 DEF GridOf
<1>4. F \in GridSteps(m, n, V)
  <2>1. \A x \in U, v \in V : <<x>> \o v \in V
    OBVIOUS
  <2> HIDE DEF m, n, V, A
  <2> QED
    BY <1>1, <2>1 DEF GridSteps
<1>5. PICK f : IsGrid(f, m, n, V, base, F)
  <2> HIDE DEF m, n, V, base, F
  <2> QED
    BY <1>1, <1>3, <1>4, GridRecursion
<1>6. f \in [GridOf(m, n) -> V]
  BY <1>5 DEF IsGrid
<1>7. ASSUME NEW i \in 1 .. (m + 1), NEW j \in 1 .. (n + 1) PROVE f[<<i, j>>] = Body(f, i, j)
  <2>1. f[<<i, j>>] = IF i > m \/ j > n THEN base[<<i, j>>]
                 ELSE F[<<i, j>>][<<f[<<i + 1, j>>], f[<<i, j + 1>>], f[<<i + 1, j + 1>>]>>]
    BY <1>5 DEF IsGrid
  <2>2. CASE i > m \/ j > n
    <3>1. base[<<i, j>>] = SubSeq(left, i, m)
      BY DEF GridOf
    <3> HIDE DEF m, n, A, base, F
    <3> QED
      BY <2>1, <2>2, <3>1
  <2>3. CASE ~(i > m \/ j > n)
    <3>1. i \in 1 .. m /\ j \in 1 .. n /\ i + 1 \in 1 .. (m + 1) /\ j + 1 \in 1 .. (n + 1)
      BY <1>1, <2>3
    <3>2. f[<<i + 1, j>>] \in V /\ f[<<i, j + 1>>] \in V /\ f[<<i + 1, j + 1>>] \in V
      BY <1>6, <3>1 DEF GridOf
    <3> HIDE DEF m, n, A, base, V
    <3> QED
      BY <2>1, <2>3, <3>1, <3>2
  <2> QED
    BY <2>2, <2>3
<1>8. Is(f)
  <2>1. ASSUME NEW p \in GridOf(m, n) PROVE f[p] = Body(f, p[1], p[2])
    <3>1. p[1] \in 1 .. (m + 1) /\ p[2] \in 1 .. (n + 1) /\ p = <<p[1], p[2]>>
      BY DEF GridOf
    <3> HIDE DEF Body
    <3> QED
      BY <1>7, <3>1
  <2> HIDE DEF Body
  <2> QED
    BY <1>2, <1>6, <2>1
<1>9. Is(R)
  <2> HIDE DEF Is
  <2> QED
    BY <1>8
<1>10. Diffed(left, right, places, reverse) = R[<<1, 1>>]
  BY DEF Diffed
<1> HIDE DEF R
<1>11. \A i \in 1 .. (m + 1), j \in 1 .. (n + 1) : R[<<i, j>>] = Body(R, i, j)
  BY <1>2, <1>9 DEF GridOf
<1>12. R \in [Grid(left, right) -> V]
  <2> DEFINE S == {c \in GridOf(m, n) : R[c] = f[c]}
  <2>1. ASSUME NEW i \in 1 .. (m + 1) PROVE <<i, n + 1>> \in S
    <3>1. n + 1 \in 1 .. (n + 1) /\ n + 1 > n
      BY <1>1
    <3>2. Body(R, i, n + 1) = Body(f, i, n + 1)
      BY <3>1
    <3> HIDE DEF Body
    <3> QED
      BY <1>7, <1>11, <3>1, <3>2 DEF GridOf
  <2>2. ASSUME NEW j \in 1 .. (n + 1) PROVE <<m + 1, j>> \in S
    <3>1. m + 1 \in 1 .. (m + 1) /\ m + 1 > m
      BY <1>1
    <3>2. Body(R, m + 1, j) = Body(f, m + 1, j)
      BY <3>1
    <3> HIDE DEF Body
    <3> QED
      BY <1>7, <1>11, <3>1, <3>2 DEF GridOf
  <2>3. ASSUME NEW i \in 1 .. m, NEW j \in 1 .. n,
               <<i + 1, j>> \in S, <<i, j + 1>> \in S, <<i + 1, j + 1>> \in S
        PROVE  <<i, j>> \in S
    <3>1. i \in 1 .. (m + 1) /\ j \in 1 .. (n + 1)
      BY <1>1
    <3>2. R[<<i, j>>] = Body(R, i, j) /\ f[<<i, j>>] = Body(f, i, j)
      BY <1>7, <1>11, <3>1
    <3> HIDE DEF A
    <3> QED
      BY <2>3, <3>1, <3>2 DEF GridOf
  <2> HIDE DEF S, m, n
  <2>4. \A i \in 1 .. (m + 1), j \in 1 .. (n + 1) : <<i, j>> \in S
    BY <1>1, <2>1, <2>2, <2>3, GridInduction
  <2>5. \A c \in GridOf(m, n) : R[c] = f[c]
    BY <2>4 DEF GridOf, S
  <2>6. R = [p \in Grid(left, right) |-> Body(R, p[1], p[2])]
    BY <1>9
  <2> HIDE DEF Body, Is
  <2> QED
    BY <1>2, <1>6, <2>5, <2>6
<1>13. DiffedFrom(R, U, left, right, places, reverse)
  BY <1>11, <1>12 DEF DiffedFrom
<1> QED
  BY <1>10, <1>13

\* try_merge of two streams goes through the rows of the first, and those of the
\* second that meet none of them.
LEMMA MergedStreams ==
  ASSUME NEW U, NEW places, NEW reverse, OrdersRows(U, places, reverse),
         NEW left \in Seq(U), NEW right \in Seq(U),
         Streams(left, ToSet(left), places, reverse), Streams(right, ToSet(right), places, reverse)
  PROVE  Streams(Merged(left, right, places, reverse),
                 Over(places, ToSet(left), ToSet(right)), places, reverse)
<1> DEFINE m == Len(left)
           n == Len(right)
           A(x, y) == Ahead(places, reverse, x, y)
<1>1. PICK M : /\ MergedFrom(M, U, left, right, places, reverse)
               /\ Merged(left, right, places, reverse) = M[<<1, 1>>]
  BY MergedMeans
<1>2. ASSUME NEW i \in 1 .. (m + 1), NEW j \in 1 .. (n + 1)
      PROVE  M[<<i, j>>] = IF i > m THEN SubSeq(right, j, n)
               ELSE IF j > n THEN SubSeq(left, i, m)
               ELSE IF A(left[i], right[j]) THEN <<left[i]>> \o M[<<i + 1, j>>]
               ELSE IF A(right[j], left[i]) THEN <<right[j]>> \o M[<<i, j + 1>>]
               ELSE <<left[i]>> \o M[<<i + 1, j + 1>>]
  BY <1>1 DEF MergedFrom
<1> DEFINE L(i) == From(left, i)
           R(j) == From(right, j)
           Goes(i, j) == Streams(M[<<i, j>>], Over(places, L(i), R(j)), places, reverse)
           S == {p \in GridOf(m, n) : Goes(p[1], p[2])}
<1>3. m \in Nat /\ n \in Nat /\ (\A i \in 1 .. m : left[i] \in U) /\ \A j \in 1 .. n : right[j] \in U
  OBVIOUS
<1>4. /\ L(m + 1) = {} /\ R(n + 1) = {} /\ L(1) = ToSet(left) /\ R(1) = ToSet(right)
      /\ \A i \in 1 .. m : L(i) = {left[i]} \cup L(i + 1)
      /\ \A j \in 1 .. n : R(j) = {right[j]} \cup R(j + 1)
      /\ \A i \in 1 .. (m + 1) : L(i) \in SUBSET U
      /\ \A j \in 1 .. (n + 1) : R(j) \in SUBSET U
  BY FromMeans
<1>5. /\ \A i \in 1 .. m : \A y \in L(i + 1) : A(left[i], y)
      /\ \A j \in 1 .. n : \A y \in R(j + 1) : A(right[j], y)
  <2>1. /\ \A a, b \in 1 .. m : a < b => A(left[a], left[b])
        /\ \A a, b \in 1 .. n : a < b => A(right[a], right[b])
    BY DEF Streams
  <2>2. /\ \A i : L(i) = {left[k] : k \in i .. m}
        /\ \A j : R(j) = {right[k] : k \in j .. n}
    BY DEF From
  <2>3. /\ \A i \in 1 .. m : \A k \in (i + 1) .. m : k \in 1 .. m /\ i < k
        /\ \A j \in 1 .. n : \A k \in (j + 1) .. n : k \in 1 .. n /\ j < k
    BY <1>3
  <2> HIDE DEF m, n, A, L, R
  <2> QED
    BY <2>1, <2>2, <2>3
<1>6. /\ \A i \in 1 .. (m + 1) : Streams(SubSeq(left, i, m), L(i), places, reverse)
      /\ \A j \in 1 .. (n + 1) : Streams(SubSeq(right, j, n), R(j), places, reverse)
  BY SuffixStreams
<1> HIDE DEF m, n, A, L, R
<1>7. ASSUME NEW i \in 1 .. (m + 1) PROVE Goes(i, n + 1)
  <2>1. n + 1 \in 1 .. (n + 1) /\ n + 1 > n /\ SubSeq(right, n + 1, n) = <<>>
    BY <1>3 DEF n
  <2>2. CASE i > m
    <3>1. i = m + 1 /\ M[<<i, n + 1>>] = SubSeq(right, n + 1, n)
      <4>1. i = m + 1
        BY <1>3, <2>2
      <4> QED
        BY <1>2, <2>1, <2>2, <4>1
    <3>2. Over(places, L(i), R(n + 1)) = R(n + 1)
      BY <1>4, <3>1 DEF Over
    <3> QED
      BY <1>6, <2>1, <3>1, <3>2
  <2>3. CASE ~(i > m)
    <3>1. M[<<i, n + 1>>] = SubSeq(left, i, m)
      BY <1>2, <2>1, <2>3
    <3>2. Over(places, L(i), R(n + 1)) = L(i)
      BY <1>4 DEF Over
    <3> QED
      BY <1>6, <3>1, <3>2
  <2> QED
    BY <2>2, <2>3
<1>8. ASSUME NEW j \in 1 .. (n + 1) PROVE Goes(m + 1, j)
  <2>1. m + 1 \in 1 .. (m + 1) /\ m + 1 > m
    BY <1>3
  <2>2. M[<<m + 1, j>>] = SubSeq(right, j, n)
    BY <1>2, <2>1
  <2>3. Over(places, L(m + 1), R(j)) = R(j)
    BY <1>4 DEF Over
  <2> QED
    BY <1>6, <2>2, <2>3
<1>9. ASSUME NEW i \in 1 .. m, NEW j \in 1 .. n, Goes(i + 1, j), Goes(i, j + 1), Goes(i + 1, j + 1)
      PROVE  Goes(i, j)
  <2> DEFINE l == left[i]
             r == right[j]
             Lr == L(i + 1)
             Rr == R(j + 1)
  <2>1. /\ i \in 1 .. (m + 1) /\ i + 1 \in 1 .. (m + 1) /\ j \in 1 .. (n + 1) /\ j + 1 \in 1 .. (n + 1)
        /\ ~(i > m) /\ ~(j > n)
    BY <1>3
  <2>2. L(i) = {l} \cup Lr /\ R(j) = {r} \cup Rr /\ l \in U /\ r \in U
    BY <1>3, <1>4
  <2>3. Lr \in SUBSET U /\ Rr \in SUBSET U /\ (\A y \in Lr : A(l, y)) /\ \A y \in Rr : A(r, y)
    BY <1>4, <1>5, <2>1
  <2>4. M[<<i, j>>] = IF A(l, r) THEN <<l>> \o M[<<i + 1, j>>]
                      ELSE IF A(r, l) THEN <<r>> \o M[<<i, j + 1>>]
                      ELSE <<l>> \o M[<<i + 1, j + 1>>]
    BY <1>2, <2>1
  <2>5. /\ Streams(M[<<i + 1, j>>], Over(places, Lr, {r} \cup Rr), places, reverse)
        /\ Streams(M[<<i, j + 1>>], Over(places, {l} \cup Lr, Rr), places, reverse)
        /\ Streams(M[<<i + 1, j + 1>>], Over(places, Lr, Rr), places, reverse)
    BY <1>9, <2>2
  <2> DEFINE W == U
  <2> HIDE DEF l, r, Lr, Rr, W
  <2>6. l \in W /\ r \in W /\ Lr \in SUBSET W /\ Rr \in SUBSET W /\ OrdersRows(W, places, reverse)
    BY <2>2, <2>3 DEF W
  <2>7. /\ A(l, r) =>
             /\ Over(places, {l} \cup Lr, {r} \cup Rr) = {l} \cup Over(places, Lr, {r} \cup Rr)
             /\ \A y \in Over(places, Lr, {r} \cup Rr) : A(l, y)
        /\ A(r, l) =>
             /\ Over(places, {l} \cup Lr, {r} \cup Rr) = {r} \cup Over(places, {l} \cup Lr, Rr)
             /\ \A y \in Over(places, {l} \cup Lr, Rr) : A(r, y)
        /\ Tied(places, l, r) =>
             /\ Over(places, {l} \cup Lr, {r} \cup Rr) = {l} \cup Over(places, Lr, Rr)
             /\ \A y \in Over(places, Lr, Rr) : A(l, y)
    BY <2>3, <2>6, OverStep DEF A
  <2>8. /\ Over(places, Lr, {r} \cup Rr) \in SUBSET W /\ Over(places, {l} \cup Lr, Rr) \in SUBSET W
        /\ Over(places, Lr, Rr) \in SUBSET W
    BY <2>6 DEF Over
  <2>9. CASE A(l, r)
    <3>1. Streams(<<l>> \o M[<<i + 1, j>>], {l} \cup Over(places, Lr, {r} \cup Rr), places, reverse)
      BY <2>5, <2>6, <2>7, <2>8, <2>9, ConsStreams DEF A
    <3> QED
      BY <2>2, <2>4, <2>7, <2>9, <3>1
  <2>10. CASE ~A(l, r) /\ A(r, l)
    <3>1. Streams(<<r>> \o M[<<i, j + 1>>], {r} \cup Over(places, {l} \cup Lr, Rr), places, reverse)
      BY <2>5, <2>6, <2>7, <2>8, <2>10, ConsStreams DEF A
    <3> QED
      BY <2>2, <2>4, <2>7, <2>10, <3>1
  <2>11. CASE ~A(l, r) /\ ~A(r, l)
    <3>1. Tied(places, l, r)
      BY <2>6, <2>11 DEF OrdersRows, A
    <3>2. Streams(<<l>> \o M[<<i + 1, j + 1>>], {l} \cup Over(places, Lr, Rr), places, reverse)
      BY <2>5, <2>6, <2>7, <2>8, <3>1, ConsStreams DEF A
    <3> QED
      BY <2>2, <2>4, <2>7, <2>11, <3>1, <3>2
  <2> QED
    BY <2>9, <2>10, <2>11
<1> HIDE DEF Goes
<1>10. /\ \A i \in 1 .. (m + 1) : <<i, n + 1>> \in S
       /\ \A j \in 1 .. (n + 1) : <<m + 1, j>> \in S
       /\ \A i \in 1 .. m, j \in 1 .. n :
            <<i + 1, j>> \in S /\ <<i, j + 1>> \in S /\ <<i + 1, j + 1>> \in S => <<i, j>> \in S
  BY <1>3, <1>7, <1>8, <1>9 DEF GridOf
<1>11. \A p \in S : Goes(p[1], p[2])
  OBVIOUS
<1> HIDE DEF S
<1>12. <<1, 1>> \in S
  <2>1. \A i \in 1 .. (m + 1), j \in 1 .. (n + 1) : <<i, j>> \in S
    BY <1>3, <1>10, GridInduction
  <2> QED
    BY <1>3, <2>1
<1>13. Goes(1, 1)
  BY <1>11, <1>12
<1> QED
  BY <1>1, <1>4, <1>13 DEF Goes

\* try_diff of two streams goes through the rows of the first that meet none of the
\* second.
LEMMA DiffedStreams ==
  ASSUME NEW U, NEW places, NEW reverse, OrdersRows(U, places, reverse),
         NEW left \in Seq(U), NEW right \in Seq(U),
         Streams(left, ToSet(left), places, reverse), Streams(right, ToSet(right), places, reverse)
  PROVE  Streams(Diffed(left, right, places, reverse),
                 Less(places, ToSet(left), ToSet(right)), places, reverse)
<1> DEFINE m == Len(left)
           n == Len(right)
           A(x, y) == Ahead(places, reverse, x, y)
<1>1. PICK M : /\ DiffedFrom(M, U, left, right, places, reverse)
               /\ Diffed(left, right, places, reverse) = M[<<1, 1>>]
  BY DiffedMeans
<1>2. ASSUME NEW i \in 1 .. (m + 1), NEW j \in 1 .. (n + 1)
      PROVE  M[<<i, j>>] = IF i > m \/ j > n THEN SubSeq(left, i, m)
               ELSE IF A(left[i], right[j]) THEN <<left[i]>> \o M[<<i + 1, j>>]
               ELSE IF A(right[j], left[i]) THEN M[<<i, j + 1>>]
               ELSE M[<<i + 1, j + 1>>]
  BY <1>1 DEF DiffedFrom
<1> DEFINE L(i) == From(left, i)
           R(j) == From(right, j)
           Goes(i, j) == Streams(M[<<i, j>>], Less(places, L(i), R(j)), places, reverse)
           S == {p \in GridOf(m, n) : Goes(p[1], p[2])}
<1>3. m \in Nat /\ n \in Nat /\ (\A i \in 1 .. m : left[i] \in U) /\ \A j \in 1 .. n : right[j] \in U
  OBVIOUS
<1>4. /\ L(m + 1) = {} /\ R(n + 1) = {} /\ L(1) = ToSet(left) /\ R(1) = ToSet(right)
      /\ \A i \in 1 .. m : L(i) = {left[i]} \cup L(i + 1)
      /\ \A j \in 1 .. n : R(j) = {right[j]} \cup R(j + 1)
      /\ \A i \in 1 .. (m + 1) : L(i) \in SUBSET U
      /\ \A j \in 1 .. (n + 1) : R(j) \in SUBSET U
  BY FromMeans
<1>5. /\ \A i \in 1 .. m : \A y \in L(i + 1) : A(left[i], y)
      /\ \A j \in 1 .. n : \A y \in R(j + 1) : A(right[j], y)
  <2>1. /\ \A a, b \in 1 .. m : a < b => A(left[a], left[b])
        /\ \A a, b \in 1 .. n : a < b => A(right[a], right[b])
    BY DEF Streams
  <2>2. /\ \A i : L(i) = {left[k] : k \in i .. m}
        /\ \A j : R(j) = {right[k] : k \in j .. n}
    BY DEF From
  <2>3. /\ \A i \in 1 .. m : \A k \in (i + 1) .. m : k \in 1 .. m /\ i < k
        /\ \A j \in 1 .. n : \A k \in (j + 1) .. n : k \in 1 .. n /\ j < k
    BY <1>3
  <2> HIDE DEF m, n, A, L, R
  <2> QED
    BY <2>1, <2>2, <2>3
<1>6. \A i \in 1 .. (m + 1) : Streams(SubSeq(left, i, m), L(i), places, reverse)
  BY SuffixStreams
<1> HIDE DEF m, n, A, L, R
<1>7. ASSUME NEW i \in 1 .. (m + 1) PROVE Goes(i, n + 1)
  <2>1. n + 1 \in 1 .. (n + 1) /\ n + 1 > n
    BY <1>3
  <2>2. M[<<i, n + 1>>] = SubSeq(left, i, m)
    BY <1>2, <2>1
  <2>3. Less(places, L(i), R(n + 1)) = L(i)
    BY <1>4 DEF Less
  <2> QED
    BY <1>6, <2>2, <2>3
<1>8. ASSUME NEW j \in 1 .. (n + 1) PROVE Goes(m + 1, j)
  <2>1. m + 1 \in 1 .. (m + 1) /\ m + 1 > m
    BY <1>3
  <2>2. M[<<m + 1, j>>] = SubSeq(left, m + 1, m)
    BY <1>2, <2>1
  <2>3. Less(places, L(m + 1), R(j)) = L(m + 1)
    BY <1>4 DEF Less
  <2> QED
    BY <1>6, <2>1, <2>2, <2>3
<1>9. ASSUME NEW i \in 1 .. m, NEW j \in 1 .. n, Goes(i + 1, j), Goes(i, j + 1), Goes(i + 1, j + 1)
      PROVE  Goes(i, j)
  <2> DEFINE l == left[i]
             r == right[j]
             Lr == L(i + 1)
             Rr == R(j + 1)
  <2>1. /\ i \in 1 .. (m + 1) /\ i + 1 \in 1 .. (m + 1) /\ j \in 1 .. (n + 1) /\ j + 1 \in 1 .. (n + 1)
        /\ ~(i > m) /\ ~(j > n)
    BY <1>3
  <2>2. L(i) = {l} \cup Lr /\ R(j) = {r} \cup Rr /\ l \in U /\ r \in U
    BY <1>3, <1>4
  <2>3. Lr \in SUBSET U /\ Rr \in SUBSET U /\ (\A y \in Lr : A(l, y)) /\ \A y \in Rr : A(r, y)
    BY <1>4, <1>5, <2>1
  <2>4. M[<<i, j>>] = IF A(l, r) THEN <<l>> \o M[<<i + 1, j>>]
                      ELSE IF A(r, l) THEN M[<<i, j + 1>>]
                      ELSE M[<<i + 1, j + 1>>]
    BY <1>2, <2>1
  <2>5. /\ Streams(M[<<i + 1, j>>], Less(places, Lr, {r} \cup Rr), places, reverse)
        /\ Streams(M[<<i, j + 1>>], Less(places, {l} \cup Lr, Rr), places, reverse)
        /\ Streams(M[<<i + 1, j + 1>>], Less(places, Lr, Rr), places, reverse)
    BY <1>9, <2>2
  <2> DEFINE W == U
  <2> HIDE DEF l, r, Lr, Rr, W
  <2>6. l \in W /\ r \in W /\ Lr \in SUBSET W /\ Rr \in SUBSET W /\ OrdersRows(W, places, reverse)
    BY <2>2, <2>3 DEF W
  <2>7. /\ A(l, r) =>
             /\ Less(places, {l} \cup Lr, {r} \cup Rr) = {l} \cup Less(places, Lr, {r} \cup Rr)
             /\ \A y \in Less(places, Lr, {r} \cup Rr) : A(l, y)
        /\ A(r, l) => Less(places, {l} \cup Lr, {r} \cup Rr) = Less(places, {l} \cup Lr, Rr)
        /\ Tied(places, l, r) => Less(places, {l} \cup Lr, {r} \cup Rr) = Less(places, Lr, Rr)
    <3>1. (\A y \in Lr : Ahead(places, reverse, l, y)) /\ \A y \in Rr : Ahead(places, reverse, r, y)
      BY <2>3 DEF A
    <3>2. /\ Ahead(places, reverse, l, r) =>
               /\ Less(places, {l} \cup Lr, {r} \cup Rr) = {l} \cup Less(places, Lr, {r} \cup Rr)
               /\ \A y \in Less(places, Lr, {r} \cup Rr) : Ahead(places, reverse, l, y)
          /\ Ahead(places, reverse, r, l) =>
               Less(places, {l} \cup Lr, {r} \cup Rr) = Less(places, {l} \cup Lr, Rr)
          /\ Tied(places, l, r) =>
               Less(places, {l} \cup Lr, {r} \cup Rr) = Less(places, Lr, Rr)
      <4>1. LessSteps(places, reverse, l, r, Lr, Rr)
        BY <2>6, <3>1, LessStep
      <4> QED
        BY <4>1 DEF LessSteps
    <3> QED
      BY <3>2 DEF A
  <2>8. Less(places, Lr, {r} \cup Rr) \in SUBSET W
    BY <2>6 DEF Less
  <2>9. CASE A(l, r)
    <3>1. Streams(<<l>> \o M[<<i + 1, j>>], {l} \cup Less(places, Lr, {r} \cup Rr), places, reverse)
      BY <2>5, <2>6, <2>7, <2>8, <2>9, ConsStreams DEF A
    <3> QED
      BY <2>2, <2>4, <2>7, <2>9, <3>1
  <2>10. CASE ~A(l, r) /\ A(r, l)
    BY <2>2, <2>4, <2>5, <2>7, <2>10
  <2>11. CASE ~A(l, r) /\ ~A(r, l)
    <3>1. Tied(places, l, r)
      BY <2>6, <2>11 DEF OrdersRows, A
    <3> QED
      BY <2>2, <2>4, <2>5, <2>7, <2>11, <3>1
  <2> QED
    BY <2>9, <2>10, <2>11
<1> HIDE DEF Goes
<1>10. /\ \A i \in 1 .. (m + 1) : <<i, n + 1>> \in S
       /\ \A j \in 1 .. (n + 1) : <<m + 1, j>> \in S
       /\ \A i \in 1 .. m, j \in 1 .. n :
            <<i + 1, j>> \in S /\ <<i, j + 1>> \in S /\ <<i + 1, j + 1>> \in S => <<i, j>> \in S
  BY <1>3, <1>7, <1>8, <1>9 DEF GridOf
<1>11. \A p \in S : Goes(p[1], p[2])
  OBVIOUS
<1> HIDE DEF S
<1>12. <<1, 1>> \in S
  <2>1. \A i \in 1 .. (m + 1), j \in 1 .. (n + 1) : <<i, j>> \in S
    BY <1>3, <1>10, GridInduction
  <2> QED
    BY <1>3, <2>1
<1>13. Goes(1, 1)
  BY <1>11, <1>12
<1> QED
  BY <1>1, <1>4, <1>13 DEF Goes

-----------------------------------------------------------------------------
(* What a table shows. *)

LEMMA SchemaParts ==
  ASSUME NEW s, IsSchema(s)
  PROVE  /\ s.key \in Seq(Name) /\ s.values \in Seq(Name) /\ s.types \in Seq(CellClass)
         /\ KeyLen(s) \in Nat /\ KeyLen(s) >= 1 /\ KeyLen(s) <= Len(s.types)
         /\ Len(s.types) = KeyLen(s) + Len(s.values)
         /\ Columns(s) \in Seq(Name) /\ Len(Columns(s)) = Len(s.types)
         /\ \A i \in 1 .. KeyLen(s) : Columns(s)[i] = s.key[i]
         /\ \A i \in 1 .. Len(s.values) : Columns(s)[KeyLen(s) + i] = s.values[i]
<1>1. /\ s \in [key : Seq(Name), values : Seq(Name), types : Seq(CellClass),
                indices : Seq([name : STRING, columns : Seq(Name), types : Seq(CellClass)])]
      /\ s.key # <<>> /\ Len(s.types) = Len(Columns(s))
  BY DEF IsSchema
<1>2. s.key \in Seq(Name) /\ s.values \in Seq(Name) /\ s.types \in Seq(CellClass)
  BY <1>1
<1>3. Len(s.key) \in Nat /\ Len(s.key) >= 1
  BY <1>1, <1>2
<1> QED
  BY <1>1, <1>2, <1>3 DEF Columns, KeyLen

\* The first place of a name.
LEMMA WhereMeans ==
  ASSUME NEW N, NEW seq \in Seq(N), NEW x
  PROVE  /\ x \in ToSet(seq) => /\ Where(seq, x) \in 1 .. Len(seq) /\ seq[Where(seq, x)] = x
                                /\ \A i \in 1 .. Len(seq) : seq[i] = x => Where(seq, x) <= i
         /\ x \notin ToSet(seq) => Where(seq, x) = 0
<1> DEFINE I == {i \in 1 .. Len(seq) : seq[i] = x}
<1>1. Where(seq, x) = IF I # {} THEN CHOOSE i \in I : \A j \in I : i <= j ELSE 0
  BY DEF Where, SelectInSeq, Min
<1>2. DOMAIN seq = 1 .. Len(seq) /\ Len(seq) \in Nat
  OBVIOUS
<1>3. x \in ToSet(seq) <=> I # {}
  BY <1>2 DEF ToSet
<1>4. ASSUME I # {} PROVE \E i \in I : \A j \in I : i <= j
  <2>1. I \in SUBSET Nat /\ I # {}
    BY <1>2, <1>4
  <2> HIDE DEF I
  <2> QED
    BY <2>1, LeastNumber
<1>5. CASE x \in ToSet(seq)
  <2>1. Where(seq, x) \in I /\ \A j \in I : Where(seq, x) <= j
    <3>1. I # {}
      BY <1>3, <1>5
    <3> HIDE DEF I
    <3> QED
      BY <1>1, <1>4, <3>1
  <2> QED
    BY <1>5, <2>1
<1>6. CASE x \notin ToSet(seq)
  BY <1>1, <1>3, <1>6
<1> QED
  BY <1>5, <1>6

\* Rows with one key each.
Keyed(schema, rows) == \A r, x \in rows : Key(schema, r) = Key(schema, x) => r = x

LEMMA KeyMeans ==
  ASSUME NEW s, IsSchema(s), NEW r \in RowsOf(s.types)
  PROVE  /\ Key(s, r) = [i \in 1 .. KeyLen(s) |-> r[i]]
         /\ Len(Key(s, r)) = KeyLen(s) /\ Key(s, r) \in Seq(AllCells)
<1>1. /\ s.types \in Seq(CellClass)
      /\ KeyLen(s) \in Nat /\ KeyLen(s) >= 1 /\ KeyLen(s) <= Len(s.types)
  BY SchemaParts
<1>2. Len(r) = Len(s.types) /\ r \in Seq(AllCells)
  BY <1>1, RowMeans DEF RowsOf
<1>3. Key(s, r) = SubSeq(r, 1, KeyLen(s))
  BY DEF Key
<1> DEFINE n == KeyLen(s)
<1> HIDE DEF n
<1>4. SubSeq(r, 1, n) = [i \in 1 .. n |-> r[i]] /\ Len(SubSeq(r, 1, n)) = n
  BY <1>1, <1>2 DEF n
<1>5. SubSeq(r, 1, n) \in Seq(AllCells)
  BY <1>1, <1>2 DEF n
<1> QED
  BY <1>3, <1>4, <1>5 DEF n

\* Rows tie in the places of the key where they have one key.
LEMMA KeyPlacesMean ==
  ASSUME NEW s, IsSchema(s)
  PROVE  /\ KeyPlaces(s) \in Seq(1 .. Len(s.types))
         /\ <<>> \o KeyPlaces(s) = KeyPlaces(s)
         /\ \A l, r \in RowsOf(s.types) : Tied(KeyPlaces(s), l, r) <=> Key(s, l) = Key(s, r)
<1>1. /\ s.types \in Seq(CellClass)
      /\ KeyLen(s) \in Nat /\ KeyLen(s) >= 1 /\ KeyLen(s) <= Len(s.types)
  BY SchemaParts
<1> DEFINE n == KeyLen(s)
           p == KeyPlaces(s)
<1>2. p = [i \in 1 .. n |-> i]
  BY DEF KeyPlaces
<1> HIDE DEF n, p
<1>3. p \in Seq(1 .. Len(s.types)) /\ DOMAIN p = 1 .. n /\ \A i \in 1 .. n : p[i] = i
  BY <1>1, <1>2 DEF n
<1>4. <<>> \o p = p
  BY <1>3
<1>5. ASSUME NEW l \in RowsOf(s.types), NEW r \in RowsOf(s.types)
      PROVE  Tied(p, l, r) <=> Key(s, l) = Key(s, r)
  <2>1. Key(s, l) = [i \in 1 .. n |-> l[i]] /\ Key(s, r) = [i \in 1 .. n |-> r[i]]
    BY KeyMeans DEF n
  <2> QED
    BY <1>3, <2>1 DEF Tied
<1> QED
  BY <1>3, <1>4, <1>5 DEF p

\* The places of known columns.
Known(s, order) == order \in Seq(Name) /\ ToSet(order) \subseteq ToSet(Columns(s))
LEMMA PlacesMean ==
  ASSUME NEW s, IsSchema(s), NEW order, Known(s, order)
  PROVE  /\ Places(s, order) \in Seq(1 .. Len(s.types))
         /\ Places(s, order) \o KeyPlaces(s) \in Seq(1 .. Len(s.types))
         /\ \A l, r \in RowsOf(s.types) :
              Tied(Places(s, order) \o KeyPlaces(s), l, r) => Key(s, l) = Key(s, r)
<1> DEFINE p == Places(s, order)
           k == KeyPlaces(s)
           n == Len(s.types)
<1>1. Columns(s) \in Seq(Name) /\ Len(Columns(s)) = n
  BY SchemaParts
<1>2. k \in Seq(1 .. n) /\ \A l, r \in RowsOf(s.types) : Tied(k, l, r) => Key(s, l) = Key(s, r)
  BY KeyPlacesMean
<1>3. order \in Seq(Name) /\ \A i \in 1 .. Len(order) : order[i] \in ToSet(Columns(s))
  BY DEF Known, ToSet
<1>4. \A i \in 1 .. Len(order) : Where(Columns(s), order[i]) \in 1 .. n
  BY <1>1, <1>3, WhereMeans
<1>5. p = [i \in 1 .. Len(order) |-> Where(Columns(s), order[i])]
  BY <1>3 DEF Places
<1> HIDE DEF p, k, n
<1>6. p \in Seq(1 .. n)
  BY <1>3, <1>4, <1>5
<1>7. p \o k \in Seq(1 .. n)
  BY <1>2, <1>6
<1>8. ASSUME NEW l, NEW r, Tied(p \o k, l, r) PROVE Tied(k, l, r)
  <2>1. ASSUME NEW i \in 1 .. Len(k) PROVE l[k[i]] = r[k[i]]
    <3>1. Len(p) + i \in 1 .. Len(p \o k) /\ (p \o k)[Len(p) + i] = k[i]
      BY <1>2, <1>6
    <3>2. DOMAIN (p \o k) = 1 .. Len(p \o k)
      BY <1>7
    <3> QED
      BY <1>8, <3>1, <3>2 DEF Tied
  <2>2. DOMAIN k = 1 .. Len(k)
    BY <1>2
  <2> QED
    BY <2>1, <2>2 DEF Tied
<1> QED
  BY <1>2, <1>6, <1>7, <1>8 DEF p, k, n

LEMMA TableParts ==
  ASSUME NEW t, IsTable(t)
  PROVE  /\ IsSchema(t.schema) /\ t.local \in BOOLEAN
         /\ \A rows \in {t.rows, t.inserts, t.deletes} :
              rows \in SUBSET RowsOf(t.schema.types) /\ IsFiniteSet(rows) /\ Keyed(t.schema, rows)
         /\ \A r \in t.inserts, x \in t.deletes : Key(t.schema, r) # Key(t.schema, x)
         /\ t.local => t.inserts = {} /\ t.deletes = {}
<1>1. IsSchema(t.schema) /\ t.local \in BOOLEAN
  BY DEF IsTable
<1>2. ASSUME NEW rows \in {t.rows, t.inserts, t.deletes}, NEW r \in rows
      PROVE  r \in RowsOf(t.schema.types)
  <2>1. IsCells(r) /\ Fits(r, t.schema.types)
    BY DEF IsTable
  <2>2. r \in Seq(Range(r)) /\ \A i \in DOMAIN r : r[i] \in AllCells
    BY <2>1 DEF IsCells, AllCells
  <2>3. r \in Seq(AllCells)
    BY <2>2
  <2> QED
    BY <2>1, <2>3 DEF RowsOf
<1> QED
  BY <1>1, <1>2 DEF IsTable, Keyed

\* And back.
LEMMA TableMade ==
  ASSUME NEW t, IsSchema(t.schema), t.local \in BOOLEAN,
         t = [schema |-> t.schema, local |-> t.local, rows |-> t.rows,
              inserts |-> t.inserts, deletes |-> t.deletes],
         \A rows \in {t.rows, t.inserts, t.deletes} :
           rows \in SUBSET RowsOf(t.schema.types) /\ IsFiniteSet(rows) /\ Keyed(t.schema, rows),
         \A r \in t.inserts, x \in t.deletes : Key(t.schema, r) # Key(t.schema, x),
         t.local => t.inserts = {} /\ t.deletes = {}
  PROVE  IsTable(t)
<1>1. ASSUME NEW r \in RowsOf(t.schema.types) PROVE IsCells(r) /\ Fits(r, t.schema.types)
  <2>1. r \in Seq(AllCells) /\ Fits(r, t.schema.types)
    BY DEF RowsOf
  <2>2. Range(r) = {r[i] : i \in DOMAIN r}
    BY DEF Range
  <2>3. r \in Seq(Range(r))
    BY <2>1, <2>2
  <2>4. \A i \in DOMAIN r : r[i] \in AllCells
    BY <2>1
  <2> QED
    BY <2>1, <2>3, <2>4 DEF IsCells, AllCells
<1> QED
  BY <1>1 DEF IsTable, Keyed

\* row_stream goes through the rows that the range admits.
Admitting(schema, rows, range) == {r \in rows : Admits(schema, range, r)}
StreamPlaces(schema, order) == Places(schema, order) \o KeyPlaces(schema)
LEMMA RowStreamMeans ==
  ASSUME NEW s, IsSchema(s), NEW rows \in SUBSET RowsOf(s.types), IsFiniteSet(rows),
         Keyed(s, rows), NEW range, NEW order, Known(s, order), NEW reverse \in BOOLEAN
  PROVE  /\ OrdersRows(RowsOf(s.types), StreamPlaces(s, order), reverse)
         /\ Streams(RowStream(s, rows, range, order, reverse), Admitting(s, rows, range),
                    StreamPlaces(s, order), reverse)
<1> DEFINE U == RowsOf(s.types)
           places == StreamPlaces(s, order)
           S == Admitting(s, rows, range)
<1>1. s.types \in Seq(CellClass) /\ places \in Seq(1 .. Len(s.types))
  BY SchemaParts, PlacesMean DEF StreamPlaces
<1>2. \A l, r \in U : Tied(places, l, r) => Key(s, l) = Key(s, r)
  BY PlacesMean DEF StreamPlaces
<1>3. RowStream(s, rows, range, order, reverse) = InPlaces(S, places, reverse)
  BY DEF RowStream, InPlaces, StreamPlaces, Admitting
<1>4. S \in SUBSET rows /\ S \in SUBSET U
  BY DEF Admitting
<1>5. IsFiniteSet(S)
  BY <1>4, FS_Subset
<1>6. \A x, y \in S : Tied(places, x, y) => x = y
  BY <1>2, <1>4 DEF Keyed
<1> HIDE DEF places, S
<1>7. OrdersRows(U, places, reverse)
  <2> DEFINE types == s.types
             W == U
  <2>1. types \in Seq(CellClass) /\ places \in Seq(1 .. Len(types)) /\ W \in SUBSET RowsOf(types)
    BY <1>1
  <2> HIDE DEF types, W
  <2>2. OrdersRows(W, places, reverse)
    BY <2>1, RowsOrdered
  <2> QED
    BY <2>2 DEF W
<1> HIDE DEF U
<1>8. Streams(InPlaces(S, places, reverse), S, places, reverse)
  BY <1>4, <1>5, <1>6, <1>7, SortedStreams
<1> QED
  BY <1>3, <1>7, <1>8 DEF U, S, places

LEMMA NaturalPlaces ==
  ASSUME NEW s, IsSchema(s)
  PROVE  /\ Known(s, <<>>)
         /\ StreamPlaces(s, <<>>) = KeyPlaces(s) /\ CollatorPlaces(s, <<>>) = KeyPlaces(s)
<1>1. Places(s, <<>>) = <<>>
  BY DEF Places
<1>2. <<>> \o KeyPlaces(s) = KeyPlaces(s)
  BY KeyPlacesMean
<1>3. <<>> \in Seq(Name) /\ DOMAIN <<>> = {}
  OBVIOUS
<1>4. Known(s, <<>>)
  BY <1>3 DEF Known, ToSet
<1>5. StreamPlaces(s, <<>>) = KeyPlaces(s)
  BY <1>1, <1>2 DEF StreamPlaces
<1>6. CollatorPlaces(s, <<>>) = KeyPlaces(s)
  BY DEF CollatorPlaces
<1> QED
  BY <1>4, <1>5, <1>6

\* What a table shows of the rows that a range admits: those inserted, and the
\* canonical ones that meet no row of the delta that the range admits.
Met(t, range) ==
  {r \in t.inserts : Admits(t.schema, range, r)}
  \cup {r \in t.rows : /\ Admits(t.schema, range, r)
                       /\ \A x \in t.inserts \cup t.deletes :
                            Admits(t.schema, range, x) => Key(t.schema, x) # Key(t.schema, r)}
HasNatural(t, order) == t.local \/ order = <<>>
ReadPlaces(t, order) == StreamPlaces(t.schema, order)

LEMMA MetParts ==
  ASSUME NEW t, IsTable(t), NEW range
  PROVE  /\ Met(t, range) \in SUBSET (t.inserts \cup t.rows)
         /\ Met(t, range) \in SUBSET RowsOf(t.schema.types)
         /\ IsFiniteSet(Met(t, range)) /\ Keyed(t.schema, Met(t, range))
         /\ \A r \in Met(t, range) : Admits(t.schema, range, r)
<1>1. /\ \A rows \in {t.rows, t.inserts} :
           rows \in SUBSET RowsOf(t.schema.types) /\ IsFiniteSet(rows) /\ Keyed(t.schema, rows)
  BY TableParts
<1>2. Met(t, range) \in SUBSET (t.inserts \cup t.rows)
  BY DEF Met
<1>3. IsFiniteSet(t.inserts \cup t.rows)
  BY <1>1, FS_Union
<1>4. IsFiniteSet(Met(t, range))
  BY <1>2, <1>3, FS_Subset
<1>5. Keyed(t.schema, Met(t, range))
  BY <1>1 DEF Keyed, Met
<1> QED
  BY <1>1, <1>2, <1>4, <1>5 DEF Met

\* Whatever its order, a read is of rows of the table that the range admits.
LEMMA SourceRowsFrom ==
  ASSUME NEW t, IsTable(t), NEW range, NEW order, Known(t.schema, order), NEW reverse \in BOOLEAN
  PROVE  SourceRows(t, range, order, reverse)
           \in Seq({r \in t.inserts \cup t.rows : Admits(t.schema, range, r)})
<1> DEFINE U == {r \in t.inserts \cup t.rows : Admits(t.schema, range, r)}
           I == RowStream(t.schema, t.inserts, range, order, reverse)
           R == RowStream(t.schema, t.rows, range, order, reverse)
           D == RowStream(t.schema, t.deletes, range, order, reverse)
           p == CollatorPlaces(t.schema, order)
<1>1. IsSchema(t.schema)
  BY TableParts
<1>2. \A rows \in {t.rows, t.inserts, t.deletes} :
        rows \in SUBSET RowsOf(t.schema.types) /\ IsFiniteSet(rows) /\ Keyed(t.schema, rows)
  BY TableParts
<1>3. /\ I \in Seq(Admitting(t.schema, t.inserts, range))
      /\ R \in Seq(Admitting(t.schema, t.rows, range))
      /\ D \in Seq(Admitting(t.schema, t.deletes, range))
  BY <1>1, <1>2, RowStreamMeans DEF Streams
<1>4. I \in Seq(U) /\ R \in Seq(U)
  <2>1. /\ Admitting(t.schema, t.inserts, range) \in SUBSET U
        /\ Admitting(t.schema, t.rows, range) \in SUBSET U
    BY DEF Admitting
  <2> HIDE DEF I, R, U
  <2> QED
    BY <1>3, <2>1
<1>5. SourceRows(t, range, order, reverse)
        = IF t.local THEN R ELSE Diffed(Merged(I, R, p, reverse), D, p, reverse)
  BY DEF SourceRows
<1> DEFINE M == Merged(I, R, p, reverse)
           T == Admitting(t.schema, t.deletes, range)
<1> HIDE DEF I, R, D, U, p, T
<1>6. M \in Seq(U)
  <2>1. PICK F : MergedFrom(F, U, I, R, p, reverse) /\ M = F[<<1, 1>>]
    BY <1>4, MergedMeans
  <2>2. <<1, 1>> \in Grid(I, R)
    BY <1>4 DEF Grid
  <2> QED
    BY <2>1, <2>2 DEF MergedFrom
<1> HIDE DEF M
<1>7. Diffed(M, D, p, reverse) \in Seq(U)
  <2>1. D \in Seq(T)
    BY <1>3 DEF T
  <2>2. PICK F : DiffedFrom(F, U, M, D, p, reverse) /\ Diffed(M, D, p, reverse) = F[<<1, 1>>]
    BY <1>6, <2>1, DiffedMeans
  <2>3. <<1, 1>> \in Grid(M, D)
    BY <1>6, <2>1 DEF Grid
  <2> QED
    BY <2>2, <2>3 DEF DiffedFrom
<1> QED
  BY <1>4, <1>5, <1>7 DEF M, U

\* A read of the natural order, and any of a local table, goes through those rows.
LEMMA SourceRowsMean ==
  ASSUME NEW t, IsTable(t), NEW range, NEW order, Known(t.schema, order),
         HasNatural(t, order), NEW reverse \in BOOLEAN
  PROVE  /\ OrdersRows(RowsOf(t.schema.types), ReadPlaces(t, order), reverse)
         /\ Streams(SourceRows(t, range, order, reverse), Met(t, range),
                    ReadPlaces(t, order), reverse)
<1> DEFINE U == RowsOf(t.schema.types)
           I == RowStream(t.schema, t.inserts, range, order, reverse)
           R == RowStream(t.schema, t.rows, range, order, reverse)
           D == RowStream(t.schema, t.deletes, range, order, reverse)
           Si == Admitting(t.schema, t.inserts, range)
           Sr == Admitting(t.schema, t.rows, range)
           Sd == Admitting(t.schema, t.deletes, range)
           p == ReadPlaces(t, order)
<1>1. IsSchema(t.schema)
  BY TableParts
<1>2. \A rows \in {t.rows, t.inserts, t.deletes} :
        rows \in SUBSET RowsOf(t.schema.types) /\ IsFiniteSet(rows) /\ Keyed(t.schema, rows)
  BY TableParts
<1>3. /\ OrdersRows(U, p, reverse)
      /\ Streams(I, Si, p, reverse) /\ Streams(R, Sr, p, reverse) /\ Streams(D, Sd, p, reverse)
  BY <1>1, <1>2, RowStreamMeans DEF ReadPlaces
<1>4. Si \in SUBSET U /\ Sr \in SUBSET U /\ Sd \in SUBSET U
  BY <1>2 DEF Admitting
<1>5. SourceRows(t, range, order, reverse)
        = IF t.local THEN R
          ELSE Diffed(Merged(I, R, CollatorPlaces(t.schema, order), reverse), D,
                      CollatorPlaces(t.schema, order), reverse)
  BY DEF SourceRows
<1>6. CASE t.local
  <2>1. Met(t, range) = Sr
    BY <1>6, TableParts DEF Met, Admitting
  <2> QED
    BY <1>3, <1>5, <1>6, <2>1
<1>7. CASE ~t.local
  <2>1. order = <<>> /\ p = KeyPlaces(t.schema) /\ CollatorPlaces(t.schema, order) = p
    BY <1>1, <1>7, NaturalPlaces DEF HasNatural, ReadPlaces
  <2>2. \A l, r \in U : Tied(p, l, r) <=> Key(t.schema, l) = Key(t.schema, r)
    BY <1>1, <2>1, KeyPlacesMean
  <2> DEFINE M == Merged(I, R, p, reverse)
             O == Over(p, Si, Sr)
  <2>3. Met(t, range) = Less(p, O, Sd)
    <3>1. O = Si \cup {r \in Sr : \A x \in Si : Key(t.schema, x) # Key(t.schema, r)}
      BY <1>4, <2>2 DEF Over
    <3>2. O \in SUBSET U
      BY <1>4, <3>1
    <3> HIDE DEF O
    <3>3. Less(p, O, Sd) = {r \in O : \A x \in Sd : Key(t.schema, x) # Key(t.schema, r)}
      BY <1>4, <2>2, <3>2 DEF Less
    <3>4. \A r \in Si, x \in Sd : Key(t.schema, x) # Key(t.schema, r)
      BY TableParts DEF Admitting
    <3> HIDE DEF U
    <3> QED
      BY <3>1, <3>3, <3>4 DEF Met, Admitting
  <2> HIDE DEF I, R, D, Si, Sr, Sd, p, M, O
  <2>4. ToSet(I) = Si /\ ToSet(R) = Sr /\ ToSet(D) = Sd
    <3> DEFINE W == U
    <3>1. OrdersRows(W, p, reverse) /\ Si \in SUBSET W /\ Sr \in SUBSET W /\ Sd \in SUBSET W
      BY <1>3, <1>4
    <3> HIDE DEF U, W
    <3>2. ASSUME NEW s, NEW S, S \in SUBSET W, Streams(s, S, p, reverse) PROVE ToSet(s) = S
      BY <3>1, <3>2, StreamsOnce
    <3> QED
      BY <1>3, <3>1, <3>2
  <2>5. /\ I \in Seq(U) /\ R \in Seq(U) /\ D \in Seq(U)
        /\ Streams(I, ToSet(I), p, reverse) /\ Streams(R, ToSet(R), p, reverse)
        /\ Streams(D, ToSet(D), p, reverse)
    <3> HIDE DEF U
    <3> QED
      BY <1>3, <1>4, <2>4 DEF Streams
  <2>6. Streams(M, O, p, reverse)
    <3> HIDE DEF U
    <3>1. Streams(M, Over(p, ToSet(I), ToSet(R)), p, reverse)
      BY <1>3, <2>5, MergedStreams DEF M
    <3> QED
      BY <2>4, <3>1 DEF O
  <2>7. O \in SUBSET U
    BY <1>4 DEF Over, O
  <2> HIDE DEF U
  <2>8. ToSet(M) = O
    <3>1. OrdersRows(U, p, reverse)
      BY <1>3
    <3> QED
      BY <3>1, <2>6, <2>7, StreamsOnce
  <2>9. M \in Seq(U) /\ Streams(M, ToSet(M), p, reverse)
    BY <2>6, <2>7, <2>8 DEF Streams
  <2>10. Streams(Diffed(M, D, p, reverse), Less(p, ToSet(M), ToSet(D)), p, reverse)
    BY <1>3, <2>5, <2>9, DiffedStreams
  <2>11. SourceRows(t, range, order, reverse) = Diffed(M, D, p, reverse)
    BY <1>5, <1>7, <2>1 DEF M
  <2> QED
    BY <1>3, <2>3, <2>4, <2>8, <2>10, <2>11 DEF U, p
<1> QED
  BY <1>6, <1>7

LEMMA SourceRowsCount ==
  ASSUME NEW t, IsTable(t), NEW range, NEW order, Known(t.schema, order),
         HasNatural(t, order), NEW reverse \in BOOLEAN
  PROVE  LET s == SourceRows(t, range, order, reverse)
         IN  /\ s \in Seq(Met(t, range)) /\ ToSet(s) = Met(t, range)
             /\ Len(s) = Cardinality(Met(t, range))
             /\ \A i, j \in 1 .. Len(s) : Key(t.schema, s[i]) = Key(t.schema, s[j]) => i = j
<1> DEFINE s == SourceRows(t, range, order, reverse)
           S == Met(t, range)
           U == RowsOf(t.schema.types)
           p == ReadPlaces(t, order)
<1>1. OrdersRows(U, p, reverse) /\ Streams(s, S, p, reverse)
  BY SourceRowsMean
<1>2. S \in SUBSET U /\ Keyed(t.schema, S)
  BY MetParts
<1> HIDE DEF s, S, U, p
<1>3. (\A i, j \in 1 .. Len(s) : s[i] = s[j] => i = j) /\ Len(s) = Cardinality(S) /\ ToSet(s) = S
  BY <1>1, <1>2, StreamsOnce
<1>4. s \in Seq(S)
  BY <1>1 DEF Streams
<1>5. \A i, j \in 1 .. Len(s) : Key(t.schema, s[i]) = Key(t.schema, s[j]) => i = j
  <2>1. \A i \in 1 .. Len(s) : s[i] \in S
    BY <1>4
  <2> QED
    BY <1>2, <1>3, <2>1 DEF Keyed
<1> QED
  BY <1>3, <1>4, <1>5 DEF s, S

\* What a caller sees with no range, key by key.
LEMMA VisibleMeans ==
  ASSUME NEW t, IsTable(t)
  PROVE  /\ Visible(t) = Met(t, NoRange)
         /\ Visible(t) = t.inserts \cup {r \in t.rows : \A x \in t.inserts \cup t.deletes :
                                           Key(t.schema, x) # Key(t.schema, r)}
         /\ \A key : ReadRow(t, key) = {r \in Visible(t) : Key(t.schema, r) = key}
<1> DEFINE K(r) == Key(t.schema, r)
           V == t.inserts \cup {r \in t.rows : \A x \in t.inserts \cup t.deletes : K(x) # K(r)}
<1>1. \A r \in t.inserts, x \in t.deletes : K(r) # K(x)
  BY TableParts
<1>2. /\ \A r, x \in t.inserts : K(r) = K(x) => r = x
      /\ \A r, x \in t.rows : K(r) = K(x) => r = x
  BY TableParts DEF Keyed
<1>3. \A key : ReadRow(t, key) =
        LET inserted == {r \in t.inserts : K(r) = key}
        IN  IF inserted # {} THEN inserted
            ELSE IF {r \in t.deletes : K(r) = key} # {} THEN {}
            ELSE {r \in t.rows : K(r) = key}
  BY DEF ReadRow, RowsWithKey
<1>4. \A key : ReadRow(t, key) = {r \in V : K(r) = key}
  <2> HIDE DEF K
  <2> QED
    BY <1>1, <1>2, <1>3
<1>5. Visible(t) = UNION {ReadRow(t, K(r)) : r \in t.rows \cup t.inserts}
  BY DEF Visible
<1>6. V \in SUBSET (t.rows \cup t.inserts)
  OBVIOUS
<1>7. Visible(t) = V
  <2> HIDE DEF K, V
  <2> QED
    BY <1>4, <1>5, <1>6
<1>8. \A r : Admits(t.schema, NoRange, r)
  BY DEF Admits, NoRange
<1>9. Met(t, NoRange) = V
  BY <1>8 DEF Met
<1> HIDE DEF V
<1> QED
  BY <1>4, <1>7, <1>9 DEF V, K

\* Ranges over key columns admit a row by its key.
KeyRange(s, range) == DOMAIN range \subseteq ToSet(s.key)
LEMMA KeyAdmits ==
  ASSUME NEW s, IsSchema(s), NEW range, KeyRange(s, range),
         NEW r \in RowsOf(s.types), NEW x \in RowsOf(s.types), Key(s, r) = Key(s, x)
  PROVE  Admits(s, range, r) <=> Admits(s, range, x)
<1>1. /\ s.key \in Seq(Name) /\ KeyLen(s) \in Nat /\ Columns(s) \in Seq(Name)
      /\ Len(Columns(s)) = Len(s.types) /\ KeyLen(s) <= Len(s.types)
      /\ \A i \in 1 .. KeyLen(s) : Columns(s)[i] = s.key[i]
  BY SchemaParts
<1>2. \A i \in 1 .. KeyLen(s) : r[i] = x[i]
  <2>1. Key(s, r) = [i \in 1 .. KeyLen(s) |-> r[i]] /\ Key(s, x) = [i \in 1 .. KeyLen(s) |-> x[i]]
    BY KeyMeans
  <2> QED
    BY <2>1
<1>3. ASSUME NEW c \in DOMAIN range PROVE Where(Columns(s), c) \in 1 .. KeyLen(s)
  <2>1. PICK i \in 1 .. KeyLen(s) : s.key[i] = c
    BY <1>1 DEF KeyRange, ToSet, KeyLen
  <2>2. i \in 1 .. Len(Columns(s)) /\ Columns(s)[i] = c
    BY <1>1, <2>1
  <2>3. c \in ToSet(Columns(s))
    BY <1>1, <2>2 DEF ToSet
  <2>4. Where(Columns(s), c) \in 1 .. Len(Columns(s)) /\ Where(Columns(s), c) <= i
    BY <1>1, <2>2, <2>3, WhereMeans
  <2> QED
    BY <1>1, <2>1, <2>4
<1>4. \A c \in DOMAIN range : r[Where(Columns(s), c)] = x[Where(Columns(s), c)]
  BY <1>2, <1>3
<1> QED
  BY <1>4 DEF Admits

\* So a read of such a range, and any of a local table, shows the visible rows of it.
LEMMA ExactMeans ==
  ASSUME NEW t, IsTable(t), NEW range, t.local \/ KeyRange(t.schema, range)
  PROVE  Met(t, range) = {r \in Visible(t) : Admits(t.schema, range, r)}
<1> SUFFICES ASSUME NEW r
             PROVE  r \in Met(t, range) <=> r \in Visible(t) /\ Admits(t.schema, range, r)
  OBVIOUS
<1> DEFINE K(x) == Key(t.schema, x)
           A(x) == Admits(t.schema, range, x)
<1>1. r \in Visible(t) <=>
        \/ r \in t.inserts
        \/ r \in t.rows /\ \A x \in t.inserts \cup t.deletes : K(x) # K(r)
  BY VisibleMeans
<1>2. r \in Met(t, range) <=>
        \/ r \in t.inserts /\ A(r)
        \/ r \in t.rows /\ A(r) /\ \A x \in t.inserts \cup t.deletes : A(x) => K(x) # K(r)
  BY DEF Met
<1>3. CASE t.local
  <2>1. t.inserts = {} /\ t.deletes = {}
    BY <1>3, TableParts
  <2> QED
    BY <1>1, <1>2, <2>1
<1>4. CASE KeyRange(t.schema, range)
  <2>1. r \in t.rows => \A x \in t.inserts \cup t.deletes : K(x) = K(r) => (A(r) <=> A(x))
    <3>1. IsSchema(t.schema)
      BY TableParts
    <3>2. /\ t.rows \in SUBSET RowsOf(t.schema.types) /\ t.inserts \in SUBSET RowsOf(t.schema.types)
          /\ t.deletes \in SUBSET RowsOf(t.schema.types)
      BY TableParts
    <3> QED
      BY <1>4, <3>1, <3>2, KeyAdmits
  <2> QED
    BY <1>1, <1>2, <2>1
<1> QED
  BY <1>3, <1>4

-----------------------------------------------------------------------------
(* Schemas. *)

IsColumns(all) == all \in Seq([name : Name, class : CellClass])

LEMMA FunctionIsSeq ==
  ASSUME NEW V, NEW n \in Nat, NEW f \in [1 .. n -> V]
  PROVE  f \in Seq(V) /\ Len(f) = n /\ DOMAIN f = 1 .. n
  OBVIOUS

Joined(s, t) == [i \in 1 .. (Len(s) + Len(t)) |-> IF i <= Len(s) THEN s[i] ELSE t[i - Len(s)]]
LEMMA JoinMeans ==
  ASSUME NEW V, NEW s \in Seq(V), NEW t \in Seq(V)
  PROVE  s \o t = Joined(s, t) /\ s \o t \in Seq(V) /\ Len(s \o t) = Len(s) + Len(t)
<1>1. s \o t \in Seq(V) /\ Len(s \o t) = Len(s) + Len(t)
  OBVIOUS
<1>2. ASSUME NEW i \in 1 .. (Len(s) + Len(t))
      PROVE  (s \o t)[i] = IF i <= Len(s) THEN s[i] ELSE t[i - Len(s)]
  OBVIOUS
<1> DEFINE e == s \o t
<1>3. e = [i \in 1 .. Len(e) |-> e[i]]
  <2>1. e \in Seq(V)
    BY <1>1
  <2> HIDE DEF e
  <2> QED
    BY <2>1
<1> QED
  BY <1>1, <1>2, <1>3 DEF Joined

LEMMA SubSeqMeans ==
  ASSUME NEW V, NEW s \in Seq(V), NEW a \in Nat, NEW b \in Nat, a >= 1, b <= Len(s), a <= b + 1
  PROVE  /\ SubSeq(s, a, b) \in Seq(V) /\ Len(SubSeq(s, a, b)) = b + 1 - a
         /\ DOMAIN SubSeq(s, a, b) = 1 .. (b + 1 - a)
         /\ SubSeq(s, a, b) = [i \in 1 .. (b + 1 - a) |-> s[a + i - 1]]
         /\ \A i \in 1 .. (b + 1 - a) : SubSeq(s, a, b)[i] = s[a + i - 1] /\ a + i - 1 \in 1 .. Len(s)
<1> DEFINE n == Len(s)
           m == b + 1 - a
           t == SubSeq(s, a, b)
<1>1. n \in Nat /\ m \in Nat /\ \A k \in 1 .. n : s[k] \in V
  OBVIOUS
<1>2. t = [k \in 1 .. m |-> s[a + k - 1]]
  BY <1>1
<1>3. b <= n
  OBVIOUS
<1> HIDE DEF n, t
<1>4. \A k \in 1 .. m : a + k - 1 \in 1 .. n
  BY <1>1, <1>3
<1> HIDE DEF m
<1>5. t \in [1 .. m -> V]
  BY <1>1, <1>2, <1>4
<1>6. t \in Seq(V) /\ Len(t) = m /\ DOMAIN t = 1 .. m
  BY <1>1, <1>5
<1> QED
  BY <1>2, <1>4, <1>6 DEF t, n, m

\* The schema that new makes of columns alone.
LEMMA NewSchemaMeans ==
  ASSUME NEW all, IsColumns(all), NEW k \in 1 .. Len(all)
  PROVE  LET q == NewSchema(SubSeq(all, 1, k), SubSeq(all, k + 1, Len(all)), <<>>)
         IN  /\ IsSchema(q) /\ q # NoSchema /\ KeyLen(q) = k
             /\ ColumnSchema(q) = all /\ Columns(q) = NamesOf(all)
             /\ q.types = TypesOf(all) /\ q.indices = <<>>
             /\ q.key = [i \in 1 .. k |-> all[i].name]
<1> DEFINE n == Len(all)
           key == SubSeq(all, 1, k)
           values == SubSeq(all, k + 1, n)
           q == NewSchema(key, values, <<>>)
           V == [name : Name, class : CellClass]
<1>1. all \in Seq(V) /\ n \in Nat /\ k \in Nat /\ k >= 1 /\ k <= n
  BY DEF IsColumns
<1>2. ASSUME NEW i \in 1 .. n
      PROVE  all[i] \in V /\ all[i].name \in Name /\ all[i].class \in CellClass
  <2>1. all[i] \in V
    <3> HIDE DEF V
    <3> QED
      BY <1>1
  <2> QED
    BY <2>1
<1>3. /\ key \in Seq(V) /\ Len(key) = k /\ DOMAIN key = 1 .. k /\ key = [i \in 1 .. k |-> all[i]]
  <2>1. /\ key \in Seq(V) /\ Len(key) = k + 1 - 1 /\ DOMAIN key = 1 .. (k + 1 - 1)
        /\ key = [i \in 1 .. (k + 1 - 1) |-> all[1 + i - 1]]
    <3> HIDE DEF V
    <3> QED
      BY <1>1, SubSeqMeans
  <2>2. k + 1 - 1 = k /\ \A i \in 1 .. k : 1 + i - 1 = i
    BY <1>1
  <2> HIDE DEF V, key
  <2> QED
    BY <2>1, <2>2
<1>4. /\ values \in Seq(V) /\ Len(values) = n - k /\ DOMAIN values = 1 .. (n - k)
      /\ values = [i \in 1 .. (n - k) |-> all[k + i]]
  <2>1. /\ values \in Seq(V) /\ Len(values) = n + 1 - (k + 1) /\ DOMAIN values = 1 .. (n + 1 - (k + 1))
        /\ values = [i \in 1 .. (n + 1 - (k + 1)) |-> all[(k + 1) + i - 1]]
    <3> HIDE DEF V
    <3>1. k + 1 \in Nat /\ k + 1 >= 1 /\ n <= Len(all) /\ k + 1 <= n + 1
      BY <1>1
    <3> QED
      BY <1>1, <3>1, SubSeqMeans
  <2>2. n + 1 - (k + 1) = n - k /\ \A i \in 1 .. (n - k) : (k + 1) + i - 1 = k + i
    BY <1>1
  <2> HIDE DEF V, values, n
  <2> QED
    BY <2>1, <2>2
<1> HIDE DEF key, values, n
<1>5. key \o values = all
  <2>1. key \o values = [i \in 1 .. (k + (n - k)) |-> IF i <= k THEN key[i] ELSE values[i - k]]
    <3> HIDE DEF V
    <3>1. key \in Seq(V) /\ values \in Seq(V)
      BY <1>3, <1>4
    <3>2. key \o values = Joined(key, values)
      BY <3>1, JoinMeans
    <3>3. Len(key) = k /\ Len(values) = n - k
      BY <1>3, <1>4
    <3> QED
      BY <3>2, <3>3 DEF Joined
  <2>2. k + (n - k) = n
    BY <1>1
  <2>3. ASSUME NEW i \in 1 .. n PROVE (IF i <= k THEN key[i] ELSE values[i - k]) = all[i]
    <3>1. CASE i <= k
      BY <1>1, <1>3, <3>1
    <3>2. CASE ~(i <= k)
      <4>1. i - k \in 1 .. (n - k) /\ k + (i - k) = i
        BY <1>1, <3>2
      <4> QED
        BY <1>4, <3>2, <4>1
    <3> QED
      BY <3>1, <3>2
  <2>4. all = [i \in 1 .. n |-> all[i]]
    BY <1>1 DEF n
  <2> HIDE DEF V
  <2> QED
    BY <2>1, <2>2, <2>3, <2>4
<1>6. key # <<>>
  BY <1>1, <1>3
<1>7. q = [key |-> NamesOf(key), values |-> NamesOf(values), types |-> TypesOf(all), indices |-> <<>>]
  <2>1. DOMAIN <<>> = {}
    OBVIOUS
  <2>2. q = [key |-> NamesOf(key), values |-> NamesOf(values), types |-> TypesOf(all),
             indices |-> [i \in DOMAIN <<>> |-> NewIndex(<<>>[i], key, all)]]
    BY <1>5, <1>6, <2>1 DEF NewSchema
  <2>3. [i \in DOMAIN <<>> |-> NewIndex(<<>>[i], key, all)] = <<>>
    BY <2>1
  <2> QED
    BY <2>2, <2>3
<1> HIDE DEF q
<1>8. /\ q.key = [i \in 1 .. k |-> all[i].name] /\ q.values = [i \in 1 .. (n - k) |-> all[k + i].name]
      /\ q.types = [i \in 1 .. n |-> all[i].class] /\ q.indices = <<>>
  BY <1>1, <1>3, <1>4, <1>7 DEF NamesOf, TypesOf, n
<1>9. /\ q.key \in Seq(Name) /\ q.values \in Seq(Name) /\ q.types \in Seq(CellClass)
      /\ Len(q.key) = k /\ Len(q.values) = n - k /\ Len(q.types) = n
      /\ DOMAIN q.types = 1 .. n
  <2>1. (\A i \in 1 .. (n - k) : k + i \in 1 .. n) /\ (\A i \in 1 .. k : i \in 1 .. n) /\ n - k \in Nat
    BY <1>1
  <2>2. /\ q.key \in [1 .. k -> Name] /\ q.values \in [1 .. (n - k) -> Name]
        /\ q.types \in [1 .. n -> CellClass]
    BY <1>2, <1>8, <2>1
  <2> QED
    BY <1>1, <2>1, <2>2, FunctionIsSeq
<1>10. \A i \in 1 .. n : i <= k \/ (i - k \in 1 .. (n - k) /\ k + (i - k) = i)
  BY <1>1
<1>11. Columns(q) = [i \in 1 .. n |-> all[i].name] /\ Len(Columns(q)) = n
  <2>1. /\ Len(q.key \o q.values) = k + (n - k)
        /\ q.key \o q.values
             = [i \in 1 .. (k + (n - k)) |-> IF i <= k THEN q.key[i] ELSE q.values[i - k]]
    <3> DEFINE a == q.key
               b == q.values
    <3>2. a \in Seq(Name) /\ b \in Seq(Name)
      BY <1>9
    <3> HIDE DEF a, b
    <3>3. a \o b = Joined(a, b) /\ Len(a \o b) = Len(a) + Len(b)
      BY <3>2, JoinMeans
    <3>1. q.key \o q.values = Joined(q.key, q.values) /\ Len(q.key \o q.values) = Len(q.key) + Len(q.values)
      BY <3>3 DEF a, b
    <3> QED
      BY <1>9, <3>1 DEF Joined
  <2>2. k + (n - k) = n
    BY <1>1
  <2>3. ASSUME NEW i \in 1 .. n
        PROVE  (IF i <= k THEN q.key[i] ELSE q.values[i - k]) = all[i].name
    <3>1. CASE i <= k
      BY <1>1, <1>8, <3>1
    <3>2. CASE ~(i <= k)
      BY <1>8, <1>10, <3>2
    <3> QED
      BY <3>1, <3>2
  <2> QED
    BY <2>1, <2>2, <2>3 DEF Columns
<1>12. ColumnSchema(q) = all
  <2>1. DOMAIN q.types = 1 .. n
    BY <1>8
  <2>2. ColumnSchema(q) = [i \in 1 .. n |-> [name |-> all[i].name, class |-> all[i].class]]
    BY <1>8, <1>11, <2>1 DEF ColumnSchema
  <2>3. \A i \in 1 .. n : [name |-> all[i].name, class |-> all[i].class] = all[i]
    BY <1>2
  <2>4. all = [i \in 1 .. n |-> all[i]]
    BY <1>1 DEF n
  <2> HIDE DEF V
  <2> QED
    BY <2>2, <2>3, <2>4
<1>13. KeyLen(q) = k
  BY <1>9 DEF KeyLen
<1>14. IsSchema(q)
  <2>1. q.key # <<>>
    BY <1>1, <1>9
  <2>2. Len(Columns(q)) = n
    BY <1>11
  <2>3. KeySchema(q) = key /\ ValueSchema(q) = values
    BY <1>9, <1>12, <1>13 DEF KeySchema, ValueSchema, key, values, n
  <2>4. [i \in DOMAIN q.indices |->
           [name |-> q.indices[i].name, columns |-> NamedBy(q, q.indices[i])]] = <<>>
    <3>1. DOMAIN q.indices = {}
      BY <1>8
    <3> QED
      BY <3>1
  <2>5. q \in [key : Seq(Name), values : Seq(Name), types : Seq(CellClass),
               indices : Seq([name : STRING, columns : Seq(Name), types : Seq(CellClass)])]
    <3>1. <<>> \in Seq([name : STRING, columns : Seq(Name), types : Seq(CellClass)])
      OBVIOUS
    <3>2. q = [key |-> q.key, values |-> q.values, types |-> q.types, indices |-> <<>>]
      BY <1>7
    <3> DEFINE I == Seq([name : STRING, columns : Seq(Name), types : Seq(CellClass)])
    <3> HIDE DEF I
    <3>3. <<>> \in I
      BY <3>1 DEF I
    <3>4. q \in [key : Seq(Name), values : Seq(Name), types : Seq(CellClass), indices : I]
      BY <1>9, <3>2, <3>3
    <3> QED
      BY <3>4 DEF I
  <2> QED
    BY <1>9, <2>1, <2>2, <2>3, <2>4, <2>5 DEF IsSchema, q
<1>15. q # NoSchema
  BY <1>1, <1>9 DEF NoSchema
<1>16. Columns(q) = NamesOf(all) /\ q.types = TypesOf(all)
  BY <1>1, <1>8, <1>11 DEF NamesOf, TypesOf, n
<1> QED
  BY <1>8, <1>12, <1>13, <1>14, <1>15, <1>16 DEF q, key, values, n

LEMMA ColumnsFine ==
  ASSUME NEW s, IsSchema(s)
  PROVE  /\ IsColumns(ColumnSchema(s)) /\ Len(ColumnSchema(s)) = Len(s.types)
         /\ DOMAIN ColumnSchema(s) = 1 .. Len(s.types)
         /\ \A i \in 1 .. Len(s.types) : /\ ColumnSchema(s)[i].name = Columns(s)[i]
                                         /\ ColumnSchema(s)[i].class = s.types[i]
<1> DEFINE n == Len(s.types)
           V == [name : Name, class : CellClass]
           c == ColumnSchema(s)
<1>1. s.types \in Seq(CellClass) /\ Columns(s) \in Seq(Name) /\ Len(Columns(s)) = n
  BY SchemaParts
<1>2. n \in Nat /\ DOMAIN s.types = 1 .. n
  BY <1>1
<1>3. \A i \in 1 .. n : s.types[i] \in CellClass /\ Columns(s)[i] \in Name
  BY <1>1
<1>4. c = [i \in 1 .. n |-> [name |-> Columns(s)[i], class |-> s.types[i]]]
  BY <1>2 DEF ColumnSchema
<1> HIDE DEF c, n
<1>5. \A i \in 1 .. n : c[i] \in V /\ c[i].name = Columns(s)[i] /\ c[i].class = s.types[i]
  BY <1>3, <1>4
<1>6. c \in [1 .. n -> V]
  BY <1>4, <1>5
<1> HIDE DEF V
<1>7. c \in Seq(V) /\ Len(c) = n /\ DOMAIN c = 1 .. n
  BY <1>2, <1>6, FunctionIsSeq
<1> QED
  BY <1>5, <1>7 DEF IsColumns, V, n, c

\* Numbers that begin with 1 .. k, the least first.
LEMMA AscendingBegins ==
  ASSUME NEW n \in Nat, NEW I \in SUBSET (1 .. n), NEW k \in Nat, 1 .. k \in SUBSET I
  PROVE  /\ Ascending(I) \in Seq(1 .. n) /\ DOMAIN Ascending(I) = 1 .. Len(Ascending(I))
         /\ k <= Len(Ascending(I)) /\ (\A j \in 1 .. k : Ascending(I)[j] = j)
         /\ \A i \in I : \E j \in 1 .. Len(Ascending(I)) : Ascending(I)[j] = i
         /\ \A j \in 1 .. Len(Ascending(I)) : Ascending(I)[j] \in I
         /\ \A i, j \in 1 .. Len(Ascending(I)) : Ascending(I)[i] = Ascending(I)[j] => i = j
<1> DEFINE a == Ascending(I)
           m == Cardinality(I)
<1>1. I \in SUBSET Int /\ IsFiniteSet(I)
  <2>1. IsFiniteSet(1 .. n)
    BY FS_Interval
  <2>2. IsFiniteSet(I)
    BY <2>1, FS_Subset
  <2> QED
    BY <2>2
<1>2. m \in Nat /\ Enumerates(a, m, I) /\ \A i, j \in 1 .. m : i < j => a[i] < a[j]
  BY <1>1, AscendingInOrder
<1>3. /\ a \in [1 .. m -> I] /\ (\A i, j \in 1 .. m : a[i] = a[j] => i = j)
      /\ \A e \in I : \E i \in 1 .. m : a[i] = e
  BY <1>2 DEF Enumerates
<1> HIDE DEF a, m
<1>4. a \in Seq(1 .. n) /\ Len(a) = m /\ DOMAIN a = 1 .. m
  <2>1. a \in [1 .. m -> 1 .. n]
    BY <1>3
  <2> QED
    BY <1>2, <2>1
<1>5. \A i \in 1 .. m : a[i] \in 1 .. n
  BY <1>3
<1>6. ASSUME NEW j \in 1 .. k, j <= m PROVE a[j] = j
  <2> DEFINE apart == {i \in 1 .. k : i <= m /\ a[i] # i}
  <2> SUFFICES ASSUME apart # {} PROVE FALSE
    BY <1>6
  <2>1. apart # {} /\ apart \in SUBSET Nat
    OBVIOUS
  <2>2. PICK p \in apart : \A q \in apart : p <= q
    <3> HIDE DEF apart
    <3> QED
      BY <2>1, LeastNumber
  <2>3. p \in 1 .. k /\ p \in 1 .. m /\ a[p] # p /\ \A i \in 1 .. m : i < p => a[i] = i
    BY <1>2, <2>2
  <2>4. PICK q \in 1 .. m : a[q] = p
    BY <1>3, <2>3
  <2>5. ~(q < p) /\ q # p
    BY <2>3, <2>4
  <2>6. a[p] < p
    BY <1>2, <2>3, <2>4, <2>5
  <2>7. a[p] \in 1 .. m /\ a[a[p]] = a[p]
    BY <1>2, <1>5, <2>3, <2>6
  <2> QED
    BY <1>3, <2>3, <2>6, <2>7
<1>7. k <= m
  <2> SUFFICES ASSUME ~(k <= m) PROVE FALSE
    OBVIOUS
  <2>1. m + 1 \in 1 .. k
    BY <1>2
  <2>2. PICK q \in 1 .. m : a[q] = m + 1
    BY <1>3, <2>1
  <2>3. q \in 1 .. k /\ q <= m
    BY <1>2, <2>2
  <2>4. a[q] = q
    BY <1>6, <2>3
  <2> QED
    BY <2>2, <2>4, <1>2
<1>8. \A j \in 1 .. k : a[j] = j
  BY <1>2, <1>6, <1>7
<1> QED
  BY <1>3, <1>4, <1>7, <1>8 DEF a

\* What a projection keeps: the places of its columns, those of the key first.
Keeps(s, p, kept) ==
  /\ kept \in Seq(1 .. Len(s.types)) /\ Len(kept) = Len(p.columns) /\ KeyLen(s) <= Len(kept)
  /\ \A j \in 1 .. KeyLen(s) : kept[j] = j
  /\ \A j \in 1 .. Len(kept) : /\ p.columns[j] = Columns(s)[kept[j]]
                               /\ p.schema.types[j] = s.types[kept[j]]
Selected(s, p) ==
  /\ IsSchema(p.schema) /\ p.schema # NoSchema /\ KeyLen(p.schema) = KeyLen(s)
  /\ Columns(p.schema) = p.columns /\ p.columns \in Seq(Name) /\ Len(p.schema.types) = Len(p.columns)
  /\ \E kept : Keeps(s, p, kept)
LEMMA ProjectMeans ==
  ASSUME NEW s, IsSchema(s), NEW columns \in Seq(Name)
  PROVE  Project(s, columns).schema = NoSchema \/ Selected(s, Project(s, columns))
<1> DEFINE n == Len(s.types)
           k == KeyLen(s)
           I == {i \in DOMAIN s.types : Columns(s)[i] \in ToSet(columns)}
           kept == Ascending(I)
           selected == [j \in DOMAIN kept |-> ColumnSchema(s)[kept[j]]]
           m == Len(kept)
           p == Project(s, columns)
           q == NewSchema(SubSeq(selected, 1, k), SubSeq(selected, k + 1, Len(selected)), <<>>)
           V == [name : Name, class : CellClass]
<1>1. /\ s.key \in Seq(Name) /\ s.types \in Seq(CellClass) /\ k \in Nat /\ k >= 1 /\ k <= n
      /\ Columns(s) \in Seq(Name) /\ Len(Columns(s)) = n /\ \A i \in 1 .. k : Columns(s)[i] = s.key[i]
  BY SchemaParts
<1>2. p = IF ToSet(columns) \subseteq ToSet(Columns(s)) /\ ToSet(s.key) \subseteq ToSet(columns)
          THEN [schema |-> q, columns |-> NamesOf(selected)]
          ELSE [schema |-> NoSchema, columns |-> <<>>]
  BY DEF Project
<1>3. CASE ~(ToSet(columns) \subseteq ToSet(Columns(s)) /\ ToSet(s.key) \subseteq ToSet(columns))
  <2> HIDE DEF q, selected
  <2>1. p.schema = NoSchema
    BY <1>2, <1>3
  <2> QED
    BY <2>1
<1>4. CASE ToSet(columns) \subseteq ToSet(Columns(s)) /\ ToSet(s.key) \subseteq ToSet(columns)
  <2>1. n \in Nat /\ I \in SUBSET (1 .. n)
    BY <1>1
  <2>2. 1 .. k \in SUBSET I
    <3>1. DOMAIN s.types = 1 .. n /\ \A i \in 1 .. k : i \in 1 .. n /\ s.key[i] \in ToSet(s.key)
      BY <1>1 DEF ToSet, KeyLen
    <3> QED
      BY <1>1, <1>4, <3>1
  <2> HIDE DEF I, n, k
  <2>3. /\ kept \in Seq(1 .. n) /\ DOMAIN kept = 1 .. m
        /\ k <= m /\ (\A j \in 1 .. k : kept[j] = j)
    BY <1>1, <2>1, <2>2, AscendingBegins
  <2>4. /\ ColumnSchema(s) \in Seq(V) /\ Len(ColumnSchema(s)) = n
        /\ \A i \in 1 .. n : /\ ColumnSchema(s)[i].name = Columns(s)[i]
                             /\ ColumnSchema(s)[i].class = s.types[i]
    BY ColumnsFine DEF IsColumns, n
  <2> HIDE DEF kept
  <2>5. m \in Nat /\ \A j \in 1 .. m : kept[j] \in 1 .. n
    <3> DEFINE W == 1 .. n
    <3>1. kept \in Seq(W)
      BY <2>3
    <3> HIDE DEF W
    <3>2. m \in Nat /\ \A j \in 1 .. m : kept[j] \in W
      BY <3>1
    <3> QED
      BY <3>2 DEF W
  <2>6. selected \in [1 .. m -> V]
    <3> HIDE DEF V
    <3>1. \A i \in 1 .. n : ColumnSchema(s)[i] \in V
      BY <2>4
    <3> QED
      BY <2>3, <2>5, <3>1
  <2> HIDE DEF m
  <2>7. selected \in Seq(V) /\ Len(selected) = m /\ DOMAIN selected = 1 .. m
    <3> HIDE DEF V, selected
    <3> QED
      BY <2>5, <2>6, FunctionIsSeq
  <2>8. \A j \in 1 .. m : /\ selected[j].name = Columns(s)[kept[j]]
                          /\ selected[j].class = s.types[kept[j]]
    BY <2>3, <2>4, <2>5
  <2> HIDE DEF selected
  <2>9. IsColumns(selected) /\ k \in 1 .. Len(selected)
    BY <1>1, <2>3, <2>5, <2>7 DEF IsColumns
  <2>10. /\ IsSchema(q) /\ q # NoSchema /\ KeyLen(q) = k
         /\ Columns(q) = NamesOf(selected) /\ q.types = TypesOf(selected)
    BY <2>9, NewSchemaMeans
  <2> HIDE DEF q
  <2>11. p.schema = q /\ p.columns = NamesOf(selected)
    BY <1>2, <1>4
  <2> HIDE DEF p
  <2>12. /\ p.columns = [j \in 1 .. m |-> selected[j].name]
         /\ p.schema.types = [j \in 1 .. m |-> selected[j].class]
    BY <2>7, <2>10, <2>11 DEF NamesOf, TypesOf
  <2>13. /\ p.columns \in Seq(Name) /\ p.schema.types \in Seq(CellClass)
         /\ Len(p.columns) = m /\ Len(p.schema.types) = m
    <3>1. \A j \in 1 .. m : selected[j].name \in Name /\ selected[j].class \in CellClass
      BY <2>6
    <3>2. p.columns \in [1 .. m -> Name] /\ p.schema.types \in [1 .. m -> CellClass]
      BY <2>12, <3>1
    <3> QED
      BY <2>5, <3>2, FunctionIsSeq
  <2>14. Keeps(s, p, kept)
    <3>1. \A j \in 1 .. m : /\ p.columns[j] = Columns(s)[kept[j]]
                            /\ p.schema.types[j] = s.types[kept[j]]
      BY <2>8, <2>12
    <3>2. Len(kept) = m
      BY DEF m
    <3> QED
      BY <2>3, <2>13, <3>1, <3>2 DEF Keeps, n, k
  <2>15. Selected(s, p)
    BY <2>10, <2>11, <2>13, <2>14 DEF Selected, k
  <2> QED
    BY <2>15 DEF p
<1> QED
  BY <1>3, <1>4

-----------------------------------------------------------------------------
(* What a view shows. *)

\* A view of a table of a schema.
ViewOf(s, v) ==
  /\ DOMAIN v = {"kind", "range", "order", "reverse", "limit", "columns", "schema"}
  /\ v.kind \in {"table", "slice", "limited", "selection"}
  /\ Known(s, v.order) /\ v.reverse \in BOOLEAN /\ v.limit \in Nat \cup {NoLimit}
  /\ v.kind = "table" => v.range = NoRange /\ v.order = <<>> /\ v.reverse = FALSE
  /\ v.kind \in {"table", "slice"} => v.limit = NoLimit
  /\ v.kind = "limited" => v.limit \in Nat
  /\ v.kind # "selection" => v.schema = s
  /\ v.kind = "selection" => Selected(s, v)

LEMMA TakeMeans ==
  ASSUME NEW U, NEW s \in Seq(U), NEW n \in Nat \cup {NoLimit}
  PROVE  /\ Take(s, n) \in Seq(U) /\ Len(Take(s, n)) <= Len(s)
         /\ \A i \in 1 .. Len(Take(s, n)) : Take(s, n)[i] = s[i]
         /\ n = NoLimit => Take(s, n) = s
         /\ n \in Nat => Len(Take(s, n)) = IF n < Len(s) THEN n ELSE Len(s)
<1>1. CASE n = NoLimit
  BY <1>1 DEF Take, NoLimit
<1>2. CASE n \in Nat
  <2> DEFINE m == IF n < Len(s) THEN n ELSE Len(s)
  <2>1. Take(s, n) = SubSeq(s, 1, m) /\ n # NoLimit
    BY <1>2 DEF Take, NoLimit
  <2>2. m \in Nat /\ m <= Len(s)
    BY <1>2
  <2> HIDE DEF m
  <2>3. /\ SubSeq(s, 1, m) \in Seq(U) /\ Len(SubSeq(s, 1, m)) = m + 1 - 1
        /\ \A i \in 1 .. m + 1 - 1 : SubSeq(s, 1, m)[i] = s[1 + i - 1]
    BY <2>2, SubSeqMeans
  <2>4. m + 1 - 1 = m /\ \A i \in 1 .. m : 1 + i - 1 = i
    BY <2>2
  <2> QED
    BY <2>1, <2>2, <2>3, <2>4 DEF m
<1> QED
  BY <1>1, <1>2

PickedRow(t, row, columns) ==
  LET places == Places(t.schema, columns) IN [c \in DOMAIN places |-> row[places[c]]]
Picks(t, s, columns) ==
  LET p == Pick(t, s, columns)
  IN  /\ p \in Seq({p[i] : i \in 1 .. Len(s)}) /\ Len(p) = Len(s)
      /\ \A i \in 1 .. Len(s) : p[i] = PickedRow(t, s[i], columns)
LEMMA PickMeans ==
  ASSUME NEW t, NEW U, NEW s \in Seq(U), NEW columns
  PROVE  Picks(t, s, columns)
<1> DEFINE p == Pick(t, s, columns)
           W == {p[i] : i \in 1 .. Len(s)}
           e(i) == PickedRow(t, s[i], columns)
<1>1. Len(s) \in Nat /\ DOMAIN s = 1 .. Len(s)
  OBVIOUS
<1>2. p = [i \in 1 .. Len(s) |-> e(i)]
  BY <1>1 DEF Pick, PickedRow
<1> HIDE DEF p, e
<1>3. p \in [1 .. Len(s) -> W] /\ \A i \in 1 .. Len(s) : p[i] = e(i)
  BY <1>2
<1> HIDE DEF W
<1>4. p \in Seq(W) /\ Len(p) = Len(s)
  BY <1>1, <1>3, FunctionIsSeq
<1> QED
  BY <1>3, <1>4 DEF p, e, W, Picks

\* count, is_empty and the two ways to stream a view tell of the same rows.
Counts(t, v) ==
  /\ Count(t, v) = Len(Rows(t, v))
  /\ IsEmpty(t, v) <=> Rows(t, v) = <<>>
  /\ ForEach(t, v) = Rows(t, v)
LEMMA CountMeans ==
  ASSUME NEW t, IsTable(t), NEW v, ViewOf(t.schema, v), HasNatural(t, v.order),
         ~(v.kind = "selection" /\ v.limit # NoLimit)
  PROVE  Counts(t, v)
<1> DEFINE s == Slice(t, v)
           n == CountIn(t, v)
           M == Met(t, v.range)
<1>1. s \in Seq(M) /\ Len(s) = Cardinality(M)
  BY SourceRowsCount DEF ViewOf, Slice
<1>2. n = Cardinality(M)
  <2>1. Known(t.schema, <<>>) /\ HasNatural(t, <<>>) /\ FALSE \in BOOLEAN
    BY NaturalPlaces, TableParts DEF HasNatural
  <2>2. Len(SourceRows(t, v.range, <<>>, FALSE)) = Cardinality(M)
    BY <2>1, SourceRowsCount
  <2> QED
    BY <2>2 DEF CountIn
<1> HIDE DEF M
<1>3. n = Len(s) /\ Len(s) \in Nat
  BY <1>1, <1>2
<1> DEFINE c == Take(s, v.limit)
<1>4. /\ c \in Seq(M) /\ (v.limit = NoLimit => c = s)
      /\ v.limit \in Nat => Len(c) = IF v.limit < Len(s) THEN v.limit ELSE Len(s)
  <2>1. v.limit \in Nat \cup {NoLimit}
    BY DEF ViewOf
  <2> HIDE DEF s
  <2> QED
    BY <1>1, <2>1, TakeMeans
<1>5. Rows(t, v) = IF v.kind = "selection" THEN Pick(t, c, v.columns) ELSE c
  BY DEF Rows
<1>6. Len(c) \in Nat /\ (c = <<>> <=> Len(c) = 0)
  BY <1>4
<1>7. CASE v.kind = "selection"
  <2>1. c = s
    BY <1>4, <1>7
  <2> DEFINE p == Pick(t, c, v.columns)
  <2> HIDE DEF c, s, p
  <2>2. Len(p) = Len(c) /\ p \in Seq({p[i] : i \in 1 .. Len(c)})
    <3>1. Picks(t, c, v.columns)
      BY <1>4, PickMeans
    <3> QED
      BY <3>1 DEF Picks, p
  <2>3. p = <<>> <=> Len(p) = 0
    BY <2>2
  <2>4. Rows(t, v) = p
    BY <1>5, <1>7 DEF p
  <2>5. ForEach(t, v) = p
    BY <1>7, <2>1 DEF ForEach, p, s
  <2>6. Count(t, v) = n /\ (IsEmpty(t, v) <=> n = 0)
    BY <1>7 DEF Count, IsEmpty
  <2> QED
    BY <1>3, <2>1, <2>2, <2>3, <2>4, <2>5, <2>6 DEF Counts
<1>8. CASE v.kind # "selection"
  <2> HIDE DEF c, s
  <2>1. Rows(t, v) = c /\ ForEach(t, v) = c
    BY <1>5, <1>8 DEF ForEach
  <2>2. CASE v.kind = "limited"
    <3>1. v.limit \in Nat
      BY <2>2 DEF ViewOf
    <3>2. Count(t, v) = Len(c)
      BY <1>3, <1>4, <2>1, <2>2, <3>1 DEF Count
    <3>3. IsEmpty(t, v) <=> (v.limit = 0 \/ n = 0)
      BY <2>2 DEF IsEmpty
    <3>4. Len(c) = 0 <=> (v.limit = 0 \/ n = 0)
      BY <1>3, <1>4, <3>1
    <3> QED
      BY <1>6, <2>1, <3>2, <3>3, <3>4 DEF Counts
  <2>3. CASE v.kind # "limited"
    <3>1. v.limit = NoLimit
      BY <1>8, <2>3 DEF ViewOf
    <3>2. Count(t, v) = n /\ (IsEmpty(t, v) <=> n = 0)
      BY <2>3 DEF Count, IsEmpty
    <3> QED
      BY <1>3, <1>4, <1>6, <2>1, <3>1, <3>2 DEF Counts
  <2> QED
    BY <2>2, <2>3
<1> QED
  BY <1>7, <1>8

\* The set of rows that copy_into loads: those of the stream, one of each key.
Loaded(s, rows) == Through(LAMBDA t, r : Load(t, s, r), {}, rows)
OneEach(s, rows) == \A i, j \in 1 .. Len(rows) : Key(s, rows[i]) = Key(s, rows[j]) => i = j
LEMMA LoadMeans ==
  ASSUME NEW s, NEW W, NEW rows \in Seq(W)
  PROVE  /\ Loaded(s, rows) \in SUBSET ToSet(rows) /\ IsFiniteSet(Loaded(s, rows))
         /\ Keyed(s, Loaded(s, rows))
         /\ OneEach(s, rows) => Loaded(s, rows) = ToSet(rows)
<1> DEFINE n == Len(rows)
           V == SUBSET W
           next(x, i) == Load(x, s, rows[i])
           F == [i \in 1 .. n |-> [x \in V |-> next(x, i)]]
           Is(f) == f = [i \in 0 .. n |-> IF i = 0 THEN {} ELSE next(f[i - 1], i)]
           p == CHOOSE f : Is(f)
           at(i) == {rows[j] : j \in 1 .. i}
           S == {i \in 0 .. n : /\ p[i] \in SUBSET at(i) /\ IsFiniteSet(p[i]) /\ Keyed(s, p[i])
                                /\ OneEach(s, rows) => p[i] = at(i)}
<1>1. n \in Nat /\ DOMAIN rows = 1 .. n /\ \A i \in 1 .. n : rows[i] \in W
  OBVIOUS
<1>2. \A i \in 1 .. n, x \in V : next(x, i) \in V
  BY <1>1 DEF Load, Without
<1> HIDE DEF next
<1>3. F \in Steps(1 .. n, V) /\ {} \in V
  BY <1>2 DEF Steps
<1>4. \A i \in 1 .. n, x \in V : F[i][x] = next(x, i)
  OBVIOUS
<1> HIDE DEF F, V
<1>5. RecursTo(n, V, {}, F)
  <2> HIDE DEF n
  <2> QED
    BY <1>1, <1>3, FiniteRecursion
<1>6. PICK f \in [0 .. n -> V] : f[0] = {} /\ \A i \in 1 .. n : f[i] = F[i][f[i - 1]]
  BY <1>5 DEF RecursTo
<1>7. Is(f)
  <2>1. \A i \in 1 .. n : f[i] = next(f[i - 1], i)
    <3>1. \A i \in 1 .. n : f[i - 1] \in V
      BY <1>1
    <3> QED
      BY <1>4, <1>6, <3>1
  <2> QED
    BY <1>1, <1>6, <2>1
<1>8. Is(p)
  <2> HIDE DEF Is
  <2> QED
    BY <1>7
<1>9. Loaded(s, rows) = p[n]
  BY DEF Loaded, Through, next
<1> HIDE DEF p
<1>10. 0 \in S
  <2>1. p[0] = {}
    BY <1>1, <1>8
  <2>2. at(0) = {} /\ 0 \in 0 .. n
    BY <1>1
  <2> QED
    BY <2>1, <2>2, FS_EmptySet DEF Keyed
<1>11. ASSUME NEW i \in 0 .. (n - 1), i \in S PROVE i + 1 \in S
  <2>1. i + 1 \in 1 .. n /\ (i + 1) - 1 = i /\ i + 1 \in 0 .. n /\ i + 1 # 0
    BY <1>1
  <2>2. p[i + 1] = next(p[i], i + 1)
    BY <1>8, <2>1
  <2> DEFINE new == rows[i + 1]
             left == {r \in p[i] : Key(s, r) # Key(s, new)}
  <2>3. p[i + 1] = left \cup {new}
    BY <2>2 DEF next, Load, Without
  <2>4. p[i] \in SUBSET at(i) /\ IsFiniteSet(p[i]) /\ Keyed(s, p[i])
        /\ (OneEach(s, rows) => p[i] = at(i))
    BY <1>11
  <2>5. at(i + 1) = at(i) \cup {new}
    <3>1. 1 .. (i + 1) = (1 .. i) \cup {i + 1}
      BY <2>1
    <3> QED
      BY <3>1
  <2>6. IsFiniteSet(left \cup {new})
    <3>1. IsFiniteSet(left)
      BY <2>4, FS_Subset
    <3> HIDE DEF left
    <3> QED
      BY <3>1, FS_AddElement
  <2>7. Keyed(s, left \cup {new})
    BY <2>4 DEF Keyed
  <2>8. OneEach(s, rows) => left = p[i]
    <3> SUFFICES ASSUME OneEach(s, rows), NEW r \in p[i] PROVE Key(s, r) # Key(s, new)
      OBVIOUS
    <3>1. PICK j \in 1 .. i : r = rows[j]
      BY <2>4
    <3>2. j \in 1 .. n /\ j # i + 1
      BY <2>1
    <3> QED
      BY <2>1, <3>1, <3>2 DEF OneEach
  <2>9. left \in SUBSET at(i)
    BY <2>4
  <2> HIDE DEF left, new, at
  <2> QED
    BY <2>1, <2>3, <2>4, <2>5, <2>6, <2>7, <2>8, <2>9
<1>12. n \in S
  <2> HIDE DEF S
  <2>1. \A i \in 0 .. n : i \in S
    BY <1>1, <1>10, <1>11, UpTo
  <2> QED
    BY <1>1, <2>1
<1>13. at(n) = ToSet(rows)
  BY <1>1 DEF ToSet
<1> QED
  BY <1>9, <1>12, <1>13

-----------------------------------------------------------------------------
(* Writes to a persistent table. *)

\* A table that differs from another in its delta, and only for rows of some keys.
ChangedAt(t, K, u) ==
  /\ IsTable(u)
  /\ u.schema = t.schema /\ u.local = t.local /\ u.rows = t.rows
  /\ \A r : Key(t.schema, r) \notin K => /\ r \in u.inserts <=> r \in t.inserts
                                         /\ r \in u.deletes <=> r \in t.deletes
Changed(t, K) ==
  {u \in [schema : {t.schema}, local : {t.local}, rows : {t.rows},
          inserts : SUBSET RowsOf(t.schema.types), deletes : SUBSET RowsOf(t.schema.types)] :
     ChangedAt(t, K, u)}

LEMMA ChangedMade ==
  ASSUME NEW t, IsTable(t), ~t.local, NEW K,
         NEW ins \in SUBSET RowsOf(t.schema.types), NEW del \in SUBSET RowsOf(t.schema.types),
         IsFiniteSet(ins), IsFiniteSet(del), Keyed(t.schema, ins), Keyed(t.schema, del),
         \A r \in ins, x \in del : Key(t.schema, r) # Key(t.schema, x),
         \A r : Key(t.schema, r) \notin K => /\ r \in ins <=> r \in t.inserts
                                             /\ r \in del <=> r \in t.deletes
  PROVE  [schema |-> t.schema, local |-> t.local, rows |-> t.rows, inserts |-> ins, deletes |-> del]
           \in Changed(t, K)
<1> DEFINE u == [schema |-> t.schema, local |-> t.local, rows |-> t.rows,
                 inserts |-> ins, deletes |-> del]
<1>1. /\ u.schema = t.schema /\ u.local = t.local /\ u.rows = t.rows
      /\ u.inserts = ins /\ u.deletes = del
      /\ u = [schema |-> u.schema, local |-> u.local, rows |-> u.rows,
              inserts |-> u.inserts, deletes |-> u.deletes]
      /\ u \in [schema : {t.schema}, local : {t.local}, rows : {t.rows},
                inserts : SUBSET RowsOf(t.schema.types), deletes : SUBSET RowsOf(t.schema.types)]
  OBVIOUS
<1> HIDE DEF u
<1>2. /\ IsSchema(t.schema) /\ t.local \in BOOLEAN
      /\ t.rows \in SUBSET RowsOf(t.schema.types) /\ IsFiniteSet(t.rows) /\ Keyed(t.schema, t.rows)
  BY TableParts
<1>3. IsTable(u)
  <2>1. \A rows \in {u.rows, u.inserts, u.deletes} :
          rows \in SUBSET RowsOf(u.schema.types) /\ IsFiniteSet(rows) /\ Keyed(u.schema, rows)
    BY <1>1, <1>2
  <2>2. \A r \in u.inserts, x \in u.deletes : Key(u.schema, r) # Key(u.schema, x)
    BY <1>1
  <2>3. /\ IsSchema(u.schema) /\ u.local \in BOOLEAN
        /\ u.local => u.inserts = {} /\ u.deletes = {}
    BY <1>1, <1>2
  <2> QED
    BY <1>1, <2>1, <2>2, <2>3, TableMade
<1>4. ChangedAt(t, K, u)
  BY <1>1, <1>3 DEF ChangedAt
<1>5. u \in Changed(t, K)
  BY <1>1, <1>4 DEF Changed
<1> QED
  BY <1>5 DEF u

LEMMA ChangedParts ==
  ASSUME NEW t, NEW K, NEW u \in Changed(t, K)
  PROVE  /\ ChangedAt(t, K, u)
         /\ u = [schema |-> t.schema, local |-> t.local, rows |-> t.rows,
                 inserts |-> u.inserts, deletes |-> u.deletes]
         /\ u.inserts \in SUBSET RowsOf(t.schema.types) /\ u.deletes \in SUBSET RowsOf(t.schema.types)
         /\ IsFiniteSet(u.inserts) /\ IsFiniteSet(u.deletes)
         /\ Keyed(t.schema, u.inserts) /\ Keyed(t.schema, u.deletes)
         /\ \A r \in u.inserts, x \in u.deletes : Key(t.schema, r) # Key(t.schema, x)
<1>1. ChangedAt(t, K, u)
  BY DEF Changed
<1>2. u = [schema |-> t.schema, local |-> t.local, rows |-> t.rows,
           inserts |-> u.inserts, deletes |-> u.deletes]
  BY DEF Changed
<1>3. IsTable(u) /\ u.schema = t.schema
  BY <1>1 DEF ChangedAt
<1>4. /\ \A rows \in {u.rows, u.inserts, u.deletes} :
           rows \in SUBSET RowsOf(u.schema.types) /\ IsFiniteSet(rows) /\ Keyed(u.schema, rows)
      /\ \A r \in u.inserts, x \in u.deletes : Key(u.schema, r) # Key(u.schema, x)
  BY <1>3, TableParts
<1> QED
  BY <1>1, <1>2, <1>3, <1>4

LEMMA WithoutMeans ==
  ASSUME NEW s, NEW rows, IsFiniteSet(rows), Keyed(s, rows), NEW row
  PROVE  /\ Without(rows, s, Key(s, row)) \in SUBSET rows
         /\ IsFiniteSet(Without(rows, s, Key(s, row))) /\ Keyed(s, Without(rows, s, Key(s, row)))
         /\ IsFiniteSet(Without(rows, s, Key(s, row)) \cup {row})
         /\ Keyed(s, Without(rows, s, Key(s, row)) \cup {row})
         /\ \A r \in Without(rows, s, Key(s, row)) : Key(s, r) # Key(s, row)
         /\ \A r : Key(s, r) # Key(s, row) => (r \in Without(rows, s, Key(s, row)) <=> r \in rows)
<1> DEFINE W == Without(rows, s, Key(s, row))
<1>1. /\ W \in SUBSET rows /\ \A r \in W : Key(s, r) # Key(s, row)
      /\ \A r : Key(s, r) # Key(s, row) => (r \in W <=> r \in rows)
  BY DEF Without
<1> HIDE DEF W
<1>2. IsFiniteSet(W) /\ IsFiniteSet(W \cup {row})
  <2>1. IsFiniteSet(W)
    BY <1>1, FS_Subset
  <2> QED
    BY <2>1, FS_AddElement
<1>3. Keyed(s, W) /\ Keyed(s, W \cup {row})
  BY <1>1 DEF Keyed
<1> QED
  BY <1>1, <1>2, <1>3 DEF W

LEMMA DeleteOne ==
  ASSUME IsTable(source), ~source.local, NEW K, NEW u \in Changed(source, K),
         NEW row \in RowsOf(source.schema.types), KeyOf(row) \in K
  PROVE  DeltaDelete(u, row) \in Changed(source, K)
<1> DEFINE s == source.schema
           W(rows) == Without(rows, s, Key(s, row))
           ins == W(u.inserts)
           del == W(u.deletes) \cup {row}
<1>1. /\ ChangedAt(source, K, u)
      /\ u = [schema |-> s, local |-> source.local, rows |-> source.rows,
              inserts |-> u.inserts, deletes |-> u.deletes]
      /\ u.inserts \in SUBSET RowsOf(s.types) /\ u.deletes \in SUBSET RowsOf(s.types)
      /\ IsFiniteSet(u.inserts) /\ IsFiniteSet(u.deletes)
      /\ Keyed(s, u.inserts) /\ Keyed(s, u.deletes)
      /\ \A r \in u.inserts, x \in u.deletes : Key(s, r) # Key(s, x)
  BY ChangedParts
<1>2. DeltaDelete(u, row) = [schema |-> s, local |-> source.local, rows |-> source.rows,
                             inserts |-> ins, deletes |-> del]
  <2>1. DeltaDelete(u, row) = [u EXCEPT !.inserts = ins, !.deletes = del]
    BY DEF DeltaDelete, Deleted, KeyOf
  <2> DEFINE i0 == u.inserts
             d0 == u.deletes
  <2>2. u = [schema |-> s, local |-> source.local, rows |-> source.rows,
             inserts |-> i0, deletes |-> d0]
    BY <1>1
  <2> HIDE DEF ins, del, i0, d0
  <2>3. [u EXCEPT !.inserts = ins, !.deletes = del] =
          [schema |-> s, local |-> source.local, rows |-> source.rows,
           inserts |-> ins, deletes |-> del]
    <3> DEFINE w == [u EXCEPT !.inserts = ins]
    <3>1. w = [schema |-> s, local |-> source.local, rows |-> source.rows,
               inserts |-> ins, deletes |-> d0]
      BY <2>2
    <3> HIDE DEF w
    <3>2. [w EXCEPT !.deletes = del] =
            [schema |-> s, local |-> source.local, rows |-> source.rows,
             inserts |-> ins, deletes |-> del]
      BY <3>1
    <3> QED
      BY <3>2 DEF w
  <2> QED
    BY <2>1, <2>3
<1>3. /\ ins \in SUBSET u.inserts /\ IsFiniteSet(ins) /\ Keyed(s, ins)
      /\ \A r \in ins : Key(s, r) # Key(s, row)
      /\ \A r : Key(s, r) # Key(s, row) => (r \in ins <=> r \in u.inserts)
  BY <1>1, WithoutMeans
<1>4. /\ del \in SUBSET (u.deletes \cup {row}) /\ IsFiniteSet(del) /\ Keyed(s, del)
      /\ \A r : Key(s, r) # Key(s, row) => (r \in del <=> r \in u.deletes)
  <2>1. /\ W(u.deletes) \in SUBSET u.deletes /\ IsFiniteSet(del) /\ Keyed(s, del)
        /\ \A r : Key(s, r) # Key(s, row) => (r \in W(u.deletes) <=> r \in u.deletes)
    BY <1>1, WithoutMeans
  <2> HIDE DEF W
  <2> QED
    BY <2>1
<1>5. Key(s, row) \in K
  BY DEF KeyOf
<1> HIDE DEF ins, del
<1>6. /\ ins \in SUBSET RowsOf(s.types) /\ del \in SUBSET RowsOf(s.types)
      /\ \A r \in ins, x \in del : Key(s, r) # Key(s, x)
  BY <1>1, <1>3, <1>4
<1>7. \A r : Key(s, r) \notin K => /\ r \in ins <=> r \in source.inserts
                                   /\ r \in del <=> r \in source.deletes
  BY <1>1, <1>3, <1>4, <1>5 DEF ChangedAt
<1> QED
  BY <1>2, <1>3, <1>4, <1>6, <1>7, ChangedMade

LEMMA UpsertOne ==
  ASSUME IsTable(source), ~source.local, NEW K,
         NEW acc \in [ok : BOOLEAN, table : Changed(source, K)],
         NEW row \in Seq(AllCells), KeyOf(row) \in K
  PROVE  DeltaUpsert(acc, row) \in [ok : BOOLEAN, table : Changed(source, K)]
<1> DEFINE s == source.schema
           u == acc.table
           W(rows) == Without(rows, s, Key(s, row))
           ins == W(u.inserts)
           del == W(u.deletes)
           rec(i, d) == [schema |-> s, local |-> source.local, rows |-> source.rows,
                         inserts |-> i, deletes |-> d]
<1>1. u \in Changed(source, K) /\ acc.ok \in BOOLEAN
  OBVIOUS
<1> HIDE DEF u
<1>2. /\ ChangedAt(source, K, u)
      /\ u = rec(u.inserts, u.deletes)
      /\ u.inserts \in SUBSET RowsOf(s.types) /\ u.deletes \in SUBSET RowsOf(s.types)
      /\ IsFiniteSet(u.inserts) /\ IsFiniteSet(u.deletes)
      /\ Keyed(s, u.inserts) /\ Keyed(s, u.deletes)
      /\ \A r \in u.inserts, x \in u.deletes : Key(s, r) # Key(s, x)
  BY <1>1, ChangedParts
<1>3. /\ ins \in SUBSET u.inserts /\ IsFiniteSet(ins) /\ Keyed(s, ins)
      /\ IsFiniteSet(ins \cup {row}) /\ Keyed(s, ins \cup {row})
      /\ \A r : Key(s, r) # Key(s, row) => (r \in ins <=> r \in u.inserts)
  BY <1>2, WithoutMeans
<1>4. /\ del \in SUBSET u.deletes /\ IsFiniteSet(del) /\ Keyed(s, del)
      /\ \A r \in del : Key(s, r) # Key(s, row)
      /\ \A r : Key(s, r) # Key(s, row) => (r \in del <=> r \in u.deletes)
  <2> DEFINE d == u.deletes
  <2>1. IsFiniteSet(d) /\ Keyed(s, d) /\ del = Without(d, s, Key(s, row))
    BY <1>2
  <2> HIDE DEF ins, del, d
  <2>2. /\ del \in SUBSET d /\ IsFiniteSet(del) /\ Keyed(s, del)
        /\ \A r \in del : Key(s, r) # Key(s, row)
        /\ \A r : Key(s, r) # Key(s, row) => (r \in del <=> r \in d)
    BY <2>1, WithoutMeans
  <2> QED
    BY <2>2 DEF d
<1>5. Key(s, row) \in K
  BY DEF KeyOf
<1>6. DeltaUpsert(acc, row) =
        IF ~acc.ok THEN acc
        ELSE [ok |-> RowFits(row),
              table |-> IF RowFits(row) THEN rec(ins \cup {row}, del) ELSE rec(ins, del)]
  <2> DEFINE left == [u EXCEPT !.deletes = del, !.inserts = ins]
  <2>1. DeltaUpsert(acc, row) =
          IF ~acc.ok THEN acc
          ELSE [ok |-> RowFits(row),
                table |-> IF RowFits(row) THEN [left EXCEPT !.inserts = @ \cup {row}] ELSE left]
    BY DEF DeltaUpsert, Deleted, KeyOf, u
  <2> DEFINE i0 == u.inserts
             d0 == u.deletes
  <2>2. u = rec(i0, d0)
    BY <1>2
  <2> HIDE DEF ins, del, i0, d0
  <2>3. left = rec(ins, del)
    <3> DEFINE w == [u EXCEPT !.deletes = del]
    <3>1. w = rec(i0, del)
      BY <2>2
    <3> HIDE DEF w
    <3>2. [w EXCEPT !.inserts = ins] = rec(ins, del)
      BY <3>1
    <3> QED
      BY <3>2 DEF w
  <2>4. left.inserts = ins
    BY <2>3
  <2>5. [left EXCEPT !.inserts = @ \cup {row}] = rec(ins \cup {row}, del)
    <3> DEFINE new == ins \cup {row}
    <3> HIDE DEF new, left
    <3>1. [left EXCEPT !.inserts = new] = rec(new, del)
      BY <2>3
    <3> QED
      BY <2>4, <3>1 DEF new
  <2> HIDE DEF left
  <2> QED
    BY <2>1, <2>3, <2>5
<1> HIDE DEF ins, del
<1>7. rec(ins, del) \in Changed(source, K)
  <2>1. /\ ins \in SUBSET RowsOf(s.types) /\ del \in SUBSET RowsOf(s.types)
        /\ \A r \in ins, x \in del : Key(s, r) # Key(s, x)
    BY <1>2, <1>3, <1>4
  <2>2. \A r : Key(s, r) \notin K => /\ r \in ins <=> r \in source.inserts
                                     /\ r \in del <=> r \in source.deletes
    BY <1>2, <1>3, <1>4, <1>5 DEF ChangedAt
  <2> QED
    BY <1>3, <1>4, <2>1, <2>2, ChangedMade
<1>8. ASSUME RowFits(row) PROVE rec(ins \cup {row}, del) \in Changed(source, K)
  <2>1. row \in RowsOf(s.types)
    BY <1>8 DEF RowFits, RowsOf
  <2>2. /\ ins \cup {row} \in SUBSET RowsOf(s.types) /\ del \in SUBSET RowsOf(s.types)
        /\ \A r \in ins \cup {row}, x \in del : Key(s, r) # Key(s, x)
    BY <1>2, <1>3, <1>4, <2>1
  <2>3. \A r : Key(s, r) \notin K => /\ r \in ins \cup {row} <=> r \in source.inserts
                                     /\ r \in del <=> r \in source.deletes
    BY <1>2, <1>3, <1>4, <1>5 DEF ChangedAt
  <2> DEFINE new == ins \cup {row}
  <2>4. IsFiniteSet(new) /\ Keyed(s, new)
    BY <1>3
  <2> HIDE DEF new, rec
  <2>5. rec(new, del) \in Changed(source, K)
    BY <1>4, <2>2, <2>3, <2>4, ChangedMade DEF new, rec
  <2> QED
    BY <2>5 DEF new
<1> HIDE DEF rec
<1>9. CASE ~acc.ok
  BY <1>6, <1>9
<1>10. CASE acc.ok
  <2>1. RowFits(row) \in BOOLEAN
    BY DEF RowFits, Fits
  <2> QED
    BY <1>6, <1>7, <1>8, <1>10, <2>1
<1> QED
  BY <1>1, <1>9, <1>10

LEMMA NothingChanged ==
  ASSUME NEW t, IsTable(t), NEW K
  PROVE  t \in Changed(t, K)
<1>1. t \in [schema : {t.schema}, local : BOOLEAN,
             rows : {t.rows}, inserts : {t.inserts}, deletes : {t.deletes}]
  BY DEF IsTable
<1>2. t.inserts \in SUBSET RowsOf(t.schema.types) /\ t.deletes \in SUBSET RowsOf(t.schema.types)
  BY TableParts
<1>3. t \in [schema : {t.schema}, local : {t.local}, rows : {t.rows},
             inserts : SUBSET RowsOf(t.schema.types), deletes : SUBSET RowsOf(t.schema.types)]
  BY <1>1, <1>2
<1>4. ChangedAt(t, K, t)
  BY DEF ChangedAt
<1> QED
  BY <1>3, <1>4 DEF Changed

Upserted(rows) == Through(DeltaUpsert, [ok |-> TRUE, table |-> source], rows)
LEMMA UpsertsMean ==
  ASSUME IsTable(source), ~source.local, NEW K, NEW rows \in Seq(Seq(AllCells)),
         \A i \in 1 .. Len(rows) : KeyOf(rows[i]) \in K
  PROVE  Upserted(rows) \in [ok : BOOLEAN, table : Changed(source, K)]
<1> DEFINE n == Len(rows)
           V == [ok : BOOLEAN, table : Changed(source, K)]
           b == [ok |-> TRUE, table |-> source]
           next(x, i) == DeltaUpsert(x, rows[i])
           F == [i \in 1 .. n |-> [x \in V |-> next(x, i)]]
           Is(f) == f = [i \in 0 .. n |-> IF i = 0 THEN b ELSE next(f[i - 1], i)]
           p == CHOOSE f : Is(f)
           S == {i \in 0 .. n : p[i] \in V}
<1>1. n \in Nat /\ \A i \in 1 .. n : rows[i] \in Seq(AllCells)
  <2> DEFINE W == Seq(AllCells)
  <2>1. rows \in Seq(W)
    OBVIOUS
  <2> HIDE DEF W
  <2>2. n \in Nat /\ \A i \in 1 .. n : rows[i] \in W
    BY <2>1
  <2> QED
    BY <2>2 DEF W
<1>2. \A i \in 1 .. n, x \in V : next(x, i) \in V
  BY <1>1, UpsertOne
<1> HIDE DEF next
<1>3. F \in Steps(1 .. n, V) /\ b \in V
  <2>1. source \in Changed(source, K)
    BY NothingChanged
  <2> QED
    BY <1>2, <2>1 DEF Steps
<1>4. \A i \in 1 .. n, x \in V : F[i][x] = next(x, i)
  OBVIOUS
<1> HIDE DEF F, V, b
<1>5. RecursTo(n, V, b, F)
  <2> HIDE DEF n
  <2> QED
    BY <1>1, <1>3, FiniteRecursion
<1>6. PICK f \in [0 .. n -> V] : f[0] = b /\ \A i \in 1 .. n : f[i] = F[i][f[i - 1]]
  BY <1>5 DEF RecursTo
<1>7. Is(f)
  <2>1. \A i \in 1 .. n : f[i] = next(f[i - 1], i)
    <3>1. \A i \in 1 .. n : f[i - 1] \in V
      BY <1>1, SMTT(30)
    <3> QED
      BY <1>4, <1>6, <3>1
  <2> QED
    BY <1>1, <1>6, <2>1
<1>8. Is(p)
  <2> HIDE DEF Is
  <2> QED
    BY <1>7
<1>9. Upserted(rows) = p[n]
  BY DEF Upserted, Through, next, b
<1> HIDE DEF p
<1>10. 0 \in S
  BY <1>1, <1>3, <1>8
<1>11. ASSUME NEW i \in 0 .. (n - 1), i \in S PROVE i + 1 \in S
  <2>1. i + 1 \in 1 .. n /\ (i + 1) - 1 = i /\ i + 1 \in 0 .. n /\ i + 1 # 0
    BY <1>1
  <2>2. p[i + 1] = next(p[i], i + 1) /\ p[i] \in V
    BY <1>8, <1>11, <2>1
  <2>3. next(p[i], i + 1) \in V
    BY <1>2, <2>1, <2>2
  <2> QED
    BY <2>1, <2>2, <2>3
<1>12. n \in S
  <2> HIDE DEF S
  <2>1. \A i \in 0 .. n : i \in S
    BY <1>1, <1>10, <1>11, UpTo
  <2> QED
    BY <1>1, <2>1
<1> QED
  BY <1>9, <1>12 DEF V

DeletedAll(rows) == Through(DeltaDelete, source, rows)
LEMMA DeletesMean ==
  ASSUME IsTable(source), ~source.local, NEW K, NEW W \in SUBSET RowsOf(source.schema.types),
         NEW rows \in Seq(W), \A r \in W : KeyOf(r) \in K
  PROVE  DeletedAll(rows) \in Changed(source, K)
<1> DEFINE n == Len(rows)
           V == Changed(source, K)
           next(x, i) == DeltaDelete(x, rows[i])
           F == [i \in 1 .. n |-> [x \in V |-> next(x, i)]]
           Is(f) == f = [i \in 0 .. n |-> IF i = 0 THEN source ELSE next(f[i - 1], i)]
           p == CHOOSE f : Is(f)
           S == {i \in 0 .. n : p[i] \in V}
<1>1. n \in Nat /\ \A i \in 1 .. n : rows[i] \in W
  OBVIOUS
<1>2. \A i \in 1 .. n, x \in V : next(x, i) \in V
  <2>1. \A i \in 1 .. n : rows[i] \in RowsOf(source.schema.types) /\ KeyOf(rows[i]) \in K
    BY <1>1
  <2> QED
    BY <2>1, DeleteOne
<1> HIDE DEF next
<1>3. F \in Steps(1 .. n, V) /\ source \in V
  BY <1>2, NothingChanged DEF Steps
<1>4. \A i \in 1 .. n, x \in V : F[i][x] = next(x, i)
  OBVIOUS
<1> HIDE DEF F, V
<1>5. RecursTo(n, V, source, F)
  <2> HIDE DEF n
  <2> QED
    BY <1>1, <1>3, FiniteRecursion
<1>6. PICK f \in [0 .. n -> V] : f[0] = source /\ \A i \in 1 .. n : f[i] = F[i][f[i - 1]]
  BY <1>5 DEF RecursTo
<1>7. Is(f)
  <2>1. \A i \in 1 .. n : f[i] = next(f[i - 1], i)
    <3>1. \A i \in 1 .. n : f[i - 1] \in V
      BY <1>1
    <3> QED
      BY <1>4, <1>6, <3>1
  <2> QED
    BY <1>1, <1>6, <2>1
<1>8. Is(p)
  <2> HIDE DEF Is
  <2> QED
    BY <1>7
<1>9. DeletedAll(rows) = p[n]
  BY DEF DeletedAll, Through, next
<1> HIDE DEF p
<1>10. 0 \in S
  BY <1>1, <1>3, <1>8
<1>11. ASSUME NEW i \in 0 .. (n - 1), i \in S PROVE i + 1 \in S
  <2>1. i + 1 \in 1 .. n /\ (i + 1) - 1 = i /\ i + 1 \in 0 .. n /\ i + 1 # 0
    BY <1>1
  <2>2. p[i + 1] = next(p[i], i + 1) /\ p[i] \in V
    BY <1>8, <1>11, <2>1
  <2>3. next(p[i], i + 1) \in V
    BY <1>2, <2>1, <2>2
  <2> QED
    BY <2>1, <2>2, <2>3
<1>12. n \in S
  <2> HIDE DEF S
  <2>1. \A i \in 0 .. n : i \in S
    BY <1>1, <1>10, <1>11, UpTo
  <2> QED
    BY <1>1, <2>1
<1> QED
  BY <1>9, <1>12 DEF V

\* The rows that a bulk write changes: rows of the table that the range admits.
Targets(range) == {r \in source.inserts \cup source.rows : Admits(source.schema, Within(range), r)}
LEMMA TargetsMean ==
  ASSUME IsTable(source), NEW range
  PROVE  /\ TargetRows(range) \in Seq(Targets(range))
         /\ Targets(range) \in SUBSET RowsOf(source.schema.types)
         /\ \A r \in Targets(range) : Admits(source.schema, view.range, r)
<1>1. TargetRows(range) \in Seq(Targets(range))
  <2>1. Known(source.schema, <<>>) /\ FALSE \in BOOLEAN
    BY NaturalPlaces, TableParts
  <2> DEFINE w == Within(range)
  <2> HIDE DEF w
  <2>2. SourceRows(source, w, <<>>, FALSE)
          \in Seq({r \in source.inserts \cup source.rows : Admits(source.schema, w, r)})
    BY <2>1, SourceRowsFrom
  <2> QED
    BY <2>2 DEF TargetRows, Targets, w
<1>2. Targets(range) \in SUBSET RowsOf(source.schema.types)
  BY TableParts DEF Targets
<1>3. \A r : Admits(source.schema, Within(range), r) => Admits(source.schema, view.range, r)
  <2> SUFFICES ASSUME NEW r, Admits(source.schema, Within(range), r), NEW c \in DOMAIN view.range
               PROVE  r[Where(Columns(source.schema), c)] \in view.range[c]
    BY DEF Admits
  <2>1. /\ c \in DOMAIN Within(range)
        /\ Within(range)[c] = IF c \notin DOMAIN range THEN view.range[c]
                              ELSE view.range[c] \cap range[c]
    BY DEF Within, Intersection
  <2>2. r[Where(Columns(source.schema), c)] \in Within(range)[c]
    BY <2>1 DEF Admits
  <2> QED
    BY <2>1, <2>2
<1> QED
  BY <1>1, <1>2, <1>3 DEF Targets

LEMMA CellRow ==
  ASSUME NEW row, IsCells(row)
  PROVE  row \in Seq(AllCells)
<1> DEFINE W == Range(row)
<1>1. row \in Seq(W) /\ \A i \in DOMAIN row : \E c \in CellClass : row[i] \in [{c} -> Int]
  BY DEF IsCells
<1>2. \A i \in DOMAIN row : row[i] \in AllCells
  BY <1>1 DEF AllCells
<1> HIDE DEF W
<1>3. Len(row) \in Nat /\ DOMAIN row = 1 .. Len(row) /\ row \in [1 .. Len(row) -> W]
  BY <1>1
<1>4. row \in [1 .. Len(row) -> AllCells]
  BY <1>2, <1>3
<1> QED
  BY <1>3, <1>4, FunctionIsSeq

LEMMA UpdatedMeans ==
  ASSUME IsTable(source), NEW row \in RowsOf(source.schema.types), NEW values \in Updates
  PROVE  Updated(row, values) \in Seq(AllCells) /\ KeyOf(Updated(row, values)) = KeyOf(row)
<1> DEFINE s == source.schema
           n == Len(s.types)
           u == Updated(row, values)
           e(i) == IF i > KeyLen(s) /\ Columns(s)[i] \in DOMAIN values THEN values[Columns(s)[i]]
                   ELSE row[i]
<1>1. IsSchema(s)
  BY TableParts
<1>2. KeyLen(s) \in Nat /\ KeyLen(s) <= n /\ s.types \in Seq(CellClass)
  BY <1>1, SchemaParts
<1>3. DOMAIN row = 1 .. n /\ row \in [1 .. n -> AllCells] /\ n \in Nat
  BY <1>2, RowMeans
<1>4. u = [i \in 1 .. n |-> e(i)]
  BY <1>3 DEF Updated
<1>5. \A c \in DOMAIN values : values[c] \in AllCells
  <2> TAKE c \in DOMAIN values
  <2> DEFINE x == values[c]
  <2>1. IsCells(<<x>>)
    BY TableAssumption
  <2> HIDE DEF x
  <2>2. <<x>> \in Seq(AllCells) /\ Len(<<x>>) = 1 /\ <<x>>[1] = x
    BY <2>1, CellRow
  <2>3. <<x>>[1] \in AllCells
    BY <2>2
  <2> QED
    BY <2>2, <2>3 DEF x
<1>6. \A i \in 1 .. n : e(i) \in AllCells
  BY <1>3, <1>5
<1>7. \A i \in 1 .. KeyLen(s) : i \in 1 .. n /\ e(i) = row[i]
  BY <1>2, <1>3
<1> HIDE DEF u, e, n
<1>8. u \in [1 .. n -> AllCells] /\ \A i \in 1 .. KeyLen(s) : u[i] = row[i]
  BY <1>4, <1>6, <1>7
<1>9. u \in Seq(AllCells) /\ Len(u) = n
  BY <1>3, <1>8, FunctionIsSeq
<1>10. Key(s, u) = Key(s, row)
  <2>1. Key(s, u) = [i \in 1 .. KeyLen(s) |-> u[i]]
    <3>1. /\ SubSeq(u, 1, KeyLen(s)) = [i \in 1 .. (KeyLen(s) + 1 - 1) |-> u[1 + i - 1]]
      BY <1>2, <1>3, <1>9, SubSeqMeans
    <3>2. KeyLen(s) + 1 - 1 = KeyLen(s) /\ \A i \in 1 .. KeyLen(s) : 1 + i - 1 = i
      BY <1>2
    <3> QED
      BY <3>1, <3>2 DEF Key
  <2>2. Key(s, row) = [i \in 1 .. KeyLen(s) |-> row[i]]
    BY <1>1, KeyMeans
  <2> QED
    BY <1>8, <2>1, <2>2
<1> QED
  BY <1>9, <1>10 DEF u, KeyOf

LEMMA SetToSeqMeans ==
  ASSUME NEW S, IsFiniteSet(S)
  PROVE  SetToSeq(S) \in Seq(S)
<1> DEFINE n == Cardinality(S)
<1>1. n \in Nat /\ ExistsBijection(1 .. n, S)
  BY FS_CardinalityType
<1>2. \E f \in [1 .. n -> S] : IsInjective(f)
  <2> HIDE DEF n
  <2>1. PICK f \in Bijection(1 .. n, S) : TRUE
    BY <1>1 DEF ExistsBijection
  <2>2. f \in [1 .. n -> S] /\ \A a, b \in 1 .. n : f[a] = f[b] => a = b
    BY <2>1 DEF Bijection, Injection, IsInjective
  <2> QED
    BY <2>2 DEF IsInjective
<1>3. SetToSeq(S) = CHOOSE f \in [1 .. n -> S] : IsInjective(f)
  BY DEF SetToSeq
<1> HIDE DEF n
<1>4. SetToSeq(S) \in [1 .. n -> S]
  BY <1>2, <1>3
<1> QED
  BY <1>1, <1>4, FunctionIsSeq

\* A row fits where its key and its values do.
Parted(s, key, values) == ValidateKey(s, key) /\ ValidateValues(s, values)
LEMMA PartsFit ==
  ASSUME NEW s, IsSchema(s), NEW key \in Seq(AllCells), NEW values \in Seq(AllCells),
         Parted(s, key, values)
  PROVE  key \o values \in RowsOf(s.types) /\ Key(s, key \o values) = key
<1> DEFINE k == KeyLen(s)
           n == Len(s.types)
           row == key \o values
<1>1. k \in Nat /\ k >= 1 /\ k <= n /\ s.types \in Seq(CellClass) /\ n \in Nat
  BY SchemaParts
<1>2. /\ Len(SubSeq(s.types, 1, k)) = k + 1 - 1
      /\ \A i \in 1 .. (k + 1 - 1) : SubSeq(s.types, 1, k)[i] = s.types[1 + i - 1]
  BY <1>1, SubSeqMeans
<1>3. /\ Len(SubSeq(s.types, k + 1, n)) = n + 1 - (k + 1)
      /\ \A i \in 1 .. (n + 1 - (k + 1)) : SubSeq(s.types, k + 1, n)[i] = s.types[(k + 1) + i - 1]
  BY <1>1, SubSeqMeans
<1>4. /\ row = Joined(key, values) /\ row \in Seq(AllCells)
      /\ Len(row) = Len(key) + Len(values) /\ Len(key) \in Nat /\ Len(values) \in Nat
  BY JoinMeans
<1>5. /\ Len(key) = k /\ \A i \in DOMAIN key : Class(key[i]) = SubSeq(s.types, 1, k)[i]
      /\ Len(values) = n - k
      /\ \A i \in DOMAIN values : Class(values[i]) = SubSeq(s.types, k + 1, n)[i]
  <2>1. Fits(key, SubSeq(s.types, 1, k)) /\ Fits(values, SubSeq(s.types, k + 1, n))
    BY DEF Parted, ValidateKey, ValidateValues
  <2> HIDE DEF k, n
  <2>2. n + 1 - (k + 1) = n - k /\ k + 1 - 1 = k
    BY <1>1
  <2> QED
    BY <1>2, <1>3, <2>1, <2>2 DEF Fits
<1> HIDE DEF k, n, row
<1>6. DOMAIN key = 1 .. k /\ DOMAIN values = 1 .. (n - k) /\ Len(row) = n
  BY <1>1, <1>4, <1>5
<1>7. \A i \in 1 .. n : row[i] = IF i <= k THEN key[i] ELSE values[i - k]
  BY <1>1, <1>4, <1>5 DEF Joined
<1>8. \A i \in 1 .. n : Class(row[i]) = s.types[i]
  <2> TAKE i \in 1 .. n
  <2>1. CASE i <= k
    <3>1. i \in 1 .. k /\ 1 + i - 1 = i /\ i \in 1 .. (k + 1 - 1)
      BY <1>1, <2>1
    <3> QED
      BY <1>2, <1>5, <1>6, <1>7, <2>1, <3>1
  <2>2. CASE ~(i <= k)
    <3>1. i - k \in 1 .. (n - k) /\ (k + 1) + (i - k) - 1 = i /\ i - k \in 1 .. (n + 1 - (k + 1))
      BY <1>1, <2>2
    <3> QED
      BY <1>3, <1>5, <1>6, <1>7, <2>2, <3>1, SMTT(30)
  <2> QED
    BY <2>1, <2>2
<1>9. row \in RowsOf(s.types)
  <2>1. DOMAIN row = 1 .. n
    BY <1>4, <1>6
  <2> QED
    BY <1>4, <1>6, <1>8, <2>1 DEF RowsOf, Fits, n
<1>10. Key(s, row) = key
  <2>1. Key(s, row) = [i \in 1 .. k |-> row[i]]
    BY <1>9, KeyMeans DEF k
  <2>2. \A i \in 1 .. k : i \in 1 .. n /\ row[i] = key[i]
    BY <1>1, <1>7
  <2>3. key = [i \in 1 .. k |-> key[i]]
    BY <1>6
  <2> QED
    BY <2>1, <2>2, <2>3
<1> QED
  BY <1>9, <1>10 DEF row

LEMMA FitIsParts ==
  ASSUME NEW s, IsSchema(s), NEW row \in Seq(AllCells), Len(row) = Len(s.types)
  PROVE  Parted(s, Key(s, row), Values(s, row)) <=> row \in RowsOf(s.types)
<1> DEFINE k == KeyLen(s)
           n == Len(s.types)
           key == Key(s, row)
           values == Values(s, row)
<1>1. k \in Nat /\ k >= 1 /\ k <= n /\ s.types \in Seq(CellClass) /\ n \in Nat /\ Len(row) = n
  BY SchemaParts
<1>2. /\ Len(SubSeq(s.types, 1, k)) = k + 1 - 1
      /\ \A i \in 1 .. (k + 1 - 1) : SubSeq(s.types, 1, k)[i] = s.types[1 + i - 1]
  BY <1>1, SubSeqMeans
<1>3. /\ Len(SubSeq(s.types, k + 1, n)) = n + 1 - (k + 1)
      /\ \A i \in 1 .. (n + 1 - (k + 1)) : SubSeq(s.types, k + 1, n)[i] = s.types[(k + 1) + i - 1]
  BY <1>1, SubSeqMeans, SMTT(30)
<1>4. /\ key \in Seq(AllCells) /\ Len(key) = k + 1 - 1 /\ DOMAIN key = 1 .. (k + 1 - 1)
      /\ \A i \in 1 .. (k + 1 - 1) : key[i] = row[1 + i - 1]
  BY <1>1, SubSeqMeans DEF Key
<1>5. /\ values \in Seq(AllCells) /\ Len(values) = n + 1 - (k + 1)
      /\ DOMAIN values = 1 .. (n + 1 - (k + 1))
      /\ \A i \in 1 .. (n + 1 - (k + 1)) : values[i] = row[(k + 1) + i - 1]
  BY <1>1, SubSeqMeans DEF Values
<1>6. Parted(s, key, values) <=> Fits(key, SubSeq(s.types, 1, k))
                                 /\ Fits(values, SubSeq(s.types, k + 1, n))
  BY DEF Parted, ValidateKey, ValidateValues
<1>7. row \in RowsOf(s.types) <=> \A i \in 1 .. n : Class(row[i]) = s.types[i]
  <2>1. DOMAIN row = 1 .. n
    BY <1>1
  <2> QED
    BY <1>1, <2>1 DEF RowsOf, Fits
<1> HIDE DEF k, n, key, values
<1>8. k + 1 - 1 = k /\ n + 1 - (k + 1) = n - k
  BY <1>1
<1>9. Fits(key, SubSeq(s.types, 1, k)) <=> \A i \in 1 .. k : Class(row[i]) = s.types[i]
  <2>1. \A i \in 1 .. k : 1 + i - 1 = i
    BY <1>1
  <2>2. \A i \in 1 .. k : key[i] = row[i] /\ SubSeq(s.types, 1, k)[i] = s.types[i]
    BY <1>2, <1>4, <1>8, <2>1
  <2> QED
    BY <1>2, <1>4, <1>8, <2>2 DEF Fits
<1>10. Fits(values, SubSeq(s.types, k + 1, n))
         <=> \A i \in 1 .. (n - k) : Class(row[k + i]) = s.types[k + i]
  <2>1. \A i \in 1 .. (n - k) : (k + 1) + i - 1 = k + i
    BY <1>1
  <2>2. \A i \in 1 .. (n - k) : /\ values[i] = row[k + i]
                                 /\ SubSeq(s.types, k + 1, n)[i] = s.types[k + i]
    BY <1>3, <1>5, <1>8, <2>1
  <2> QED
    BY <1>3, <1>5, <1>8, <2>2 DEF Fits
<1>11. (\A i \in 1 .. n : Class(row[i]) = s.types[i])
         <=> /\ \A i \in 1 .. k : Class(row[i]) = s.types[i]
             /\ \A i \in 1 .. (n - k) : Class(row[k + i]) = s.types[k + i]
  <2>1. \A i \in 1 .. k : i \in 1 .. n
    BY <1>1
  <2>2. \A i \in 1 .. (n - k) : k + i \in 1 .. n
    BY <1>1
  <2>3. \A i \in 1 .. n : i \in 1 .. k \/ (i - k \in 1 .. (n - k) /\ k + (i - k) = i)
    BY <1>1
  <2> QED
    BY <2>1, <2>2, <2>3
<1> QED
  BY <1>6, <1>7, <1>9, <1>10, <1>11 DEF key, values

-----------------------------------------------------------------------------
(* Views of views. *)

LEMMA WholeView ==
  ASSUME NEW t, IsSchema(t.schema)
  PROVE  ViewOf(t.schema, TableView(t)) /\ TableView(t).kind = "table"
<1>1. Known(t.schema, <<>>)
  BY NaturalPlaces
<1>2. NoLimit \in Nat \cup {NoLimit} /\ FALSE \in BOOLEAN
  OBVIOUS
<1> QED
  BY <1>1, <1>2 DEF TableView, ViewOf

\* What a route lets the caller hold: a view of the table, or an error.
Held(s, v) == v.kind = "error" \/ ViewOf(s, v)

LEMMA NoViewHeld ==
  ASSUME NEW s
  PROVE  Held(s, NoView)
  BY DEF Held, NoView, TableView

LEMMA SliceHeld ==
  ASSUME NEW s, IsSchema(s), NEW v, ViewOf(s, v), v.kind \in {"table", "slice"},
         NEW range, NEW order, Known(s, order), NEW reverse \in BOOLEAN
  PROVE  ViewOf(s, SliceOf(v, range, order, reverse)) /\ SliceOf(v, range, order, reverse).kind = "slice"
<1> DEFINE w == SliceOf(v, range, order, reverse)
<1>1. /\ DOMAIN v = {"kind", "range", "order", "reverse", "limit", "columns", "schema"}
      /\ v.limit \in Nat \cup {NoLimit} /\ v.limit = NoLimit /\ v.schema = s
  BY DEF ViewOf
<1>2. /\ DOMAIN w = {"kind", "range", "order", "reverse", "limit", "columns", "schema"}
      /\ w.kind = "slice" /\ w.order = order /\ w.reverse = reverse
      /\ w.limit = v.limit /\ w.schema = v.schema
  BY <1>1 DEF SliceOf
<1> HIDE DEF w
<1>3. ViewOf(s, w)
  BY <1>1, <1>2 DEF ViewOf
<1> QED
  BY <1>2, <1>3 DEF w

LEMMA LimitedHeld ==
  ASSUME NEW s, IsSchema(s), NEW v, ViewOf(s, v), v.kind = "slice", NEW n \in Nat
  PROVE  ViewOf(s, LimitedOf(v, n))
<1> DEFINE w == LimitedOf(v, n)
<1>1. /\ DOMAIN v = {"kind", "range", "order", "reverse", "limit", "columns", "schema"}
      /\ Known(s, v.order) /\ v.reverse \in BOOLEAN /\ v.schema = s
  BY DEF ViewOf
<1>2. /\ DOMAIN w = {"kind", "range", "order", "reverse", "limit", "columns", "schema"}
      /\ w.kind = "limited" /\ w.order = v.order /\ w.reverse = v.reverse
      /\ w.limit = n /\ w.schema = v.schema
  BY <1>1 DEF LimitedOf
<1> HIDE DEF w
<1>3. ViewOf(s, w)
  BY <1>1, <1>2 DEF ViewOf
<1> QED
  BY <1>3 DEF w

LEMMA SelectionHeld ==
  ASSUME NEW s, IsSchema(s), NEW v, ViewOf(s, v), v.kind \in {"slice", "limited"},
         NEW columns \in Seq(Name)
  PROVE  Held(s, SelectionOf(v, columns))
<1> DEFINE w == SelectionOf(v, columns)
           p == Project(v.schema, columns)
<1>1. /\ DOMAIN v = {"kind", "range", "order", "reverse", "limit", "columns", "schema"}
      /\ Known(s, v.order) /\ v.reverse \in BOOLEAN /\ v.schema = s /\ v.limit \in Nat \cup {NoLimit}
  BY DEF ViewOf
<1>2. p.schema = NoSchema \/ Selected(s, p)
  BY <1>1, ProjectMeans
<1> HIDE DEF p
<1>3. CASE p.schema = NoSchema
  <2>1. w = NoView
    BY <1>3 DEF SelectionOf, p
  <2> QED
    BY <2>1, NoViewHeld
<1>4. CASE p.schema # NoSchema
  <2>1. w = [v EXCEPT !.kind = "selection", !.schema = p.schema, !.columns = p.columns]
    BY <1>4 DEF SelectionOf, p
  <2> HIDE DEF w
  <2>2. /\ DOMAIN w = {"kind", "range", "order", "reverse", "limit", "columns", "schema"}
        /\ w.kind = "selection" /\ w.order = v.order /\ w.reverse = v.reverse
        /\ w.limit = v.limit /\ w.schema = p.schema /\ w.columns = p.columns
    BY <1>1, <2>1
  <2>3. Selected(s, w)
    BY <1>2, <1>4, <2>2 DEF Selected, Keeps
  <2>4. ViewOf(s, w)
    BY <1>1, <2>2, <2>3 DEF ViewOf
  <2> QED
    BY <2>4 DEF Held, w
<1> QED
  BY <1>3, <1>4

LEMMA NarrowHeld ==
  ASSUME NEW s, NEW v, ViewOf(s, v), v.kind = "slice", NEW range
  PROVE  ViewOf(s, Narrow(v, range))
<1> DEFINE w == Narrow(v, range)
           x == range @@ v.range
<1>1. /\ DOMAIN v = {"kind", "range", "order", "reverse", "limit", "columns", "schema"}
      /\ Known(s, v.order) /\ v.reverse \in BOOLEAN /\ v.schema = s /\ v.limit = NoLimit
      /\ v.limit \in Nat \cup {NoLimit}
  BY DEF ViewOf
<1> HIDE DEF x
<1>2. w = [v EXCEPT !.range = x]
  BY DEF Narrow, x
<1> HIDE DEF w
<1>3. /\ DOMAIN w = {"kind", "range", "order", "reverse", "limit", "columns", "schema"}
      /\ w.kind = "slice" /\ w.order = v.order /\ w.reverse = v.reverse
      /\ w.limit = v.limit /\ w.schema = v.schema
  BY <1>1, <1>2
<1>4. ViewOf(s, w)
  BY <1>1, <1>3 DEF ViewOf
<1> QED
  BY <1>4 DEF w

\* slice, limit and select of a table.
LEMMA TableHeld ==
  ASSUME NEW s, IsSchema(s), NEW v, ViewOf(s, v)
  PROVE  /\ \A range, order : \A reverse \in BOOLEAN :
              ToSet(order) \subseteq ToSet(Columns(v.schema)) /\ order \in Seq(Name)
              => Held(s, SliceTable(v, range, order, reverse))
         /\ \A n \in Nat : Held(s, LimitTable(v, n))
         /\ \A columns \in Seq(Name) : Held(s, SelectTable(v, columns))
<1>1. CASE v.kind # "table"
  BY <1>1, NoViewHeld DEF SliceTable, LimitTable, SelectTable
<1>2. CASE v.kind = "table"
  <2>1. v.schema = s /\ Known(s, <<>>) /\ FALSE \in BOOLEAN
    BY <1>2, NaturalPlaces DEF ViewOf
  <2>2. ASSUME NEW range, NEW order, NEW reverse \in BOOLEAN,
               ToSet(order) \subseteq ToSet(Columns(v.schema)), order \in Seq(Name)
        PROVE  Held(s, SliceTable(v, range, order, reverse))
    <3>1. Known(s, order)
      BY <2>1, <2>2 DEF Known
    <3>2. ViewOf(s, SliceOf(v, range, order, reverse))
      BY <1>2, <3>1, SliceHeld
    <3> QED
      BY <1>2, <3>2 DEF Held, SliceTable
  <2> DEFINE w == SliceOf(v, NoRange, <<>>, FALSE)
  <2>3. ViewOf(s, w) /\ w.kind = "slice"
    BY <1>2, <2>1, SliceHeld
  <2> HIDE DEF w
  <2>4. ASSUME NEW n \in Nat PROVE Held(s, LimitTable(v, n))
    <3>1. ViewOf(s, LimitedOf(w, n))
      BY <2>3, LimitedHeld
    <3> QED
      BY <1>2, <3>1 DEF Held, LimitTable, w
  <2>5. ASSUME NEW columns \in Seq(Name) PROVE Held(s, SelectTable(v, columns))
    <3>1. Held(s, SelectionOf(w, columns))
      BY <2>3, SelectionHeld
    <3> QED
      BY <1>2, <3>1 DEF SelectTable, w
  <2> QED
    BY <2>2, <2>4, <2>5
<1> QED
  BY <1>1, <1>2

-----------------------------------------------------------------------------
(* The invariant of the routes. *)

\* A row of each key but one at most is still there.
Kept(rows, key) ==
  \A r \in was : KeyOf(r) = key \/ \E x \in rows : KeyOf(x) = KeyOf(r)

\* The rewrite of a local table, in flight, dropped or done: the table holds rows it
\* had and rows of the rewrite, which are of keys it had.
Rewrote == work.updating \/ work.goal # <<>> \/ work.phase # "idle"
Rewriting ==
  /\ source.local
  /\ work.goal \in Seq(RowsOf(source.schema.types)) /\ work.left \in Seq(ToSet(work.goal))
  /\ work.phase # "idle" => work.left # <<>>
  /\ work.phase = "upsert" => work.updating
  /\ was \in SUBSET RowsOf(source.schema.types) /\ Keyed(source.schema, was)
  /\ \A g \in ToSet(work.goal) : \E x \in was :
       /\ KeyOf(x) = KeyOf(g)
       /\ view.kind = "slice" => Admits(source.schema, view.range, x)
  /\ source.rows \in SUBSET (was \cup ToSet(work.goal))
  /\ \A r \in was : r \in source.rows \/ \E g \in ToSet(work.goal) : KeyOf(g) = KeyOf(r)
  /\ work.updating =>
       /\ work.phase = "delete" => \A r \in was : \E x \in source.rows : KeyOf(x) = KeyOf(r)
       /\ work.phase = "upsert" => /\ \A x \in source.rows : KeyOf(x) # KeyOf(Head(work.left))
                                   /\ Kept(source.rows, KeyOf(Head(work.left)))
       /\ \E key : Kept(source.rows, key)

WorkShape ==
  /\ DOMAIN work = {"phase", "updating", "left", "goal"}
  /\ work.phase \in {"idle", "delete", "upsert"} /\ work.updating \in BOOLEAN
TableInv ==
  /\ IsTable(source) /\ ViewOf(source.schema, view)
  /\ WorkShape /\ (Rewrote => Rewriting)
  /\ WritesStayInside

LEMMA VisibleOfLocal ==
  ASSUME NEW t, IsTable(t), t.local
  PROVE  Visible(t) = t.rows
<1>1. /\ t.inserts = {} /\ t.deletes = {}
      /\ Visible(t) = t.inserts \cup {r \in t.rows : \A x \in t.inserts \cup t.deletes :
                                        Key(t.schema, x) # Key(t.schema, r)}
  BY TableParts, VisibleMeans
<1> QED
  BY <1>1

LEMMA VisibleRows ==
  ASSUME NEW t, IsTable(t)
  PROVE  /\ Visible(t) \in SUBSET RowsOf(t.schema.types)
         /\ IsFiniteSet(Visible(t)) /\ Keyed(t.schema, Visible(t))
  BY VisibleMeans, MetParts

\* A rewrite of what a slice shows stays inside it.
LEMMA RewritesStayInside ==
  IsTable(source) /\ Rewriting => WritesStayInside
<1> SUFFICES ASSUME IsTable(source), Rewriting, view.kind = "slice"
             PROVE  LET inside == {r \in was : Admits(source.schema, view.range, r)}
                    IN  /\ was \ Visible(source) \subseteq inside
                        /\ \A r \in Visible(source) \ was :
                             Admits(source.schema, view.range, r)
                               \/ \E x \in inside : KeyOf(x) = KeyOf(r)
  BY DEF WritesStayInside
<1> DEFINE inside == {r \in was : Admits(source.schema, view.range, r)}
<1>1. Visible(source) = source.rows
  BY VisibleOfLocal DEF Rewriting
<1>2. \A g \in ToSet(work.goal) : \E x \in inside : KeyOf(x) = KeyOf(g)
  BY DEF Rewriting
<1>3. ASSUME NEW r \in was, r \notin source.rows PROVE r \in inside
  <2>1. PICK g \in ToSet(work.goal) : KeyOf(g) = KeyOf(r)
    BY <1>3 DEF Rewriting
  <2>2. PICK x \in inside : KeyOf(x) = KeyOf(g)
    BY <1>2
  <2>3. x \in was /\ Keyed(source.schema, was)
    BY DEF Rewriting
  <2>4. x = r
    BY <2>1, <2>2, <2>3 DEF Keyed, KeyOf
  <2> QED
    BY <2>4
<1>4. ASSUME NEW r \in source.rows, r \notin was PROVE \E x \in inside : KeyOf(x) = KeyOf(r)
  BY <1>2, <1>4 DEF Rewriting
<1> QED
  BY <1>1, <1>3, <1>4

\* An answer that changes no row.
LEMMA QuietStep ==
  ASSUME TableInv, source' = source, ViewOf(source.schema, view'),
         work' = Idle, was' = Visible(source)
  PROVE  TableInv'
<1>1. IsTable(source)' /\ ViewOf(source.schema, view)'
  BY DEF TableInv
<1>2. WorkShape' /\ ~Rewrote'
  BY DEF WorkShape, Rewrote, Idle
<1>3. WritesStayInside'
  BY DEF WritesStayInside
<1> QED
  BY <1>1, <1>2, <1>3 DEF TableInv

\* A write that the owner of the table makes.
LEMMA OwnStep ==
  ASSUME TableInv, view.kind = "table", IsTable(source'), source'.schema = source.schema,
         view' = view, work' = Idle
  PROVE  TableInv'
<1>1. IsTable(source)' /\ ViewOf(source.schema, view)'
  BY DEF TableInv
<1>2. WorkShape' /\ ~Rewrote'
  BY DEF WorkShape, Rewrote, Idle
<1>3. WritesStayInside'
  BY DEF WritesStayInside
<1> QED
  BY <1>1, <1>2, <1>3 DEF TableInv

\* A bulk write to a persistent table.
LEMMA FileStep ==
  ASSUME TableInv, ~source.local, NEW T \in SUBSET RowsOf(source.schema.types),
         \A r \in T : Admits(source.schema, view.range, r),
         source' \in Changed(source, {KeyOf(r) : r \in T}),
         view' = view, work' = Idle, was' = Visible(source)
  PROVE  TableInv'
<1> DEFINE s == source.schema
           K == {KeyOf(r) : r \in T}
<1>1. /\ IsTable(source') /\ source'.schema = s /\ source'.rows = source.rows
      /\ \A r : Key(s, r) \notin K => /\ r \in source'.inserts <=> r \in source.inserts
                                      /\ r \in source'.deletes <=> r \in source.deletes
      /\ source'.local = source.local
  BY DEF Changed, ChangedAt
<1>2. IsTable(source)' /\ ViewOf(source.schema, view)'
  BY <1>1 DEF TableInv
<1>3. WorkShape' /\ ~Rewrote'
  BY DEF WorkShape, Rewrote, Idle
<1>4. IsTable(source) /\ IsSchema(s)
  BY TableParts DEF TableInv
<1>5. /\ Visible(source) = source.inserts
           \cup {r \in source.rows : \A x \in source.inserts \cup source.deletes : Key(s, x) # Key(s, r)}
      /\ Visible(source) \in SUBSET RowsOf(s.types)
  BY <1>4, VisibleMeans, VisibleRows
<1>6. /\ Visible(source') = source'.inserts
           \cup {r \in source.rows : \A x \in source'.inserts \cup source'.deletes : Key(s, x) # Key(s, r)}
      /\ Visible(source') \in SUBSET RowsOf(s.types)
  BY <1>1, VisibleMeans, VisibleRows
<1>7. \A r : Key(s, r) \notin K => (r \in Visible(source') <=> r \in Visible(source))
  <2> HIDE DEF K, s
  <2> TAKE r
  <2> HAVE Key(s, r) \notin K
  <2>1. /\ r \in source'.inserts <=> r \in source.inserts
        /\ \A x : Key(s, x) = Key(s, r) => /\ x \in source'.inserts <=> x \in source.inserts
                                           /\ x \in source'.deletes <=> x \in source.deletes
    BY <1>1
  <2>2. (\A x \in source'.inserts \cup source'.deletes : Key(s, x) # Key(s, r))
          <=> (\A x \in source.inserts \cup source.deletes : Key(s, x) # Key(s, r))
    BY <2>1
  <2> QED
    BY <1>5, <1>6, <2>1, <2>2
<1>8. WritesStayInside'
  <2> SUFFICES ASSUME view.kind = "slice", KeyRange(s, view.range)
               PROVE  LET inside == {r \in Visible(source) : Admits(s, view.range, r)}
                      IN  /\ Visible(source) \ Visible(source') \subseteq inside
                          /\ \A r \in Visible(source') \ Visible(source) : Admits(s, view.range, r)
    BY <1>1 DEF WritesStayInside, Exact, KeyRange
  <2>1. ASSUME NEW r \in RowsOf(s.types), Key(s, r) \in K PROVE Admits(s, view.range, r)
    <3>1. PICK x \in T : Key(s, x) = Key(s, r)
      BY <2>1 DEF KeyOf
    <3> QED
      BY <1>4, <3>1, KeyAdmits
  <2> HIDE DEF K, s
  <2> QED
    BY <1>5, <1>6, <1>7, <2>1
<1> QED
  BY <1>2, <1>3, <1>8 DEF TableInv

LEMMA LocalMade ==
  ASSUME NEW t, IsTable(t), t.local, NEW rows \in SUBSET RowsOf(t.schema.types),
         IsFiniteSet(rows), Keyed(t.schema, rows), NEW u, u = [t EXCEPT !.rows = rows]
  PROVE  /\ IsTable(u) /\ u.schema = t.schema /\ u.local /\ u.rows = rows
<1>1. t \in [schema : {t.schema}, local : BOOLEAN,
             rows : {t.rows}, inserts : {t.inserts}, deletes : {t.deletes}]
  BY DEF IsTable
<1>2. /\ IsSchema(t.schema) /\ t.inserts = {} /\ t.deletes = {}
  BY TableParts
<1>3. /\ u.schema = t.schema /\ u.local /\ u.rows = rows /\ u.inserts = {} /\ u.deletes = {}
      /\ u = [schema |-> u.schema, local |-> u.local, rows |-> u.rows,
              inserts |-> u.inserts, deletes |-> u.deletes]
  <2> DEFINE i == t.inserts
             d == t.deletes
             s == t.schema
             c == t.rows
  <2>1. t = [schema |-> s, local |-> TRUE, rows |-> c, inserts |-> i, deletes |-> d]
    BY <1>1
  <2> HIDE DEF i, d, s, c
  <2>2. u = [schema |-> s, local |-> TRUE, rows |-> rows, inserts |-> i, deletes |-> d]
    BY <2>1
  <2> QED
    BY <1>2, <2>2 DEF i, d, s
<1>4. \A x \in {u.rows, u.inserts, u.deletes} :
        x \in SUBSET RowsOf(u.schema.types) /\ IsFiniteSet(x) /\ Keyed(u.schema, x)
  BY <1>3, FS_EmptySet DEF Keyed
<1>5. /\ u.local \in BOOLEAN /\ IsSchema(u.schema)
      /\ \A r \in u.inserts, x \in u.deletes : Key(u.schema, r) # Key(u.schema, x)
      /\ u.local => u.inserts = {} /\ u.deletes = {}
  BY <1>1, <1>2, <1>3
<1>6. IsTable(u)
  BY <1>3, <1>4, <1>5, TableMade
<1> QED
  BY <1>3, <1>6

\* rewrite_local once all rows are staged.
LEMMA StagedStep ==
  ASSUME TableInv, source.local, NEW range, NEW rows \in Seq(RowsOf(source.schema.types)),
         NEW updating \in BOOLEAN,
         \A i \in 1 .. Len(rows) : \E x \in Targets(range) : KeyOf(x) = KeyOf(rows[i]),
         work' = [phase |-> IF rows = <<>> THEN "idle" ELSE "delete",
                  updating |-> updating, left |-> rows, goal |-> rows],
         source' = source, view' = view, was' = Visible(source)
  PROVE  TableInv'
<1> DEFINE U == RowsOf(source.schema.types)
<1>1. IsTable(source)' /\ ViewOf(source.schema, view)'
  BY DEF TableInv
<1>2. /\ work'.phase = IF rows = <<>> THEN "idle" ELSE "delete"
      /\ work'.updating = updating /\ work'.left = rows /\ work'.goal = rows
      /\ DOMAIN work' = {"phase", "updating", "left", "goal"}
  OBVIOUS
<1>3. WorkShape'
  BY <1>2 DEF WorkShape
<1>4. was' = source.rows /\ source.rows \in SUBSET U /\ Keyed(source.schema, source.rows)
  BY VisibleOfLocal, TableParts DEF TableInv
<1>5. source.inserts = {}
  BY TableParts DEF TableInv
<1>6. ToSet(rows) = {rows[i] : i \in 1 .. Len(rows)} /\ ToSet(rows) \in SUBSET U
      /\ rows \in Seq(ToSet(rows))
  <2> HIDE DEF U
  <2>1. rows \in Seq(U)
    BY DEF U
  <2>2. Len(rows) \in Nat /\ DOMAIN rows = 1 .. Len(rows) /\ \A i \in 1 .. Len(rows) : rows[i] \in U
    BY <2>1
  <2>3. ToSet(rows) = {rows[i] : i \in 1 .. Len(rows)}
    BY <2>2 DEF ToSet
  <2> DEFINE W == ToSet(rows)
  <2>4. rows \in [1 .. Len(rows) -> W] /\ W \in SUBSET U
    BY <2>1, <2>2, <2>3
  <2> HIDE DEF W
  <2>5. rows \in Seq(W)
    BY <2>2, <2>4, FunctionIsSeq
  <2> QED
    BY <2>3, <2>4, <2>5 DEF W
<1>7. \A g \in ToSet(rows) : \E x \in source.rows :
        KeyOf(x) = KeyOf(g) /\ Admits(source.schema, view.range, x)
  <2>1. \A x \in Targets(range) : x \in source.rows /\ Admits(source.schema, view.range, x)
    <3>1. \A x \in Targets(range) : Admits(source.schema, view.range, x)
      BY TargetsMean DEF TableInv
    <3> QED
      BY <1>5, <3>1 DEF Targets
  <2> QED
    BY <1>6, <2>1
<1>8. Rewriting'
  <2>1. source'.local /\ (work'.phase # "idle" => work'.left # <<>>) /\ work'.phase # "upsert"
    BY <1>2
  <2>2. /\ work'.goal \in Seq(RowsOf(source'.schema.types))
        /\ work'.left \in Seq(ToSet(work'.goal))
    BY <1>2, <1>6
  <2>3. was' \in SUBSET RowsOf(source'.schema.types) /\ Keyed(source'.schema, was')
    BY <1>4
  <2>4. \A g \in ToSet(work'.goal) : \E x \in was' :
          /\ Key(source'.schema, x) = Key(source'.schema, g)
          /\ view'.kind = "slice" => Admits(source'.schema, view'.range, x)
    BY <1>2, <1>4, <1>7 DEF KeyOf
  <2>5. source'.rows = was'
    BY <1>4
  <2>6. \A key : \A r \in was' : \E x \in source'.rows : Key(source'.schema, x) = Key(source'.schema, r)
    BY <2>5
  <2> QED
    BY <2>1, <2>2, <2>3, <2>4, <2>5, <2>6 DEF Rewriting, Kept, KeyOf
<1>9. WritesStayInside'
  BY <1>4 DEF WritesStayInside
<1> QED
  BY <1>1, <1>3, <1>8, <1>9 DEF TableInv

\* What the three steps of a rewrite have in common.
LEMMA RewriteGoesOn ==
  ASSUME TableInv, work.phase # "idle", IsTable(source'), source'.schema = source.schema,
         view' = view, WorkShape', Rewriting'
  PROVE  TableInv'
<1>1. ViewOf(source.schema, view)'
  BY DEF TableInv
<1>2. WritesStayInside'
  <2>1. (IsTable(source) /\ Rewriting => WritesStayInside)'
    BY RewritesStayInside, PTL
  <2>2. (IsTable(source) /\ Rewriting)'
    OBVIOUS
  <2> QED
    BY <2>1, <2>2
<1> QED
  BY <1>1, <1>2 DEF TableInv

LEMMA DroppedStep ==
  ASSUME TableInv, RewriteDropped
  PROVE  TableInv'
<1>1. Rewriting /\ WorkShape /\ work.phase # "idle"
  BY DEF TableInv, RewriteDropped, Rewrote
<1>2. /\ source' = source /\ view' = view /\ was' = was
      /\ DOMAIN work' = DOMAIN work /\ work'.phase = "idle" /\ work'.updating = work.updating
      /\ work'.left = work.left /\ work'.goal = work.goal
  BY <1>1 DEF RewriteDropped, WorkShape
<1>3. WorkShape'
  BY <1>1, <1>2 DEF WorkShape
<1>4. Rewriting'
  <2>1. /\ source.local
        /\ work.goal \in Seq(RowsOf(source.schema.types)) /\ work.left \in Seq(ToSet(work.goal))
        /\ was \in SUBSET RowsOf(source.schema.types) /\ Keyed(source.schema, was)
        /\ source.rows \in SUBSET (was \cup ToSet(work.goal))
    BY <1>1 DEF Rewriting
  <2>2. \A g \in ToSet(work.goal) : \E x \in was :
          /\ Key(source.schema, x) = Key(source.schema, g)
          /\ view.kind = "slice" => Admits(source.schema, view.range, x)
    BY <1>1 DEF Rewriting, KeyOf
  <2>3. \A r \in was : r \in source.rows
                       \/ \E g \in ToSet(work.goal) : Key(source.schema, g) = Key(source.schema, r)
    BY <1>1 DEF Rewriting, KeyOf
  <2>4. work.updating => \E key : \A r \in was :
          Key(source.schema, r) = key \/ \E x \in source.rows : Key(source.schema, x) = Key(source.schema, r)
    BY <1>1 DEF Rewriting, Kept, KeyOf
  <2> QED
    BY <1>2, <2>1, <2>2, <2>3, <2>4 DEF Rewriting, Kept, KeyOf
<1> QED
  BY <1>1, <1>2, <1>3, <1>4, RewriteGoesOn DEF TableInv

LEMMA LeftMeans ==
  ASSUME NEW W, NEW left \in Seq(W), left # <<>>
  PROVE  /\ Head(left) \in W /\ Tail(left) \in Seq(W)
         /\ Len(left) # 1 => Tail(left) # <<>>
<1>1. Len(left) \in Nat /\ Len(left) >= 1 /\ Tail(left) \in Seq(W) /\ Len(Tail(left)) = Len(left) - 1
  OBVIOUS
<1>2. Head(left) \in W
  BY <1>1
<1> QED
  BY <1>1, <1>2

LEMMA DeleteStep ==
  ASSUME TableInv, RewriteDelete
  PROVE  TableInv'
<1> DEFINE s == source.schema
           h == Head(work.left)
           rows == Without(source.rows, s, Key(s, h))
           W == ToSet(work.goal)
<1>1. Rewriting /\ WorkShape /\ work.phase = "delete" /\ IsTable(source)
  BY DEF TableInv, RewriteDelete, Rewrote
<1>2. /\ source' = [source EXCEPT !.rows = rows]
      /\ work' = IF work.updating THEN [work EXCEPT !.phase = "upsert"] ELSE NextRow
      /\ view' = view /\ was' = was
  BY DEF RewriteDelete, Deleted, KeyOf
<1>3. /\ source.local
      /\ work.goal \in Seq(RowsOf(s.types)) /\ work.left \in Seq(W)
      /\ was \in SUBSET RowsOf(s.types) /\ Keyed(s, was)
      /\ source.rows \in SUBSET (was \cup W)
      /\ work.left # <<>>
  BY <1>1 DEF Rewriting
<1>4. h \in W /\ Tail(work.left) \in Seq(W) /\ (Len(work.left) # 1 => Tail(work.left) # <<>>)
  <2> HIDE DEF W
  <2> QED
    BY <1>3, LeftMeans
<1>5. \A g \in W : \E x \in was :
        /\ Key(s, x) = Key(s, g)
        /\ view.kind = "slice" => Admits(s, view.range, x)
  BY <1>1 DEF Rewriting, KeyOf
<1>6. \A r \in was : r \in source.rows \/ \E g \in W : Key(s, g) = Key(s, r)
  BY <1>1 DEF Rewriting, KeyOf
<1>7. work.updating => \A r \in was : \E x \in source.rows : Key(s, x) = Key(s, r)
  BY <1>1 DEF Rewriting, KeyOf
<1>8. /\ IsTable(source') /\ source'.schema = s /\ source'.local /\ source'.rows = rows
      /\ \A x \in rows : Key(s, x) # Key(s, h)
      /\ \A x : Key(s, x) # Key(s, h) => (x \in rows <=> x \in source.rows)
      /\ rows \in SUBSET source.rows
  <2>1. source.rows \in SUBSET RowsOf(s.types) /\ IsFiniteSet(source.rows) /\ Keyed(s, source.rows)
    BY <1>1, TableParts
  <2>2. /\ rows \in SUBSET source.rows /\ IsFiniteSet(rows) /\ Keyed(s, rows)
        /\ \A x \in rows : Key(s, x) # Key(s, h)
        /\ \A x : Key(s, x) # Key(s, h) => (x \in rows <=> x \in source.rows)
    <3> DEFINE c == source.rows
    <3> HIDE DEF h, s, c
    <3>1. IsFiniteSet(c) /\ Keyed(s, c)
      BY <2>1 DEF c
    <3> DEFINE w == Without(c, s, Key(s, h))
    <3>2. /\ w \in SUBSET c /\ IsFiniteSet(w) /\ Keyed(s, w)
          /\ \A x \in w : Key(s, x) # Key(s, h)
          /\ \A x : Key(s, x) # Key(s, h) => (x \in w <=> x \in c)
      BY <3>1, WithoutMeans
    <3> QED
      BY <3>2 DEF c
  <2> HIDE DEF rows
  <2>3. rows \in SUBSET RowsOf(s.types)
    BY <2>1, <2>2
  <2>4. IsTable(source') /\ source'.schema = s /\ source'.local /\ source'.rows = rows
    BY <1>1, <1>2, <1>3, <2>2, <2>3, LocalMade
  <2> QED
    BY <2>2, <2>4
<1> HIDE DEF rows
<1>9. /\ DOMAIN work' = DOMAIN work /\ work'.updating = work.updating /\ work'.goal = work.goal
      /\ work.updating => work'.phase = "upsert" /\ work'.left = work.left
      /\ ~work.updating => /\ work'.left = Tail(work.left)
                           /\ work'.phase = IF Len(work.left) = 1 THEN "idle" ELSE "delete"
  BY <1>1, <1>2 DEF WorkShape, NextRow
<1>10. WorkShape'
  BY <1>1, <1>9 DEF WorkShape
<1>11. work.updating => \A r \in was : Key(s, r) = Key(s, h) \/ \E x \in rows : Key(s, x) = Key(s, r)
  <2> SUFFICES ASSUME work.updating, NEW r \in was, Key(s, r) # Key(s, h)
               PROVE  \E x \in rows : Key(s, x) = Key(s, r)
    OBVIOUS
  <2>1. PICK x \in source.rows : Key(s, x) = Key(s, r)
    BY <1>7
  <2> HIDE DEF h, s
  <2> QED
    BY <1>8, <2>1
<1>12. \A r \in was : r \in rows \/ \E g \in W : Key(s, g) = Key(s, r)
  BY <1>4, <1>6, <1>8
<1>13. rows \in SUBSET (was \cup W)
  BY <1>3, <1>8
<1>14. Rewriting'
  <2>1. /\ work'.left \in Seq(W)
        /\ (work'.phase # "idle" => work'.left # <<>>) /\ (work'.phase = "upsert" => work.updating)
        /\ (work.updating => work'.phase = "upsert")
    BY <1>3, <1>4, <1>9
  <2>2. work.updating => Head(work'.left) = h
    BY <1>9
  <2> HIDE DEF h, W
  <2>3. ToSet(work'.goal) = W
    BY <1>9 DEF W
  <2>4. work'.updating =>
          /\ work'.phase # "delete"
          /\ work'.phase = "upsert" =>
               /\ \A x \in rows : Key(s, x) # Key(s, Head(work'.left))
               /\ \A r \in was : Key(s, r) = Key(s, Head(work'.left)) \/ \E x \in rows : Key(s, x) = Key(s, r)
          /\ \E key : \A r \in was : Key(s, r) = key \/ \E x \in rows : Key(s, x) = Key(s, r)
    BY <1>8, <1>9, <1>11, <2>1, <2>2
  <2>5. was' = was /\ view' = view /\ source'.schema = s /\ source'.rows = rows /\ source'.local
    BY <1>2, <1>8
  <2>6. work'.goal = work.goal
    BY <1>9
  <2> HIDE DEF s
  <2> QED
    <3>1. /\ source'.local
          /\ work'.goal \in Seq(RowsOf(source'.schema.types)) /\ work'.left \in Seq(ToSet(work'.goal))
          /\ work'.phase # "idle" => work'.left # <<>>
          /\ work'.phase = "upsert" => work'.updating
          /\ was' \in SUBSET RowsOf(source'.schema.types) /\ Keyed(source'.schema, was')
          /\ source'.rows \in SUBSET (was' \cup ToSet(work'.goal))
      BY <1>3, <1>9, <1>13, <2>1, <2>3, <2>5, <2>6
    <3>2. \A g \in ToSet(work'.goal) : \E x \in was' :
            /\ Key(source'.schema, x) = Key(source'.schema, g)
            /\ view'.kind = "slice" => Admits(source'.schema, view'.range, x)
      BY <1>5, <2>3, <2>5
    <3>3. \A r \in was' : r \in source'.rows
            \/ \E g \in ToSet(work'.goal) : Key(source'.schema, g) = Key(source'.schema, r)
      BY <1>12, <2>3, <2>5
    <3>4. work'.updating =>
            /\ work'.phase = "delete" =>
                 \A r \in was' : \E x \in source'.rows : Key(source'.schema, x) = Key(source'.schema, r)
            /\ work'.phase = "upsert" =>
                 /\ \A x \in source'.rows : Key(source'.schema, x) # Key(source'.schema, Head(work'.left))
                 /\ \A r \in was' : Key(source'.schema, r) = Key(source'.schema, Head(work'.left))
                      \/ \E x \in source'.rows : Key(source'.schema, x) = Key(source'.schema, r)
            /\ \E key : \A r \in was' : Key(source'.schema, r) = key
                      \/ \E x \in source'.rows : Key(source'.schema, x) = Key(source'.schema, r)
      BY <2>4, <2>5
    <3> QED
      BY <3>1, <3>2, <3>3, <3>4 DEF Rewriting, Kept, KeyOf
<1> QED
  BY <1>1, <1>2, <1>8, <1>10, <1>14, RewriteGoesOn

LEMMA UpsertStep ==
  ASSUME TableInv, RewriteUpsert
  PROVE  TableInv'
<1> DEFINE s == source.schema
           h == Head(work.left)
           rows == source.rows \cup {h}
           W == ToSet(work.goal)
<1>1. Rewriting /\ WorkShape /\ work.phase = "upsert" /\ IsTable(source)
  BY DEF TableInv, RewriteUpsert, Rewrote
<1>2. /\ source' = [source EXCEPT !.rows = rows]
      /\ work' = NextRow /\ view' = view /\ was' = was
  BY DEF RewriteUpsert
<1>3. /\ source.local /\ work.updating
      /\ work.goal \in Seq(RowsOf(s.types)) /\ work.left \in Seq(W)
      /\ was \in SUBSET RowsOf(s.types) /\ Keyed(s, was)
      /\ source.rows \in SUBSET (was \cup W)
      /\ work.left # <<>>
  BY <1>1 DEF Rewriting
<1>4. h \in W /\ Tail(work.left) \in Seq(W) /\ (Len(work.left) # 1 => Tail(work.left) # <<>>)
  <2> HIDE DEF W
  <2> QED
    BY <1>3, LeftMeans
<1>5. \A g \in W : \E x \in was :
        /\ Key(s, x) = Key(s, g)
        /\ view.kind = "slice" => Admits(s, view.range, x)
  BY <1>1 DEF Rewriting, KeyOf
<1>6. \A r \in was : r \in rows \/ \E g \in W : Key(s, g) = Key(s, r)
  BY <1>1 DEF Rewriting, KeyOf
<1>7. /\ \A x \in source.rows : Key(s, x) # Key(s, h)
      /\ \A r \in was : \E x \in rows : Key(s, x) = Key(s, r)
  BY <1>1, <1>3 DEF Rewriting, KeyOf, Kept
<1>8. /\ IsTable(source') /\ source'.schema = s /\ source'.local /\ source'.rows = rows
  <2>1. source.rows \in SUBSET RowsOf(s.types) /\ IsFiniteSet(source.rows) /\ Keyed(s, source.rows)
    BY <1>1, TableParts
  <2>2. W \in SUBSET RowsOf(s.types)
    <3> DEFINE U == RowsOf(s.types)
    <3>1. work.goal \in Seq(U)
      BY <1>3
    <3> HIDE DEF U
    <3>2. ToSet(work.goal) \in SUBSET U
      BY <3>1 DEF ToSet
    <3> QED
      BY <3>2 DEF U
  <2>3. rows \in SUBSET RowsOf(s.types)
    BY <1>4, <2>1, <2>2
  <2>4. IsFiniteSet(rows)
    BY <2>1, FS_AddElement
  <2>5. Keyed(s, rows)
    BY <1>7, <2>1 DEF Keyed
  <2> HIDE DEF rows
  <2> QED
    BY <1>1, <1>2, <1>3, <2>3, <2>4, <2>5, LocalMade
<1>9. rows \in SUBSET (was \cup W)
  BY <1>3, <1>4
<1> HIDE DEF rows
<1>10. /\ DOMAIN work' = DOMAIN work /\ work'.updating = work.updating /\ work'.goal = work.goal
       /\ work'.left = Tail(work.left)
       /\ work'.phase = IF Len(work.left) = 1 THEN "idle" ELSE "delete"
  BY <1>1, <1>2 DEF WorkShape, NextRow
<1>11. WorkShape'
  BY <1>1, <1>10 DEF WorkShape
<1>12. Rewriting'
  <2>1. /\ work'.left \in Seq(W)
        /\ (work'.phase # "idle" => work'.left # <<>>) /\ work'.phase # "upsert"
    BY <1>3, <1>4, <1>10
  <2> HIDE DEF h, W
  <2>2. ToSet(work'.goal) = W /\ work'.goal = work.goal
    BY <1>10 DEF W
  <2>3. was' = was /\ view' = view /\ source'.schema = s /\ source'.rows = rows /\ source'.local
    BY <1>2, <1>8
  <2> HIDE DEF s
  <2> QED
    BY <1>3, <1>5, <1>6, <1>7, <1>9, <2>1, <2>2, <2>3 DEF Rewriting, Kept, KeyOf
<1> QED
  BY <1>1, <1>2, <1>8, <1>11, <1>12, RewriteGoesOn

-----------------------------------------------------------------------------
(* The routes. *)

LEMMA AnswerStep ==
  ASSUME TableInv, Began, NEW answer, Tell(answer) \/ Refuse
  PROVE  TableInv'
<1>1. source' = source /\ view' = view /\ work' = Idle /\ was' = Visible(source)
  BY DEF Tell, Refuse, Reply, Began
<1>2. ViewOf(source.schema, view')
  BY <1>1 DEF TableInv
<1> QED
  BY <1>1, <1>2, QuietStep

LEMMA HoldStep ==
  ASSUME TableInv, Began, NEW new, Held(source.schema, new), Hold(new)
  PROVE  TableInv'
<1>1. source' = source /\ work' = Idle /\ was' = Visible(source)
      /\ (view' = view \/ (new.kind # "error" /\ view' = new))
  BY DEF Hold, Reply, Began
<1>2. ViewOf(source.schema, view')
  BY <1>1 DEF TableInv, Held
<1> QED
  BY <1>1, <1>2, QuietStep

\* The rows that an update makes of its targets.
NewRows(range, values) ==
  LET rows == TargetRows(range) IN [i \in DOMAIN rows |-> Updated(rows[i], values)]
LEMMA NewRowsMean ==
  ASSUME IsTable(source), NEW range, NEW values \in Updates
  PROVE  /\ NewRows(range, values) \in Seq(Seq(AllCells))
         /\ \A i \in 1 .. Len(NewRows(range, values)) :
              \E x \in Targets(range) : KeyOf(x) = KeyOf(NewRows(range, values)[i])
<1> DEFINE rows == TargetRows(range)
           T == Targets(range)
           new == NewRows(range, values)
           n == Len(rows)
           W == Seq(AllCells)
<1>1. rows \in Seq(T) /\ T \in SUBSET RowsOf(source.schema.types)
  BY TargetsMean
<1> HIDE DEF rows, T
<1>2. n \in Nat /\ DOMAIN rows = 1 .. n /\ \A i \in 1 .. n : rows[i] \in T
  BY <1>1
<1>3. new = [i \in 1 .. n |-> Updated(rows[i], values)]
  BY <1>2 DEF NewRows, rows
<1>4. \A i \in 1 .. n : Updated(rows[i], values) \in W /\ KeyOf(Updated(rows[i], values)) = KeyOf(rows[i])
  BY <1>1, <1>2, UpdatedMeans
<1> HIDE DEF new, W
<1>5. new \in [1 .. n -> W] /\ \A i \in 1 .. n : KeyOf(new[i]) = KeyOf(rows[i])
  BY <1>3, <1>4
<1> HIDE DEF n
<1>6. new \in Seq(W) /\ Len(new) = n
  BY <1>2, <1>5, FunctionIsSeq
<1>7. \A i \in 1 .. Len(new) : \E x \in T : KeyOf(x) = KeyOf(new[i])
  BY <1>2, <1>5, <1>6
<1> QED
  BY <1>6, <1>7 DEF new, T, W

\* rewrite_local: refused, or staged.
LEMMA RewriteLocalStep ==
  ASSUME TableInv, Began, source.local, NEW range, NEW rows \in Seq(Seq(AllCells)),
         NEW updating \in BOOLEAN,
         \A i \in 1 .. Len(rows) : \E x \in Targets(range) : KeyOf(x) = KeyOf(rows[i]),
         RewriteLocal(rows, updating)
  PROVE  TableInv'
<1> DEFINE W == Seq(AllCells)
           n == Len(rows)
<1>1. n \in Nat /\ DOMAIN rows = 1 .. n /\ \A i \in 1 .. n : rows[i] \in W
  <2>1. rows \in Seq(W)
    OBVIOUS
  <2> HIDE DEF W
  <2> QED
    BY <2>1
<1>2. CASE \E i \in DOMAIN rows : ~RowFits(rows[i])
  <2>1. Refuse
    BY <1>2 DEF RewriteLocal
  <2> QED
    BY <2>1, AnswerStep
<1>3. CASE ~\E i \in DOMAIN rows : ~RowFits(rows[i])
  <2> DEFINE U == RowsOf(source.schema.types)
  <2>1. \A i \in 1 .. n : rows[i] \in U
    BY <1>1, <1>3 DEF RowsOf, RowFits
  <2>2. rows \in [1 .. n -> U]
    <3> HIDE DEF U
    <3>1. rows = [i \in 1 .. n |-> rows[i]]
      BY <1>1
    <3> QED
      BY <2>1, <3>1
  <2>3. rows \in Seq(U)
    <3> HIDE DEF U, n
    <3> QED
      BY <1>1, <2>2, FunctionIsSeq
  <2>4. /\ work' = [phase |-> IF rows = <<>> THEN "idle" ELSE "delete",
                    updating |-> updating, left |-> rows, goal |-> rows]
        /\ source' = source /\ view' = view /\ was' = Visible(source)
    BY <1>3 DEF RewriteLocal, Reply, Began
  <2> QED
    BY <2>3, <2>4, StagedStep
<1> QED
  BY <1>2, <1>3

LEMMA UpdateStep ==
  ASSUME TableInv, Began, NEW range, NEW values \in Updates, Update(range, values)
  PROVE  TableInv'
<1> DEFINE rows == NewRows(range, values)
<1>1. IsTable(source)
  BY DEF TableInv
<1>2. /\ rows \in Seq(Seq(AllCells))
      /\ \A i \in 1 .. Len(rows) : \E x \in Targets(range) : KeyOf(x) = KeyOf(rows[i])
  BY <1>1, NewRowsMean
<1>3. \/ Tell("ok") \/ Refuse
      \/ source.local /\ RewriteLocal(rows, TRUE)
      \/ ~source.local /\ Stored(Upserted(rows).table, Upserted(rows).ok)
  BY DEF Update, UpdateLocal, UpdateFile, NewRows, Upserted
<1> HIDE DEF rows
<1>4. CASE Tell("ok") \/ Refuse
  BY <1>4, AnswerStep
<1>5. CASE source.local /\ RewriteLocal(rows, TRUE)
  <2>1. TRUE \in BOOLEAN
    OBVIOUS
  <2> QED
    BY <1>2, <1>5, <2>1, RewriteLocalStep
<1>6. CASE ~source.local /\ Stored(Upserted(rows).table, Upserted(rows).ok)
  <2> DEFINE T == Targets(range)
             K == {KeyOf(r) : r \in T}
  <2>1. T \in SUBSET RowsOf(source.schema.types) /\ \A r \in T : Admits(source.schema, view.range, r)
    BY <1>1, TargetsMean
  <2>2. \A i \in 1 .. Len(rows) : KeyOf(rows[i]) \in K
    BY <1>2
  <2>3. Upserted(rows) \in [ok : BOOLEAN, table : Changed(source, K)]
    <3> HIDE DEF K
    <3> QED
      BY <1>1, <1>2, <1>6, <2>2, UpsertsMean
  <2>4. source' \in Changed(source, K)
    BY <1>6, <2>3 DEF Stored
  <2>5. view' = view /\ work' = Idle /\ was' = Visible(source)
    BY <1>6 DEF Stored, Reply, Began
  <2> HIDE DEF T
  <2> QED
    BY <1>6, <2>1, <2>4, <2>5, FileStep
<1> QED
  BY <1>3, <1>4, <1>5, <1>6

LEMMA TruncateStep ==
  ASSUME TableInv, Began, NEW range, Truncate(range)
  PROVE  TableInv'
<1> DEFINE rows == TargetRows(range)
           T == Targets(range)
           U == RowsOf(source.schema.types)
<1>1. IsTable(source)
  BY DEF TableInv
<1>2. rows \in Seq(T) /\ T \in SUBSET U /\ \A r \in T : Admits(source.schema, view.range, r)
  BY <1>1, TargetsMean
<1>3. \/ Refuse
      \/ source.local /\ RewriteLocal(rows, FALSE)
      \/ ~source.local /\ Stored(DeletedAll(rows), TRUE)
  BY DEF Truncate, TruncateLocal, TruncateFile, DeletedAll
<1> HIDE DEF rows, T
<1>4. CASE Refuse
  BY <1>4, AnswerStep
<1>5. CASE source.local /\ RewriteLocal(rows, FALSE)
  <2>1. FALSE \in BOOLEAN
    OBVIOUS
  <2>2. U \in SUBSET Seq(AllCells)
    BY DEF RowsOf
  <2> DEFINE W == Seq(AllCells)
             n == Len(rows)
  <2>3. n \in Nat /\ \A i \in 1 .. n : rows[i] \in T
    BY <1>2
  <2>4. rows \in [1 .. n -> W]
    <3> HIDE DEF W, U
    <3>1. rows = [i \in 1 .. n |-> rows[i]] /\ \A i \in 1 .. n : rows[i] \in W
      BY <1>2, <2>2, <2>3 DEF W
    <3> QED
      BY <3>1
  <2>5. rows \in Seq(W)
    <3> HIDE DEF W, n
    <3> QED
      BY <2>3, <2>4, FunctionIsSeq
  <2>6. \A i \in 1 .. n : \E x \in T : KeyOf(x) = KeyOf(rows[i])
    BY <2>3
  <2> QED
    BY <1>5, <2>1, <2>5, <2>6, RewriteLocalStep DEF T
<1>6. CASE ~source.local /\ Stored(DeletedAll(rows), TRUE)
  <2> DEFINE K == {KeyOf(r) : r \in T}
  <2>1. \A r \in T : KeyOf(r) \in K
    OBVIOUS
  <2>2. DeletedAll(rows) \in Changed(source, K)
    <3> HIDE DEF K
    <3> QED
      BY <1>1, <1>2, <1>6, <2>1, DeletesMean
  <2>3. source' \in Changed(source, K)
    BY <1>6, <2>2 DEF Stored
  <2>4. view' = view /\ work' = Idle /\ was' = Visible(source)
    BY <1>6 DEF Stored, Reply, Began
  <2> QED
    BY <1>2, <1>6, <2>3, <2>4, FileStep
<1> QED
  BY <1>3, <1>4, <1>5, <1>6

LEMMA SomeRows ==
  ASSUME NEW s, NEW all, IsFiniteSet(all), Keyed(s, all), NEW rows \in SUBSET all
  PROVE  IsFiniteSet(rows) /\ Keyed(s, rows)
<1>1. IsFiniteSet(rows)
  BY FS_Subset
<1>2. Keyed(s, rows)
  BY DEF Keyed
<1> QED
  BY <1>1, <1>2

LEMMA UpsertRowStep ==
  ASSUME TableInv, Began, NEW p \in Puts, Upsert(p.key, p.values)
  PROVE  TableInv'
<1> DEFINE s == source.schema
           key == p.key
           values == p.values
           row == key \o values
           fits == Parted(s, key, values)
           rows == Without(source.rows, s, key)
<1>1. IsTable(source) /\ IsSchema(s)
  BY TableParts DEF TableInv
<1>2. key \in Seq(AllCells) /\ values \in Seq(AllCells)
  BY TableAssumption, CellRow
<1>3. fits => row \in RowsOf(s.types) /\ Key(s, row) = key
  <2> HIDE DEF key, values
  <2> QED
    BY <1>1, <1>2, PartsFit
<1>4. \/ Refuse
      \/ /\ view.kind = "table" /\ source.local
         /\ Stored([source EXCEPT !.rows = rows \cup IF fits THEN {row} ELSE {}], fits)
      \/ /\ view.kind = "table" /\ ~source.local /\ fits
         /\ Stored(DeltaUpsert([ok |-> TRUE, table |-> source], row).table, TRUE)
  BY DEF Upsert, Deleted, Parted
<1> HIDE DEF key, values, row, fits
<1>5. CASE Refuse
  BY <1>5, AnswerStep
<1>6. CASE /\ view.kind = "table" /\ source.local
           /\ Stored([source EXCEPT !.rows = rows \cup IF fits THEN {row} ELSE {}], fits)
  <2> DEFINE all == source.rows
             new == rows \cup IF fits THEN {row} ELSE {}
  <2>1. all \in SUBSET RowsOf(s.types) /\ IsFiniteSet(all) /\ Keyed(s, all)
    BY <1>1, TableParts
  <2>2. rows \in SUBSET all
    BY DEF Without
  <2>3. IsFiniteSet(rows) /\ Keyed(s, rows)
    <3> HIDE DEF rows, all, s
    <3> QED
      BY <2>1, <2>2, SomeRows
  <2>4. new \in SUBSET RowsOf(s.types) /\ IsFiniteSet(new) /\ Keyed(s, new)
    <3>1. CASE fits
      <4>1. new = Without(all, s, Key(s, row)) \cup {row}
        BY <1>3, <3>1
      <4>2. IsFiniteSet(Without(all, s, Key(s, row)) \cup {row})
            /\ Keyed(s, Without(all, s, Key(s, row)) \cup {row})
        <5> HIDE DEF all, s
        <5> QED
          BY <2>1, WithoutMeans
      <4>3. new \in SUBSET RowsOf(s.types)
        BY <1>3, <2>1, <2>2, <3>1
      <4> QED
        BY <4>1, <4>2, <4>3
    <3>2. CASE ~fits
      <4>1. new = rows
        BY <3>2
      <4> QED
        BY <2>1, <2>2, <2>3, <4>1
    <3> QED
      BY <3>1, <3>2
  <2> HIDE DEF rows, new
  <2>5. source' = [source EXCEPT !.rows = new] /\ view' = view /\ work' = Idle
    BY <1>6 DEF Stored, Reply, new
  <2>6. IsTable(source') /\ source'.schema = s
    BY <1>1, <1>6, <2>4, <2>5, LocalMade
  <2> QED
    BY <1>6, <2>5, <2>6, OwnStep
<1>7. CASE /\ view.kind = "table" /\ ~source.local /\ fits
           /\ Stored(DeltaUpsert([ok |-> TRUE, table |-> source], row).table, TRUE)
  <2> DEFINE K == {KeyOf(row)}
             acc == [ok |-> TRUE, table |-> source]
  <2>1. acc \in [ok : BOOLEAN, table : Changed(source, K)]
    <3>1. source \in Changed(source, K)
      BY <1>1, NothingChanged
    <3> QED
      BY <3>1
  <2>2. row \in Seq(AllCells) /\ KeyOf(row) \in K
    BY <1>3, <1>7 DEF RowsOf
  <2> HIDE DEF K, acc
  <2>3. DeltaUpsert(acc, row) \in [ok : BOOLEAN, table : Changed(source, K)]
    BY <1>1, <1>7, <2>1, <2>2, UpsertOne
  <2>4. source' \in Changed(source, K) /\ view' = view /\ work' = Idle
    BY <1>7, <2>3 DEF Stored, Reply, acc
  <2>5. IsTable(source') /\ source'.schema = s
    BY <2>4 DEF Changed, ChangedAt
  <2> QED
    BY <1>7, <2>4, <2>5, OwnStep
<1> QED
  BY <1>4, <1>5, <1>6, <1>7

LEMMA InsertRowStep ==
  ASSUME TableInv, Began, NEW p \in Puts, InsertRow(p.key, p.values)
  PROVE  TableInv'
<1>1. Refuse \/ Upsert(p.key, p.values)
  BY DEF InsertRow
<1> QED
  BY <1>1, AnswerStep, UpsertRowStep

LEMMA DeleteRowStep ==
  ASSUME TableInv, Began, NEW key, DeleteRow(key)
  PROVE  TableInv'
<1> DEFINE s == source.schema
           rows == Without(source.rows, s, key)
           R == ReadRow(source, key)
<1>1. IsTable(source) /\ IsSchema(s)
  BY TableParts DEF TableInv
<1>2. \/ Refuse
      \/ view.kind = "table" /\ source.local /\ Stored([source EXCEPT !.rows = rows], TRUE)
      \/ view.kind = "table" /\ ~source.local /\ Stored(DeletedAll(SetToSeq(R)), TRUE)
  BY DEF DeleteRow, Deleted, DeletedAll
<1>3. CASE Refuse
  BY <1>3, AnswerStep
<1>4. CASE view.kind = "table" /\ source.local /\ Stored([source EXCEPT !.rows = rows], TRUE)
  <2> DEFINE all == source.rows
  <2>1. all \in SUBSET RowsOf(s.types) /\ IsFiniteSet(all) /\ Keyed(s, all)
    BY <1>1, TableParts
  <2>2. rows \in SUBSET all
    BY DEF Without
  <2> HIDE DEF rows
  <2>3. IsFiniteSet(rows) /\ Keyed(s, rows)
    <3> HIDE DEF all, s
    <3> QED
      BY <2>1, <2>2, SomeRows
  <2>4. source' = [source EXCEPT !.rows = rows] /\ view' = view /\ work' = Idle
    BY <1>4 DEF Stored, Reply
  <2>5. IsTable(source') /\ source'.schema = s
    BY <1>1, <1>4, <2>1, <2>2, <2>3, <2>4, LocalMade
  <2> QED
    BY <1>4, <2>4, <2>5, OwnStep
<1>5. CASE view.kind = "table" /\ ~source.local /\ Stored(DeletedAll(SetToSeq(R)), TRUE)
  <2>1. R \in SUBSET Visible(source)
    BY <1>1, VisibleMeans
  <2>2. Visible(source) \in SUBSET RowsOf(s.types) /\ IsFiniteSet(Visible(source))
    BY <1>1, VisibleRows
  <2> HIDE DEF R
  <2>3. R \in SUBSET RowsOf(s.types) /\ IsFiniteSet(R)
    BY <2>1, <2>2, FS_Subset
  <2> DEFINE K == {KeyOf(r) : r \in R}
             list == SetToSeq(R)
  <2>4. list \in Seq(R)
    BY <2>3, SetToSeqMeans
  <2>5. \A r \in R : KeyOf(r) \in K
    OBVIOUS
  <2> HIDE DEF K, list
  <2>6. DeletedAll(list) \in Changed(source, K)
    BY <1>1, <1>5, <2>3, <2>4, <2>5, DeletesMean
  <2>7. source' \in Changed(source, K) /\ view' = view /\ work' = Idle
    BY <1>5, <2>6 DEF Stored, Reply, list
  <2>8. IsTable(source') /\ source'.schema = s
    BY <2>7 DEF Changed, ChangedAt
  <2> QED
    BY <1>5, <2>7, <2>8, OwnStep
<1> QED
  BY <1>2, <1>3, <1>4, <1>5

\* One call of a route, or one step of a rewrite.
LEMMA RouteStep ==
  ASSUME TableInv, Next
  PROVE  TableInv'
<1> DEFINE s == source.schema
<1>1. IsTable(source) /\ IsSchema(s) /\ ViewOf(s, view)
  BY TableParts DEF TableInv
<1>2. \A range : Held(s, SliceTable(view, range, <<>>, FALSE))
  <2>1. ToSet(<<>>) = {} /\ <<>> \in Seq(Name) /\ FALSE \in BOOLEAN
    BY DEF ToSet
  <2> QED
    BY <1>1, <2>1, TableHeld
<1>3. Held(s, view)
  BY <1>1 DEF Held
<1>4. CASE Get
  <2>1. PICK v \in Selectors :
          /\ Began
          /\ \/ Hold(view)
             \/ Hold(SliceTable(view, Selector(view.schema, v).range, <<>>, FALSE))
             \/ \E answer : Tell(answer)
             \/ Refuse
    BY <1>4 DEF Get
  <2> QED
    BY <1>2, <1>3, <2>1, HoldStep, AnswerStep
<1>5. CASE Post
  <2>1. PICK v \in Selectors :
          /\ Began
          /\ \/ Refuse
             \/ Hold(SliceTable(view, CastIntoRange(view.schema, v).range, <<>>, FALSE))
    BY <1>5 DEF Post
  <2> QED
    BY <1>2, <2>1, HoldStep, AnswerStep
<1>6. CASE PutRange
  <2>1. PICK v \in Selectors, values \in Updates :
          Began /\ (Refuse \/ Update(Selector(view.schema, v).range, values))
    BY <1>6 DEF PutRange
  <2> QED
    BY <2>1, AnswerStep, UpdateStep
<1>7. CASE PutRow
  BY <1>7, UpsertRowStep DEF PutRow
<1>8. CASE Delete
  <2>1. PICK v \in Selectors :
          /\ Began
          /\ \/ Truncate(Selector(view.schema, v).range)
             \/ DeleteRow(Selector(view.schema, v).key)
             \/ Refuse
    BY <1>8 DEF Delete
  <2> QED
    BY <2>1, AnswerStep, TruncateStep, DeleteRowStep
<1>9. CASE Insert
  BY <1>9, InsertRowStep DEF Insert
<1>10. CASE Counting
  <2>1. Began /\ \E answer : Tell(answer)
    BY <1>10 DEF Counting
  <2> QED
    BY <2>1, AnswerStep
<1>11. CASE Limit
  <2>1. PICK n \in Limits : Began /\ Hold(LimitTable(view, n))
    BY <1>11 DEF Limit
  <2>2. n \in Nat
    BY TableAssumption
  <2>3. Held(s, LimitTable(view, n))
    BY <1>1, <2>2, TableHeld
  <2> QED
    BY <2>1, <2>3, HoldStep
<1>12. CASE Order
  <2>1. PICK o \in Orders :
          /\ Began /\ ToSet(o.columns) \subseteq ToSet(Columns(view.schema))
          /\ Hold(SliceTable(view, NoRange, o.columns, o.reverse))
    BY <1>12 DEF Order
  <2>2. o.columns \in Seq(Name) /\ o.reverse \in BOOLEAN
    BY TableAssumption
  <2>3. Held(s, SliceTable(view, NoRange, o.columns, o.reverse))
    BY <1>1, <2>1, <2>2, TableHeld
  <2> QED
    BY <2>1, <2>3, HoldStep
<1>13. CASE Select
  <2>1. PICK c \in ColumnLists : Began /\ Hold(SelectTable(view, c))
    BY <1>13 DEF Select
  <2>2. c \in Seq(Name)
    BY TableAssumption
  <2>3. Held(s, SelectTable(view, c))
    BY <1>1, <2>2, TableHeld
  <2> QED
    BY <2>1, <2>3, HoldStep
<1>14. CASE ViewSlice
  <2>1. PICK v \in Selectors :
          Began /\ view.kind = "slice" /\ Hold(Narrow(view, CastIntoRange(view.schema, v).range))
    BY <1>14 DEF ViewSlice
  <2> DEFINE new == Narrow(view, CastIntoRange(view.schema, v).range)
  <2>2. ViewOf(s, new)
    BY <1>1, <2>1, NarrowHeld
  <2> HIDE DEF new
  <2>3. Held(s, new)
    BY <2>2 DEF Held
  <2> QED
    BY <2>1, <2>3, HoldStep DEF new
<1>15. CASE ViewLimit
  <2>1. PICK n \in Limits : Began /\ view.kind = "slice" /\ Hold(LimitedOf(view, n))
    BY <1>15 DEF ViewLimit
  <2>2. n \in Nat
    BY TableAssumption
  <2> DEFINE new == LimitedOf(view, n)
  <2>3. ViewOf(s, new)
    BY <1>1, <2>1, <2>2, LimitedHeld
  <2> HIDE DEF new
  <2>4. Held(s, new)
    BY <2>3 DEF Held
  <2> QED
    BY <2>1, <2>4, HoldStep DEF new
<1>16. CASE ViewSelect
  <2>1. PICK c \in ColumnLists :
          Began /\ view.kind \in {"slice", "limited"} /\ Hold(SelectionOf(view, c))
    BY <1>16 DEF ViewSelect
  <2>2. c \in Seq(Name)
    BY TableAssumption
  <2>3. Held(s, SelectionOf(view, c))
    BY <1>1, <2>1, <2>2, SelectionHeld
  <2> QED
    BY <2>1, <2>3, HoldStep
<1> QED
  BY <1>4, <1>5, <1>6, <1>7, <1>8, <1>9, <1>10, <1>11, <1>12, <1>13, <1>14, <1>15, <1>16,
     DeleteStep, UpsertStep, DroppedStep DEF Next

\* The columns of a selection are of the table.
LEMMA SelectedPlaces ==
  ASSUME NEW s, IsSchema(s), NEW v, Selected(s, v)
  PROVE  /\ Known(s, v.columns) /\ IsSchema(v.schema)
         /\ Places(s, v.columns) \in Seq(1 .. Len(s.types))
         /\ Len(Places(s, v.columns)) = Len(v.schema.types)
         /\ DOMAIN Places(s, v.columns) = 1 .. Len(v.schema.types)
<1>1. /\ IsSchema(v.schema) /\ v.columns \in Seq(Name) /\ Len(v.schema.types) = Len(v.columns)
  BY DEF Selected
<1>2. PICK kept : Keeps(s, v, kept)
  BY DEF Selected
<1>3. Len(v.columns) \in Nat /\ DOMAIN v.columns = 1 .. Len(v.columns)
  BY <1>1
<1>4. \A j \in 1 .. Len(v.columns) : v.columns[j] \in ToSet(Columns(s))
  <2> DEFINE n == Len(s.types)
             W == 1 .. n
  <2>1. /\ kept \in Seq(W) /\ Len(kept) = Len(v.columns)
        /\ \A j \in 1 .. Len(kept) : v.columns[j] = Columns(s)[kept[j]]
    BY <1>2 DEF Keeps
  <2>2. DOMAIN Columns(s) = 1 .. n
    BY SchemaParts
  <2> HIDE DEF W
  <2>3. \A j \in 1 .. Len(kept) : kept[j] \in W
    BY <2>1
  <2> QED
    BY <2>1, <2>2, <2>3 DEF ToSet, W
<1>5. Known(s, v.columns)
  BY <1>1, <1>3, <1>4 DEF Known, ToSet
<1>6. Places(s, v.columns) \in Seq(1 .. Len(s.types))
  BY <1>5, PlacesMean
<1>7. DOMAIN Places(s, v.columns) = 1 .. Len(v.columns)
  BY <1>3 DEF Places
<1>8. Len(Places(s, v.columns)) = Len(v.columns)
  <2> DEFINE p == Places(s, v.columns)
             W == 1 .. Len(s.types)
  <2>1. p \in Seq(W)
    BY <1>6
  <2> HIDE DEF p, W
  <2>2. Len(p) \in Nat /\ DOMAIN p = 1 .. Len(p)
    BY <2>1
  <2>3. DOMAIN p = 1 .. Len(v.columns)
    BY <1>7 DEF p
  <2> QED
    BY <1>3, <2>2, <2>3 DEF p
<1> QED
  BY <1>1, <1>5, <1>6, <1>7, <1>8

\* What a view shows of any table.
LongRows(n) == {r \in Seq(AllCells) : Len(r) = n}
LEMMA ViewRows ==
  ASSUME NEW t, IsTable(t), NEW v, ViewOf(t.schema, v)
  PROVE  /\ Slice(t, v) \in Seq(RowsOf(t.schema.types))
         /\ Take(Slice(t, v), v.limit) \in Seq(RowsOf(t.schema.types))
         /\ Rows(t, v) \in Seq(LongRows(Len(v.schema.types)))
         /\ IsSchema(v.schema)
<1> DEFINE s == t.schema
           U == RowsOf(s.types)
           a == Slice(t, v)
           c == Take(a, v.limit)
           m == Len(v.schema.types)
<1>1. IsSchema(s) /\ s.types \in Seq(CellClass)
  BY TableParts, SchemaParts
<1>2. a \in Seq(U)
  <2> DEFINE R == {r \in t.inserts \cup t.rows : Admits(s, v.range, r)}
  <2>1. a \in Seq(R)
    BY SourceRowsFrom DEF ViewOf, Slice
  <2>2. R \in SUBSET U
    BY TableParts
  <2> HIDE DEF a, R, U
  <2>3. Len(a) \in Nat /\ a \in [1 .. Len(a) -> R]
    BY <2>1
  <2>4. a \in [1 .. Len(a) -> U]
    BY <2>2, <2>3
  <2> QED
    BY <2>3, <2>4, FunctionIsSeq
<1> HIDE DEF a, U
<1>3. c \in Seq(U)
  <2>1. v.limit \in Nat \cup {NoLimit}
    BY DEF ViewOf
  <2> QED
    BY <1>2, <2>1, TakeMeans
<1> HIDE DEF c
<1>4. Len(c) \in Nat /\ \A i \in 1 .. Len(c) : c[i] \in U
  BY <1>3
<1>5. CASE v.kind # "selection"
  <2>1. Rows(t, v) = c /\ v.schema = s
    BY <1>5 DEF Rows, ViewOf, c, a
  <2>2. U \in SUBSET LongRows(m)
    BY <2>1 DEF U, RowsOf, LongRows, Fits
  <2> DEFINE L == LongRows(m)
  <2>3. c \in [1 .. Len(c) -> U]
    BY <1>3
  <2> HIDE DEF L
  <2>4. c \in [1 .. Len(c) -> L]
    BY <2>2, <2>3 DEF L
  <2>5. c \in Seq(L)
    BY <1>4, <2>4, FunctionIsSeq
  <2> QED
    BY <1>1, <1>2, <1>3, <2>1, <2>5 DEF a, c, U, L
<1>6. CASE v.kind = "selection"
  <2> DEFINE p == Pick(t, c, v.columns)
             places == Places(s, v.columns)
             L == LongRows(m)
             n == Len(s.types)
             V == 1 .. n
  <2>1. Rows(t, v) = p /\ Selected(s, v)
    BY <1>6 DEF Rows, ViewOf, c, a
  <2>2. IsSchema(v.schema) /\ places \in Seq(V) /\ Len(places) = m /\ DOMAIN places = 1 .. m
    BY <1>1, <2>1, SelectedPlaces
  <2>3. m \in Nat
    BY <2>2, SchemaParts
  <2>4. /\ Len(p) = Len(c) /\ p \in Seq({p[i] : i \in 1 .. Len(c)})
        /\ \A i \in 1 .. Len(c) : p[i] = PickedRow(t, c[i], v.columns)
    <3>1. Picks(t, c, v.columns)
      BY <1>3, PickMeans
    <3> HIDE DEF p, places
    <3> QED
      BY <3>1 DEF Picks, p
  <2> HIDE DEF p, places, m, V
  <2>5. \A j \in 1 .. m : places[j] \in V
    BY <2>2
  <2>6. \A i \in 1 .. Len(c) : p[i] \in L
    <3> TAKE i \in 1 .. Len(c)
    <3>1. \A k \in 1 .. n : c[i][k] \in AllCells
      BY <1>1, <1>4, RowMeans DEF U
    <3>2. p[i] = [j \in 1 .. m |-> c[i][places[j]]]
      BY <2>2, <2>4 DEF PickedRow, places
    <3> DEFINE x == p[i]
    <3>3. x \in [1 .. m -> AllCells]
      BY <2>5, <3>1, <3>2 DEF V
    <3> HIDE DEF x
    <3>4. x \in Seq(AllCells) /\ Len(x) = m
      BY <2>3, <3>3, FunctionIsSeq
    <3> QED
      BY <3>4 DEF LongRows, x
  <2> HIDE DEF L
  <2>7. p \in [1 .. Len(c) -> L]
    <3>1. p = [i \in 1 .. Len(c) |-> p[i]]
      BY <1>4, <2>4
    <3> QED
      BY <2>6, <3>1
  <2>8. p \in Seq(L)
    BY <1>4, <2>7, FunctionIsSeq
  <2> QED
    BY <1>2, <1>3, <2>1, <2>2, <2>8 DEF a, c, U, L, m
<1> QED
  BY <1>5, <1>6

LEMMA CopyStep ==
  ASSUME TableInv, CopyTable
  PROVE  TableInv'
<1> DEFINE s == view.schema
           rows == Rows(source, view)
           copy == CopyInto(source, view)
           new == Loaded(s, rows)
           table == [schema |-> s, local |-> FALSE, rows |-> new, inserts |-> {}, deletes |-> {}]
           L == LongRows(Len(s.types))
<1>1. rows \in Seq(L) /\ IsSchema(s)
  BY ViewRows DEF TableInv
<1>2. copy = IF \A i \in DOMAIN rows : Parted(s, Key(s, rows[i]), Values(s, rows[i]))
               THEN [ok |-> TRUE, rows |-> new] ELSE [ok |-> FALSE, rows |-> {}]
  BY DEF CopyInto, Parted, Loaded
<1> HIDE DEF rows
<1>3. /\ copy.ok /\ work' = Idle /\ view' = TableView(source')
      /\ source' = [schema |-> s, local |-> FALSE, rows |-> copy.rows, inserts |-> {}, deletes |-> {}]
  BY DEF CopyTable
<1> HIDE DEF copy
<1>4. /\ \A i \in DOMAIN rows : Parted(s, Key(s, rows[i]), Values(s, rows[i]))
      /\ copy.rows = new
  BY <1>2, <1>3
<1>5. ToSet(rows) \in SUBSET RowsOf(s.types)
  <2> HIDE DEF L
  <2>1. Len(rows) \in Nat /\ DOMAIN rows = 1 .. Len(rows) /\ \A i \in 1 .. Len(rows) : rows[i] \in L
    BY <1>1
  <2>2. \A i \in 1 .. Len(rows) : rows[i] \in RowsOf(s.types)
    <3> TAKE i \in 1 .. Len(rows)
    <3> DEFINE r == rows[i]
    <3>1. Parted(s, Key(s, r), Values(s, r)) /\ r \in Seq(AllCells) /\ Len(r) = Len(s.types)
      BY <1>4, <2>1 DEF L, LongRows
    <3> HIDE DEF r, s
    <3>2. r \in RowsOf(s.types)
      BY <1>1, <3>1, FitIsParts
    <3> QED
      BY <3>2 DEF r
  <2> QED
    BY <2>1, <2>2 DEF ToSet
<1>6. new \in SUBSET ToSet(rows) /\ IsFiniteSet(new) /\ Keyed(s, new)
  <2> HIDE DEF s, L
  <2> QED
    BY <1>1, LoadMeans
<1> HIDE DEF s, new
<1>7. /\ table.schema = s /\ table.local = FALSE /\ table.rows = new
      /\ table.inserts = {} /\ table.deletes = {} /\ source' = table
      /\ table = [schema |-> table.schema, local |-> table.local, rows |-> table.rows,
                  inserts |-> table.inserts, deletes |-> table.deletes]
  BY <1>3, <1>4
<1> HIDE DEF table
<1>8. IsTable(table)
  <2>1. \A x \in {table.rows, table.inserts, table.deletes} :
          x \in SUBSET RowsOf(table.schema.types) /\ IsFiniteSet(x) /\ Keyed(table.schema, x)
    BY <1>5, <1>6, <1>7, FS_EmptySet DEF Keyed
  <2>2. /\ IsSchema(table.schema) /\ table.local \in BOOLEAN
        /\ \A r \in table.inserts, x \in table.deletes : Key(table.schema, r) # Key(table.schema, x)
        /\ table.local => table.inserts = {} /\ table.deletes = {}
    BY <1>1, <1>7
  <2> QED
    BY <1>7, <2>1, <2>2, TableMade
<1>9. IsTable(source') /\ ViewOf(source'.schema, view') /\ view'.kind = "table"
  <2>1. ViewOf(table.schema, TableView(table)) /\ TableView(table).kind = "table"
    BY <1>1, <1>7, WholeView
  <2> QED
    BY <1>3, <1>7, <1>8, <2>1
<1>10. WorkShape' /\ ~Rewrote'
  BY <1>3 DEF WorkShape, Rewrote, Idle
<1>11. WritesStayInside'
  BY <1>9 DEF WritesStayInside
<1> QED
  BY <1>9, <1>10, <1>11 DEF TableInv

\* Schemas that are written as the same value have the same types and the same key.
LEMMA SameValue ==
  ASSUME NEW s, IsSchema(s), NEW t, IsSchema(t), SchemaToValue(s) = SchemaToValue(t)
  PROVE  s.types = t.types /\ KeyLen(s) = KeyLen(t)
<1> DEFINE Cols(x) == Each(ColumnToValue, ColumnSchema(x))
           K(x) == SubSeq(Cols(x), 1, KeyLen(x))
           V(x) == SubSeq(Cols(x), KeyLen(x) + 1, Len(Cols(x)))
           I(x) == [i \in DOMAIN x.indices |-> IndexToValue(x, x.indices[i])]
<1>1. \A x : SchemaToValue(x) = Tup(<<Tup(<<Tup(K(x)), Tup(V(x))>>), Tup(I(x))>>)
  BY DEF SchemaToValue
<1> HIDE DEF Cols, K, V, I
<1>2. \A a, b : Tup(a) = Tup(b) => a = b
  <2> TAKE a, b
  <2> HAVE Tup(a) = Tup(b)
  <2>1. Tup(a).tuple = a /\ Tup(b).tuple = b
    BY DEF Tup
  <2> QED
    BY <2>1
<1>3. K(s) = K(t) /\ V(s) = V(t)
  <2>1. <<Tup(<<Tup(K(s)), Tup(V(s))>>), Tup(I(s))>> = <<Tup(<<Tup(K(t)), Tup(V(t))>>), Tup(I(t))>>
    BY <1>1, <1>2
  <2>2. Tup(<<Tup(K(s)), Tup(V(s))>>) = Tup(<<Tup(K(t)), Tup(V(t))>>)
    BY <2>1
  <2>3. <<Tup(K(s)), Tup(V(s))>> = <<Tup(K(t)), Tup(V(t))>>
    BY <1>2, <2>2
  <2>4. Tup(K(s)) = Tup(K(t)) /\ Tup(V(s)) = Tup(V(t))
    BY <2>3
  <2> QED
    BY <1>2, <2>4
<1> DEFINE W == {ColumnToValue([name |-> n, class |-> c]) : n \in Name, c \in CellClass}
           Cell(x, i) == ColumnToValue(ColumnSchema(x)[i])
<1> DEFINE Fine(x) ==
             /\ KeyLen(x) \in Nat /\ Len(x.types) \in Nat /\ KeyLen(x) <= Len(x.types)
             /\ Len(K(x)) = KeyLen(x) /\ Len(V(x)) = Len(x.types) - KeyLen(x)
             /\ \A i \in 1 .. KeyLen(x) : K(x)[i] = Cell(x, i)
             /\ \A i \in 1 .. (Len(x.types) - KeyLen(x)) : V(x)[i] = Cell(x, KeyLen(x) + i)
             /\ \A i \in 1 .. Len(x.types) : ColumnSchema(x)[i].class = x.types[i]
             /\ x.types = [i \in 1 .. Len(x.types) |-> x.types[i]]
<1>4. ASSUME NEW x, IsSchema(x) PROVE Fine(x)
  <2> DEFINE n == Len(x.types)
             k == KeyLen(x)
             all == Cols(x)
             A == {all[i] : i \in 1 .. n}
  <2>1. /\ DOMAIN ColumnSchema(x) = 1 .. n /\ x.types \in Seq(CellClass)
        /\ \A i \in 1 .. n : ColumnSchema(x)[i].class = x.types[i]
        /\ k \in Nat /\ k >= 1 /\ k <= n
    BY <1>4, ColumnsFine, SchemaParts
  <2>2. n \in Nat /\ x.types = [i \in 1 .. n |-> x.types[i]]
    BY <2>1
  <2>3. all = [i \in 1 .. n |-> Cell(x, i)]
    BY <2>1 DEF Cols, Each
  <2> HIDE DEF all, n, k, Cell
  <2>4. \A i \in 1 .. n : all[i] = Cell(x, i)
    BY <2>3
  <2>5. all \in [1 .. n -> A]
    BY <2>3, <2>4
  <2> HIDE DEF A
  <2>6. all \in Seq(A) /\ Len(all) = n
    BY <2>2, <2>5, FunctionIsSeq
  <2>7. /\ Len(SubSeq(all, 1, k)) = k + 1 - 1
        /\ \A i \in 1 .. (k + 1 - 1) : SubSeq(all, 1, k)[i] = all[1 + i - 1]
    BY <2>1, <2>2, <2>6, SubSeqMeans
  <2>8. /\ Len(SubSeq(all, k + 1, n)) = n + 1 - (k + 1)
        /\ \A i \in 1 .. (n + 1 - (k + 1)) : SubSeq(all, k + 1, n)[i] = all[(k + 1) + i - 1]
    BY <2>1, <2>2, <2>6, SubSeqMeans
  <2>9. k + 1 - 1 = k /\ n + 1 - (k + 1) = n - k
        /\ (\A i \in 1 .. k : 1 + i - 1 = i /\ i \in 1 .. n)
        /\ \A i \in 1 .. (n - k) : (k + 1) + i - 1 = k + i /\ k + i \in 1 .. n
    BY <2>1, <2>2
  <2>10. K(x) = SubSeq(all, 1, k) /\ V(x) = SubSeq(all, k + 1, n)
    BY <2>6 DEF K, V, all, k
  <2>11. \A i \in 1 .. k : K(x)[i] = Cell(x, i)
    BY <2>4, <2>7, <2>9, <2>10
  <2>12. \A i \in 1 .. (n - k) : V(x)[i] = Cell(x, k + i)
    BY <2>4, <2>8, <2>9, <2>10
  <2> QED
    BY <2>1, <2>2, <2>7, <2>8, <2>9, <2>10, <2>11, <2>12 DEF n, k
<1>5. \A a, b : ColumnToValue(a) = ColumnToValue(b) => a.class = b.class
  <2> TAKE a, b
  <2> HAVE ColumnToValue(a) = ColumnToValue(b)
  <2>1. <<Str(a.name), Type(a.class)>> = <<Str(b.name), Type(b.class)>>
    BY <1>2 DEF ColumnToValue
  <2>2. Type(a.class) = Type(b.class)
    BY <2>1
  <2>3. Type(a.class).type = a.class /\ Type(b.class).type = b.class
    BY DEF Type
  <2> QED
    BY <2>2, <2>3
<1> HIDE DEF Fine
<1>10. Fine(s) /\ Fine(t)
  BY <1>4
<1> DEFINE n == Len(s.types)
           k == KeyLen(s)
<1>6. /\ k \in Nat /\ n \in Nat /\ k <= n /\ KeyLen(t) = k /\ Len(t.types) = n
  <2> HIDE DEF Cell
  <2> QED
    BY <1>3, <1>10 DEF Fine
<1>7. \A i \in 1 .. n : Cell(s, i) = Cell(t, i)
  <2> TAKE i \in 1 .. n
  <2> HIDE DEF Cell, n, k
  <2>3. /\ \A j \in 1 .. k : K(s)[j] = Cell(s, j) /\ K(t)[j] = Cell(t, j)
        /\ \A j \in 1 .. (n - k) : V(s)[j] = Cell(s, k + j) /\ V(t)[j] = Cell(t, k + j)
    BY <1>6, <1>10 DEF Fine, n, k
  <2>1. CASE i \in 1 .. k
    BY <1>3, <2>1, <2>3
  <2>2. CASE ~(i \in 1 .. k)
    <3>1. i - k \in 1 .. (n - k) /\ k + (i - k) = i
      BY <1>6, <2>2
    <3>2. V(s)[i - k] = Cell(s, k + (i - k))
      BY <2>3, <3>1
    <3>3. V(t)[i - k] = Cell(t, k + (i - k))
      BY <2>3, <3>1
    <3> QED
      BY <1>3, <3>1, <3>2, <3>3
  <2> QED
    BY <2>1, <2>2
<1>8. \A i \in 1 .. n : s.types[i] = t.types[i]
  BY <1>5, <1>6, <1>7, <1>10 DEF Fine
<1>9. s.types = [i \in 1 .. n |-> s.types[i]] /\ t.types = [i \in 1 .. n |-> t.types[i]]
  BY <1>6, <1>10 DEF Fine
<1> HIDE DEF n
<1> QED
  BY <1>6, <1>8, <1>9

LEMMA RestoreStep ==
  ASSUME TableInv, class = "table", RestoreTable
  PROVE  TableInv'
<1> DEFINE s == source.schema
           U == RowsOf(s.types)
<1>1. PICK other \in Sources :
        /\ Began /\ IsPersistent /\ ~other.local
        /\ SchemaToValue(other.schema) = SchemaToValue(s)
        /\ source' = [source EXCEPT
             !.inserts = Visible(other),
             !.deletes = {r \in source.rows : \A x \in Visible(other) : KeyOf(x) # KeyOf(r)}]
        /\ Reply("restored") /\ work' = Idle
  BY DEF RestoreTable
<1> DEFINE ins == Visible(other)
           del == {r \in source.rows : \A x \in ins : Key(s, x) # Key(s, r)}
           K == {Key(s, r) : r \in U}
           new == [schema |-> s, local |-> source.local, rows |-> source.rows,
                   inserts |-> ins, deletes |-> del]
<1>2. /\ view.kind = "table" /\ ~source.local /\ view' = view
  BY <1>1 DEF IsPersistent, Reply
<1>3. /\ IsTable(source) /\ IsSchema(s) /\ IsTable(other) /\ IsSchema(other.schema)
  BY TableAssumption, TableParts DEF TableInv
<1>4. other.schema.types = s.types /\ KeyLen(other.schema) = KeyLen(s)
  BY <1>1, <1>3, SameValue
<1>5. \A r : Key(other.schema, r) = Key(s, r)
  BY <1>4 DEF Key
<1>6. ins \in SUBSET U /\ IsFiniteSet(ins) /\ Keyed(s, ins)
  <2>1. /\ Visible(other) \in SUBSET RowsOf(other.schema.types)
        /\ IsFiniteSet(Visible(other)) /\ Keyed(other.schema, Visible(other))
    BY <1>3, VisibleRows
  <2> HIDE DEF s
  <2> QED
    BY <1>4, <1>5, <2>1 DEF Keyed
<1>7. source.rows \in SUBSET U /\ IsFiniteSet(source.rows) /\ Keyed(s, source.rows)
      /\ source.inserts \in SUBSET U /\ source.deletes \in SUBSET U
  BY <1>3, TableParts
<1> HIDE DEF ins
<1>8. del \in SUBSET U /\ IsFiniteSet(del) /\ Keyed(s, del)
      /\ \A r \in ins, x \in del : Key(s, r) # Key(s, x)
  <2> DEFINE all == source.rows
  <2>1. del \in SUBSET all /\ \A r \in ins, x \in del : Key(s, r) # Key(s, x)
    OBVIOUS
  <2> HIDE DEF del
  <2>2. IsFiniteSet(del) /\ Keyed(s, del)
    <3> HIDE DEF all, s, U
    <3>1. IsFiniteSet(all) /\ Keyed(s, all)
      BY <1>7 DEF all
    <3> QED
      BY <2>1, <3>1, SomeRows
  <2> QED
    BY <1>7, <2>1, <2>2
<1>9. source' = new
  <2>1. source' = [source EXCEPT !.inserts = ins, !.deletes = del]
    BY <1>1 DEF KeyOf, ins
  <2> HIDE DEF del
  <2> DEFINE l0 == source.local
             c0 == source.rows
             i0 == source.inserts
             d0 == source.deletes
             w == [source EXCEPT !.inserts = ins]
  <2>2. source = [schema |-> s, local |-> l0, rows |-> c0, inserts |-> i0, deletes |-> d0]
    BY <1>3 DEF IsTable
  <2> HIDE DEF s, l0, c0, i0, d0
  <2>3. w = [schema |-> s, local |-> l0, rows |-> c0, inserts |-> ins, deletes |-> d0]
    BY <2>2
  <2> HIDE DEF w
  <2>4. [w EXCEPT !.deletes = del]
          = [schema |-> s, local |-> l0, rows |-> c0, inserts |-> ins, deletes |-> del]
    BY <2>3
  <2>5. source' = [w EXCEPT !.deletes = del]
    BY <2>1 DEF w
  <2> QED
    BY <2>4, <2>5 DEF l0, c0, s
<1> HIDE DEF del
<1>10. \A r : Key(s, r) \notin K => /\ r \in ins <=> r \in source.inserts
                                    /\ r \in del <=> r \in source.deletes
  <2>1. \A r : Key(s, r) \notin K => r \notin U
    OBVIOUS
  <2> QED
    BY <1>6, <1>7, <1>8, <2>1
<1> HIDE DEF K
<1>11. new \in Changed(source, K)
  BY <1>2, <1>3, <1>6, <1>8, <1>10, ChangedMade
<1>12. IsTable(source') /\ source'.schema = s
  BY <1>9, <1>11 DEF Changed, ChangedAt
<1> QED
  BY <1>1, <1>2, <1>12, OwnStep

LEMMA RoutesInit ==
  ASSUME Init
  PROVE  TableInv
<1>1. IsTable(source) /\ view = TableView(source) /\ work = Idle
  BY TableAssumption DEF Init
<1>2. ViewOf(source.schema, view) /\ view.kind = "table"
  BY <1>1, TableParts, WholeView
<1>3. WorkShape /\ ~Rewrote
  BY <1>1 DEF WorkShape, Rewrote, Idle
<1>4. WritesStayInside
  BY <1>2 DEF WritesStayInside
<1> QED
  BY <1>1, <1>2, <1>3, <1>4 DEF TableInv

LEMMA TableInvariance == CollectionSpec => []TableInv
<1>1. CollectionInit => TableInv
  BY RoutesInit DEF CollectionInit
<1>2. TableInv /\ [CollectionNext]_collectionVars => TableInv'
  <2> SUFFICES ASSUME TableInv, [CollectionNext]_collectionVars PROVE TableInv'
    OBVIOUS
  <2>1. CASE UNCHANGED vars
    <3>1. source' = source /\ view' = view /\ work' = work /\ was' = was
      BY <2>1 DEF vars
    <3>2. IsTable(source)' /\ ViewOf(source.schema, view)' /\ WorkShape'
      BY <3>1 DEF TableInv, WorkShape
    <3>3. Rewrote' => Rewriting'
      <4>1. ASSUME Rewrote' PROVE Rewriting
        BY <3>1, <4>1 DEF TableInv, Rewrote
      <4>2. ASSUME Rewriting PROVE Rewriting'
        BY <3>1, <4>2 DEF Rewriting, Kept, KeyOf
      <4> QED
        BY <4>1, <4>2
    <3>4. WritesStayInside'
      <4>1. WritesStayInside
        BY DEF TableInv
      <4> SUFFICES ASSUME view'.kind = "slice", Exact(view.range)'
                   PROVE  LET inside == {r \in was' : Admits(source'.schema, view'.range, r)}
                          IN  /\ was' \ Visible(source') \subseteq inside
                              /\ \A r \in Visible(source') \ was' :
                                   \/ Admits(source'.schema, view'.range, r)
                                   \/ \E x \in inside : Key(source'.schema, x) = Key(source'.schema, r)
        BY DEF WritesStayInside, KeyOf
      <4>2. view.kind = "slice" /\ Exact(view.range)
        BY <3>1 DEF Exact
      <4>3. LET inside == {r \in was : Admits(source.schema, view.range, r)}
            IN  /\ was \ Visible(source) \subseteq inside
                /\ \A r \in Visible(source) \ was :
                     \/ Admits(source.schema, view.range, r)
                     \/ \E x \in inside : Key(source.schema, x) = Key(source.schema, r)
        BY <4>1, <4>2 DEF WritesStayInside, KeyOf
      <4> QED
        BY <3>1, <4>3
    <3> QED
      BY <3>2, <3>3, <3>4 DEF TableInv
  <2>2. CASE class = "table" /\ (Next \/ CopyTable \/ RestoreTable)
    BY <2>2, RouteStep, CopyStep, RestoreStep
  <2> QED
    BY <2>1, <2>2 DEF CollectionNext, collectionVars
<1> QED
  BY <1>1, <1>2, PTL DEF CollectionSpec

\* Whatever the calls, the caller holds a table or a view of it with a schema of its
\* columns, and every table keeps one row for each key, of the types of its schema.
THEOREM RoutesKeepTypes == CollectionSpec => []TypeOK
<1>1. TableInv => TypeOK
  <2> SUFFICES ASSUME TableInv PROVE TypeOK
    OBVIOUS
  <2>1. \A rows \in {source.rows, source.inserts, source.deletes} :
          rows \in SUBSET RowsOf(source.schema.types) /\ Keyed(source.schema, rows)
    BY TableParts DEF TableInv
  <2>2. \A rows \in {source.rows, source.inserts, source.deletes} :
          OneRowPerKey(rows) /\ \A r \in rows : RowFits(r)
    BY <2>1 DEF OneRowPerKey, Keyed, KeyOf, RowsOf, RowFits
  <2>3. /\ view.kind \in {"table", "slice", "limited", "selection"}
        /\ view.kind = "selection" => Columns(view.schema) = view.columns
        /\ work.phase \in {"idle", "delete", "upsert"}
    BY DEF TableInv, ViewOf, Selected, WorkShape
  <2> QED
    BY <2>2, <2>3 DEF TypeOK
<1> QED
  BY <1>1, TableInvariance, PTL

\* Writes through a slice, at any number of rows and wherever a rewrite is dropped,
\* leave every row outside its range as it was.
THEOREM SlicesConfineWrites == CollectionSpec => []WritesStayInside
<1>1. TableInv => WritesStayInside
  BY DEF TableInv
<1> QED
  BY <1>1, TableInvariance, PTL

\* An update of a local table that is dropped has lost one row at most.
THEOREM DroppedRewriteLosesOne == CollectionSpec => []RewriteLosesOneRow
<1>1. TableInv => RewriteLosesOneRow
  <2> SUFFICES ASSUME TableInv, work.updating PROVE RewriteLosesOneRow
    BY DEF RewriteLosesOneRow
  <2>1. Rewriting
    BY DEF TableInv, Rewrote
  <2>2. source.rows \subseteq was \cup ToSet(work.goal)
    BY <2>1 DEF Rewriting
  <2> DEFINE gone == {KeyOf(r) : r \in was} \ {KeyOf(r) : r \in source.rows}
  <2>3. PICK key : Kept(source.rows, key)
    BY <2>1 DEF Rewriting
  <2>4. gone \in SUBSET {key}
    BY <2>3 DEF Kept
  <2> HIDE DEF gone
  <2>5. gone = {} \/ gone = {key}
    BY <2>4
  <2>6. Cardinality(gone) <= 1
    <3>1. CASE gone = {}
      <4>1. Cardinality({}) = 0
        BY FS_EmptySet
      <4> QED
        BY <3>1, <4>1
    <3>2. CASE gone = {key}
      <4>1. Cardinality({key}) = 1
        BY FS_Singleton
      <4> QED
        BY <3>2, <4>1
    <3> QED
      BY <2>5, <3>1, <3>2
  <2> QED
    BY <2>2, <2>6 DEF RewriteLosesOneRow, gone
<1> QED
  BY <1>1, TableInvariance, PTL

\* count, is_empty and the streams of every view tell of the same rows.
THEOREM CountsAgree == CollectionSpec => []CountIsRows
<1>1. TableInv => CountIsRows
  <2> SUFFICES ASSUME TableInv, Natural, ~(view.kind = "selection" /\ view.limit # NoLimit)
               PROVE  Counts(source, view)
    BY DEF CountIsRows, Counts
  <2>1. IsTable(source) /\ ViewOf(source.schema, view) /\ HasNatural(source, view.order)
    BY DEF TableInv, Natural, HasNatural
  <2> QED
    BY <2>1, CountMeans
<1> QED
  BY <1>1, TableInvariance, PTL

\* Keys of a tree that are not in reverse order are ascending.
LEMMA ShownAscending ==
  ASSUME NEW S, NEW down, down = FALSE
  PROVE  Shown(S, down) = Ascending(S)
<1>1. Shown(S, down) = CHOOSE s \in [1 .. Cardinality(S) -> S] :
         \A i, j \in DOMAIN s : i < j => IF down THEN s[i] > s[j] ELSE s[i] < s[j]
  BY DEF Shown, Sorted
<1>2. Ascending(S) = CHOOSE s \in [1 .. Cardinality(S) -> S] :
         \A i, j \in DOMAIN s : i < j => s[i] < s[j]
  BY DEF Ascending, Sorted
<1>3. \A s \in [1 .. Cardinality(S) -> S] :
        (\A i, j \in DOMAIN s : i < j => IF down THEN s[i] > s[j] ELSE s[i] < s[j])
        <=> (\A i, j \in DOMAIN s : i < j => s[i] < s[j])
  OBVIOUS
<1> QED
  BY <1>1, <1>2, <1>3

LEMMA PersistentTable ==
  ASSUME TableInv, view.kind = "table", ~source.local
  PROVE  Rows(source, view) = RowStream(source.schema, Visible(source), NoRange, <<>>, FALSE)
<1> DEFINE s == source.schema
           U == RowsOf(s.types)
           p == ReadPlaces(source, <<>>)
           V == Visible(source)
           read == SourceRows(source, NoRange, <<>>, FALSE)
           stream == RowStream(s, V, NoRange, <<>>, FALSE)
<1>1. /\ IsTable(source) /\ ViewOf(s, view) /\ IsSchema(s)
      /\ view.range = NoRange /\ view.order = <<>> /\ view.reverse = FALSE /\ view.limit = NoLimit
  BY TableParts DEF TableInv, ViewOf
<1>2. Rows(source, view) = read
  BY <1>1 DEF Rows, Take, Slice
<1>3. Known(s, <<>>) /\ HasNatural(source, <<>>)
  BY <1>1, NaturalPlaces DEF HasNatural
<1>4. V = Met(source, NoRange) /\ V \in SUBSET U /\ IsFiniteSet(V) /\ Keyed(s, V)
  BY <1>1, VisibleMeans, VisibleRows
<1>5. OrdersRows(U, p, FALSE) /\ Streams(read, V, p, FALSE)
  BY <1>1, <1>3, <1>4, SourceRowsMean
<1>6. Admitting(s, V, NoRange) = V
  BY DEF Admitting, Admits, NoRange
<1>7. Streams(stream, V, p, FALSE)
  <2> HIDE DEF V
  <2>1. Streams(stream, Admitting(s, V, NoRange), StreamPlaces(s, <<>>), FALSE)
    BY <1>1, <1>3, <1>4, RowStreamMeans
  <2> QED
    BY <1>6, <2>1 DEF ReadPlaces
<1> HIDE DEF U, p, V, read, stream
<1>8. read = stream
  BY <1>4, <1>5, <1>7, StreamsUnique
<1> QED
  BY <1>2, <1>8 DEF stream, V, s

\* Where a collection may be restored from or into, it shows every key or row.
THEOREM PersistentCollectionsAreWhole == CollectionSpec => []PersistentIsWhole
<1>1. TreeInv /\ TableInv => PersistentIsWhole
  <2> SUFFICES ASSUME TreeInv, TableInv, IsPersistent
               PROVE  IF class = "btree" THEN KeysIn(btree) = Ascending(keys)
                      ELSE Rows(source, view)
                             = RowStream(source.schema, Visible(source), NoRange, <<>>, FALSE)
    BY DEF PersistentIsWhole
  <2>1. CASE class = "btree"
    <3>1. btree.lower = Unbounded /\ btree.upper = Unbounded /\ btree.reverse = FALSE
      BY <2>1 DEF IsPersistent, WholeOwner, TreeInv
    <3>2. keys \cap Admitted(btree.lower, btree.upper) = keys
      BY <3>1 DEF TreeInv, Admitted
    <3>3. KeysIn(btree) = Shown(keys, btree.reverse)
      BY <3>2 DEF KeysIn, Shown
    <3> QED
      BY <2>1, <3>1, <3>3, ShownAscending
  <2>2. CASE class # "btree"
    BY <2>2, PersistentTable DEF IsPersistent
  <2> QED
    BY <2>1, <2>2
<1> QED
  BY <1>1, TreeInvariance, TableInvariance, PTL

-----------------------------------------------------------------------------
(* Indices. *)

\* What new was given of the indices of a schema.
Made(s) ==
  [i \in DOMAIN s.indices |->
     [name |-> s.indices[i].name, columns |-> NamedBy(s, s.indices[i])]]

\* The last column of a name.
FoundAt(all, name) == SelectLastInSeq(all, LAMBDA c : c.name = name)

LEMMA FoundMeans ==
  ASSUME NEW V, NEW all \in Seq(V), NEW name, \E i \in 1 .. Len(all) : all[i].name = name
  PROVE  FoundAt(all, name) \in 1 .. Len(all) /\ all[FoundAt(all, name)].name = name
<1> DEFINE I == {i \in 1 .. Len(all) : all[i].name = name}
<1>1. FoundAt(all, name) = IF I # {} THEN CHOOSE i \in I : \A j \in I : i >= j ELSE 0
  BY DEF FoundAt, SelectLastInSeq, Max
<1>2. Len(all) \in Nat /\ I # {} /\ I \in SUBSET (1 .. Len(all))
  OBVIOUS
<1>3. \E i \in I : \A j \in I : i >= j
  <2> DEFINE n == Len(all)
             J == {n - i : i \in I}
  <2> HIDE DEF n, I
  <2>1. n \in Nat /\ I # {} /\ I \in SUBSET (1 .. n)
    BY <1>2 DEF n
  <2>2. J \in SUBSET Nat /\ J # {}
    <3>1. \A i \in I : n - i \in Nat
      <4> TAKE i \in I
      <4>1. i \in 1 .. n
        BY <2>1
      <4> QED
        BY <2>1, <4>1
    <3>2. PICK i \in I : TRUE
      BY <2>1
    <3>3. n - i \in J
      BY <3>2
    <3> QED
      BY <3>1, <3>3
  <2> HIDE DEF J
  <2>3. PICK m \in J : \A x \in J : m <= x
    BY <2>2, LeastNumber
  <2>4. PICK i \in I : m = n - i
    BY <2>3 DEF J
  <2>5. ASSUME NEW j \in I PROVE i >= j
    <3>1. n - i <= n - j
      BY <2>3, <2>4 DEF J
    <3>2. i \in Int /\ j \in Int /\ n \in Int
      BY <2>1
    <3> QED
      BY <3>1, <3>2
  <2> QED
    BY <2>5
<1>4. FoundAt(all, name) \in I
  <2> HIDE DEF I
  <2> QED
    BY <1>1, <1>2, <1>3
<1> QED
  BY <1>4

\* A schema holds the columns and the indices that new was given.
LEMMA SchemaFixed ==
  ASSUME NEW s, IsSchema(s)
  PROVE  /\ NewSchema(KeySchema(s), ValueSchema(s), Made(s)) = s
         /\ KeySchema(s) \o ValueSchema(s) = ColumnSchema(s)
         /\ \A i \in DOMAIN s.indices :
              /\ s.indices[i] = NewIndex(Made(s)[i], KeySchema(s), ColumnSchema(s))
              /\ ToSet(NamedBy(s, s.indices[i])) \subseteq ToSet(Columns(s))
<1> DEFINE n == Len(s.types)
           k == KeyLen(s)
           C == [name : Name, class : CellClass]
           all == ColumnSchema(s)
           key == KeySchema(s)
           values == ValueSchema(s)
           made == Made(s)
<1>1. /\ all \in Seq(C) /\ Len(all) = n /\ DOMAIN all = 1 .. n
      /\ \A i \in 1 .. n : all[i].name = Columns(s)[i]
      /\ k \in Nat /\ k >= 1 /\ k <= n /\ n \in Nat
      /\ DOMAIN Columns(s) = 1 .. n
  <2>1. all \in Seq(C) /\ Len(all) = n /\ DOMAIN all = 1 .. n
        /\ \A i \in 1 .. n : all[i].name = Columns(s)[i]
    BY ColumnsFine DEF IsColumns
  <2>2. k \in Nat /\ k >= 1 /\ k <= n /\ Columns(s) \in Seq(Name) /\ Len(Columns(s)) = n
    BY SchemaParts
  <2> HIDE DEF k, C, all
  <2>3. n \in Nat /\ DOMAIN Columns(s) = 1 .. n
    BY <2>2
  <2> QED
    BY <2>1, <2>2, <2>3
<1>2. s = NewSchema(key, values, made)
  BY DEF IsSchema, Made
<1>3. key = SubSeq(all, 1, k) /\ values = SubSeq(all, k + 1, n)
  BY DEF KeySchema, ValueSchema
<1> HIDE DEF n, k, C, all, key, values, made
<1>4. key \o values = all
  <2>1. /\ key \in Seq(C) /\ Len(key) = k /\ \A i \in 1 .. k : key[i] = all[i]
    <3>1. /\ key \in Seq(C) /\ Len(key) = k + 1 - 1
          /\ \A i \in 1 .. (k + 1 - 1) : key[i] = all[1 + i - 1]
      BY <1>1, <1>3, SubSeqMeans
    <3>2. k + 1 - 1 = k /\ \A i \in 1 .. k : 1 + i - 1 = i
      BY <1>1
    <3> QED
      BY <3>1, <3>2
  <2>2. /\ values \in Seq(C) /\ Len(values) = n - k /\ \A i \in 1 .. (n - k) : values[i] = all[k + i]
    <3>1. /\ values \in Seq(C) /\ Len(values) = n + 1 - (k + 1)
          /\ \A i \in 1 .. (n + 1 - (k + 1)) : values[i] = all[(k + 1) + i - 1]
      BY <1>1, <1>3, SubSeqMeans
    <3>2. n + 1 - (k + 1) = n - k /\ \A i \in 1 .. (n - k) : (k + 1) + i - 1 = k + i
      BY <1>1
    <3> QED
      BY <3>1, <3>2
  <2>3. key \o values = [i \in 1 .. (k + (n - k)) |-> IF i <= k THEN key[i] ELSE values[i - k]]
    <3>1. key \o values = Joined(key, values)
      BY <2>1, <2>2, JoinMeans
    <3> QED
      BY <2>1, <2>2, <3>1 DEF Joined
  <2>4. k + (n - k) = n
    BY <1>1
  <2>5. ASSUME NEW i \in 1 .. n PROVE (IF i <= k THEN key[i] ELSE values[i - k]) = all[i]
    <3>1. CASE i <= k
      BY <1>1, <2>1, <3>1
    <3>2. CASE ~(i <= k)
      <4>1. i - k \in 1 .. (n - k) /\ k + (i - k) = i
        BY <1>1, <3>2
      <4> QED
        BY <2>2, <3>2, <4>1
    <3> QED
      BY <3>1, <3>2
  <2>6. all = [i \in 1 .. n |-> all[i]]
    BY <1>1
  <2> QED
    BY <2>3, <2>4, <2>5, <2>6
<1>5. s.key # <<>>
  BY DEF IsSchema
<1>6. /\ ~(key = <<>> \/ \E i \in DOMAIN made :
                           ~(ToSet(made[i].columns) \subseteq ToSet(NamesOf(all))))
      /\ s.indices = [i \in DOMAIN made |-> NewIndex(made[i], key, all)]
  <2> DEFINE bad == key = <<>> \/ \E i \in DOMAIN made :
                                    ~(ToSet(made[i].columns) \subseteq ToSet(NamesOf(all)))
             good == [key |-> NamesOf(key), values |-> NamesOf(values), types |-> TypesOf(all),
                      indices |-> [i \in DOMAIN made |-> NewIndex(made[i], key, all)]]
  <2>1. s = IF bad THEN NoSchema ELSE good
    BY <1>2, <1>4 DEF NewSchema
  <2>2. NoSchema.key = <<>>
    BY DEF NoSchema
  <2> HIDE DEF bad
  <2>3. ~bad /\ s = good
    BY <1>5, <2>1, <2>2
  <2> QED
    BY <2>3 DEF bad
<1>7. /\ DOMAIN made = DOMAIN s.indices
      /\ \A i \in DOMAIN s.indices : made[i].columns = NamedBy(s, s.indices[i])
  BY DEF made, Made
<1>8. ToSet(NamesOf(all)) = ToSet(Columns(s))
  <2>1. DOMAIN NamesOf(all) = 1 .. n /\ \A i \in 1 .. n : NamesOf(all)[i] = Columns(s)[i]
    BY <1>1 DEF NamesOf
  <2> QED
    BY <1>1, <2>1 DEF ToSet
<1>9. \A i \in DOMAIN s.indices :
        /\ s.indices[i] = NewIndex(made[i], key, all)
        /\ ToSet(NamedBy(s, s.indices[i])) \subseteq ToSet(Columns(s))
  <2> TAKE i \in DOMAIN s.indices
  <2>1. ToSet(made[i].columns) \subseteq ToSet(NamesOf(all))
    BY <1>6, <1>7
  <2> QED
    BY <1>6, <1>7, <1>8, <2>1
<1> QED
  BY <1>2, <1>4, <1>9 DEF key, values, made, all

\* An index has the columns it was made to name, then those of the key.
IndexParts(s, x) ==
  LET named == NamedBy(s, x)
      m == Len(named)
      k == KeyLen(s)
      all == ColumnSchema(s)
  IN  /\ named \in Seq(Name) /\ x.columns \in Seq(Name) /\ x.types \in Seq(CellClass)
      /\ Len(x.columns) = m + k /\ Len(x.types) = m + k
      /\ ToSet(named) \subseteq ToSet(Columns(s))
      /\ \A j \in 1 .. m : /\ x.columns[j] = named[j]
                           /\ x.types[j] = all[FoundAt(all, named[j])].class
      /\ \A j \in 1 .. k : x.columns[m + j] = Columns(s)[j] /\ x.types[m + j] = s.types[j]

LEMMA KeySchemaMeans ==
  ASSUME NEW s, IsSchema(s)
  PROVE  /\ KeySchema(s) \in Seq([name : Name, class : CellClass])
         /\ Len(KeySchema(s)) = KeyLen(s)
         /\ \A j \in 1 .. KeyLen(s) : /\ KeySchema(s)[j] = ColumnSchema(s)[j]
                                      /\ KeySchema(s)[j].name = Columns(s)[j]
                                      /\ KeySchema(s)[j].class = s.types[j]
<1> DEFINE n == Len(s.types)
           k == KeyLen(s)
           C == [name : Name, class : CellClass]
           all == ColumnSchema(s)
<1>1. /\ all \in Seq(C) /\ Len(all) = n
      /\ \A i \in 1 .. n : all[i].name = Columns(s)[i] /\ all[i].class = s.types[i]
  BY ColumnsFine DEF IsColumns
<1>2. k \in Nat /\ k >= 1 /\ k <= n
  BY SchemaParts
<1> HIDE DEF n, C, all, k
<1>3. n \in Nat
  BY <1>1
<1>4. KeySchema(s) = SubSeq(all, 1, k)
  BY DEF KeySchema, all, k
<1>5. /\ KeySchema(s) \in Seq(C) /\ Len(KeySchema(s)) = k + 1 - 1
      /\ \A i \in 1 .. (k + 1 - 1) : KeySchema(s)[i] = all[1 + i - 1]
  BY <1>1, <1>2, <1>4, SubSeqMeans
<1>6. k + 1 - 1 = k /\ \A i \in 1 .. k : 1 + i - 1 = i /\ i \in 1 .. n
  BY <1>2, <1>3
<1>7. \A i \in 1 .. k : KeySchema(s)[i] = all[i]
  BY <1>5, <1>6
<1>8. \A i \in 1 .. k : all[i].name = Columns(s)[i] /\ all[i].class = s.types[i]
  BY <1>1, <1>6
<1> QED
  BY <1>5, <1>6, <1>7, <1>8 DEF n, k, all, C

LEMMA IndexMeans ==
  ASSUME NEW s, IsSchema(s), NEW i \in DOMAIN s.indices
  PROVE  IndexParts(s, s.indices[i])
<1> DEFINE x == s.indices[i]
           named == NamedBy(s, x)
           m == Len(named)
           k == KeyLen(s)
           all == ColumnSchema(s)
           key == KeySchema(s)
           X == [name : STRING, columns : Seq(Name), types : Seq(CellClass)]
           y == Made(s)[i]
<1>1. x \in X
  <2>1. s.indices \in Seq(X)
    BY DEF IsSchema
  <2> HIDE DEF X
  <2> QED
    BY <2>1
<1>2. x.columns \in Seq(Name) /\ x.types \in Seq(CellClass)
  BY <1>1
<1>3. x = NewIndex(y, key, all) /\ ToSet(named) \subseteq ToSet(Columns(s)) /\ y.columns = named
  BY SchemaFixed DEF Made
<1>4. x.columns = named \o NamesOf(key)
      /\ x.types = [j \in DOMAIN named |-> all[FoundAt(all, named[j])].class] \o TypesOf(key)
  <2>1. NewIndex(y, key, all)
          = [name |-> y.name,
             columns |-> y.columns \o NamesOf(key),
             types |-> [j \in DOMAIN y.columns |-> all[FoundAt(all, y.columns[j])].class]
                       \o TypesOf(key)]
    BY DEF NewIndex, FoundAt
  <2> HIDE DEF x, named, key, all, y
  <2>2. x = [name |-> y.name, columns |-> named \o NamesOf(key),
             types |-> [j \in DOMAIN named |-> all[FoundAt(all, named[j])].class] \o TypesOf(key)]
    BY <1>3, <2>1
  <2> QED
    BY <2>2
<1>5. named = SubSeq(x.columns, 1, Len(x.columns) - k)
  BY DEF NamedBy
<1>6. /\ k \in Nat /\ key \in Seq([name : Name, class : CellClass]) /\ Len(key) = k
      /\ \A j \in 1 .. k : key[j].name = Columns(s)[j] /\ key[j].class = s.types[j]
  BY SchemaParts, KeySchemaMeans
<1>7. Columns(s) \in Seq(Name) /\ s.types \in Seq(CellClass) /\ k <= Len(s.types)
      /\ Len(Columns(s)) = Len(s.types)
  BY SchemaParts
<1> HIDE DEF x, X, named, k, all, key, y
<1>8. named \in Seq(Name)
  <2> DEFINE c == x.columns
             b == Len(c) - k
  <2>1. c \in Seq(Name) /\ b \in Int /\ b <= Len(c)
    BY <1>2, <1>6
  <2> HIDE DEF c, b
  <2>2. SubSeq(c, 1, b) \in Seq(Name)
    BY <2>1
  <2> QED
    BY <1>5, <2>2 DEF c, b
<1>9. m \in Nat /\ DOMAIN named = 1 .. m
  BY <1>8
<1>10. /\ DOMAIN key = 1 .. k
       /\ NamesOf(key) \in [1 .. k -> Name] /\ TypesOf(key) \in [1 .. k -> CellClass]
       /\ \A j \in 1 .. k : NamesOf(key)[j] = Columns(s)[j] /\ TypesOf(key)[j] = s.types[j]
  <2>1. DOMAIN key = 1 .. k
    BY <1>6
  <2>2. \A j \in 1 .. k : Columns(s)[j] \in Name /\ s.types[j] \in CellClass
    BY <1>6, <1>7
  <2> QED
    BY <1>6, <2>1, <2>2 DEF NamesOf, TypesOf
<1>11. /\ NamesOf(key) \in Seq(Name) /\ Len(NamesOf(key)) = k
       /\ TypesOf(key) \in Seq(CellClass) /\ Len(TypesOf(key)) = k
  BY <1>6, <1>10, FunctionIsSeq
<1> DEFINE found == [j \in DOMAIN named |-> all[FoundAt(all, named[j])].class]
           T == CellClass \cup {found[j] : j \in 1 .. m}
<1>12. found \in Seq(T) /\ Len(found) = m /\ TypesOf(key) \in Seq(T)
  <2>1. DOMAIN found = 1 .. m /\ found = [j \in 1 .. m |-> found[j]]
    BY <1>9
  <2>2. \A j \in 1 .. m : found[j] \in T
    OBVIOUS
  <2>3. TypesOf(key) \in [1 .. k -> T]
    BY <1>10
  <2> HIDE DEF T, found, m
  <2>4. found \in [1 .. m -> T]
    BY <2>1, <2>2
  <2> QED
    BY <1>6, <1>9, <2>3, <2>4, FunctionIsSeq
<1>13. \A j \in 1 .. m : found[j] = all[FoundAt(all, named[j])].class
  BY <1>9
<1> HIDE DEF found, m, T
<1>14. x.columns = Joined(named, NamesOf(key)) /\ Len(x.columns) = m + k
  BY <1>4, <1>8, <1>11, JoinMeans, ZenonT(40) DEF m
<1>15. x.types = Joined(found, TypesOf(key)) /\ Len(x.types) = m + k
  BY <1>4, <1>12, <1>11, JoinMeans, ZenonT(40) DEF found
<1>16. \A j \in 1 .. m : j \in 1 .. (m + k) /\ j <= m
  BY <1>6, <1>9
<1>17. \A j \in 1 .. k : m + j \in 1 .. (m + k) /\ ~(m + j <= m) /\ (m + j) - m = j
  BY <1>6, <1>9
<1>18. Len(named) = m
  BY DEF m
<1>19. \A j \in 1 .. m : x.columns[j] = named[j] /\ x.types[j] = found[j]
  BY <1>12, <1>11, <1>14, <1>15, <1>16, <1>18 DEF Joined
<1>20. \A j \in 1 .. k : x.columns[m + j] = Columns(s)[j] /\ x.types[m + j] = s.types[j]
  BY <1>10, <1>12, <1>11, <1>14, <1>15, <1>17, <1>18 DEF Joined
<1> QED
  BY <1>2, <1>3, <1>8, <1>13, <1>14, <1>15, <1>19, <1>20 DEF IndexParts, x, named, m, k, all

\* Where columns have different names a name has one place.
LEMMA OnePlace ==
  ASSUME NEW N, NEW seq \in Seq(N), IsInjective(seq), NEW i \in 1 .. Len(seq)
  PROVE  Where(seq, seq[i]) = i
<1>1. DOMAIN seq = 1 .. Len(seq)
  OBVIOUS
<1>2. seq[i] \in ToSet(seq)
  BY <1>1 DEF ToSet
<1>3. Where(seq, seq[i]) \in 1 .. Len(seq) /\ seq[Where(seq, seq[i])] = seq[i]
  BY <1>2, WhereMeans
<1> QED
  BY <1>1, <1>3 DEF IsInjective

\* The row of an index fits it.
LEMMA IndexRowFits ==
  ASSUME NEW s, IsSchema(s), IsInjective(Columns(s)), NEW i \in DOMAIN s.indices,
         NEW r \in RowsOf(s.types)
  PROVE  ValidateIndexKey(s.indices[i], IndexRow(s, s.indices[i], r))
<1> DEFINE x == s.indices[i]
           named == NamedBy(s, x)
           m == Len(named)
           k == KeyLen(s)
           n == Len(s.types)
           all == ColumnSchema(s)
           cells == IndexRow(s, x, r)
<1>1. /\ named \in Seq(Name) /\ x.columns \in Seq(Name)
      /\ Len(x.columns) = m + k /\ Len(x.types) = m + k
      /\ ToSet(named) \subseteq ToSet(Columns(s))
      /\ \A j \in 1 .. m : /\ x.columns[j] = named[j]
                           /\ x.types[j] = all[FoundAt(all, named[j])].class
      /\ \A j \in 1 .. k : x.columns[m + j] = Columns(s)[j] /\ x.types[m + j] = s.types[j]
  <2>1. IndexParts(s, x)
    BY IndexMeans
  <2> HIDE DEF x
  <2> QED
    BY <2>1 DEF IndexParts
<1>2. /\ Columns(s) \in Seq(Name) /\ Len(Columns(s)) = n /\ s.types \in Seq(CellClass)
      /\ k \in Nat /\ k <= n
  BY SchemaParts
<1>3. /\ all \in Seq([name : Name, class : CellClass]) /\ Len(all) = n
      /\ \A j \in 1 .. n : all[j].name = Columns(s)[j] /\ all[j].class = s.types[j]
  BY ColumnsFine DEF IsColumns
<1>4. \A j \in 1 .. n : Class(r[j]) = s.types[j]
  BY <1>2, RowMeans
<1> HIDE DEF x, named, k, n, all
<1>5. n \in Nat /\ m \in Nat /\ DOMAIN named = 1 .. m /\ DOMAIN x.columns = 1 .. (m + k)
      /\ DOMAIN Columns(s) = 1 .. n
  BY <1>1, <1>2
<1> HIDE DEF m
<1>6. \A j \in 1 .. n : Where(Columns(s), Columns(s)[j]) = j
  BY <1>2, OnePlace
<1>7. ASSUME NEW j \in 1 .. (m + k)
      PROVE  Class(r[Where(Columns(s), x.columns[j])]) = x.types[j]
  <2>1. CASE j \in 1 .. m
    <3>1. PICK p \in 1 .. n : named[j] = Columns(s)[p]
      <4>1. named[j] \in ToSet(named)
        BY <1>5, <2>1 DEF ToSet
      <4>2. named[j] \in ToSet(Columns(s))
        BY <1>1, <4>1
      <4> QED
        BY <1>5, <4>2 DEF ToSet
    <3>2. \E q \in 1 .. Len(all) : all[q].name = named[j]
      BY <1>3, <3>1
    <3> DEFINE f == FoundAt(all, named[j])
    <3>3. f \in 1 .. Len(all) /\ all[f].name = named[j]
      BY <1>3, <3>2, FoundMeans
    <3> HIDE DEF f
    <3>4. f \in 1 .. n /\ Columns(s)[f] = named[j] /\ all[f].class = s.types[f]
      BY <1>3, <3>3
    <3>5. Where(Columns(s), named[j]) = f
      BY <1>6, <3>4
    <3> QED
      BY <1>1, <1>4, <2>1, <3>4, <3>5 DEF f
  <2>2. CASE ~(j \in 1 .. m)
    <3>1. j - m \in 1 .. k /\ m + (j - m) = j /\ j - m \in 1 .. n
      BY <1>2, <1>5, <2>2
    <3>2. x.columns[m + (j - m)] = Columns(s)[j - m] /\ x.types[m + (j - m)] = s.types[j - m]
      BY <1>1, <3>1
    <3> QED
      BY <1>4, <1>6, <3>1, <3>2
  <2> QED
    BY <2>1, <2>2
<1>8. /\ DOMAIN cells = 1 .. (m + k)
      /\ \A j \in 1 .. (m + k) : cells[j] = r[Where(Columns(s), x.columns[j])]
      /\ cells = [j \in 1 .. (m + k) |-> cells[j]]
  BY <1>5 DEF IndexRow
<1> HIDE DEF cells
<1>9. Len(cells) = m + k
  <2>1. cells \in [1 .. (m + k) -> {cells[j] : j \in 1 .. (m + k)}] /\ m + k \in Nat
    BY <1>2, <1>5, <1>8
  <2> QED
    BY <2>1, FunctionIsSeq
<1> QED
  BY <1>1, <1>7, <1>8, <1>9 DEF ValidateIndexKey, Fits, cells, x

\* Every visible row of a table fits the native schemas of its indices.
THEOREM IndicesTakeEveryRow == CollectionSpec => []IndexRowsFit
<1>1. TableInv => IndexRowsFit
  <2> SUFFICES ASSUME TableInv, IsInjective(Columns(source.schema)),
                      NEW r \in Visible(source), NEW i \in DOMAIN source.schema.indices
               PROVE  ValidateIndexKey(source.schema.indices[i],
                                       IndexRow(source.schema, source.schema.indices[i], r))
    BY DEF IndexRowsFit
  <2>1. IsTable(source) /\ IsSchema(source.schema)
    BY TableParts DEF TableInv
  <2>2. r \in RowsOf(source.schema.types)
    BY <2>1, VisibleRows
  <2> QED
    BY <2>1, <2>2, IndexRowFits
<1> QED
  BY <1>1, TableInvariance, PTL

-----------------------------------------------------------------------------
(* Selectors. *)

\* The greatest of some numbers.
LEMMA LastOf ==
  ASSUME NEW n \in Nat, NEW I \in SUBSET (1 .. n), I # {}
  PROVE  Max(I) \in I /\ \A j \in I : Max(I) >= j
<1> DEFINE J == {n - i : i \in I}
<1>1. J \in SUBSET Nat /\ J # {}
  <2>1. \A i \in I : n - i \in Nat
    OBVIOUS
  <2>2. PICK i \in I : TRUE
    OBVIOUS
  <2>3. n - i \in J
    BY <2>2
  <2> QED
    BY <2>1, <2>3
<1> HIDE DEF J
<1>2. PICK m \in J : \A x \in J : m <= x
  BY <1>1, LeastNumber
<1>3. PICK i \in I : m = n - i
  BY <1>2 DEF J
<1>4. ASSUME NEW j \in I PROVE i >= j
  <2>1. n - i <= n - j
    BY <1>2, <1>3 DEF J
  <2> QED
    BY <2>1
<1>5. Max(I) = CHOOSE x \in I : \A y \in I : x >= y
  BY DEF Max
<1> QED
  BY <1>4, <1>5

\* A key as bounds: one column, one cell.
Entry(s, key, i) == Tup(<<Str(s.key[i]), key[i]>>)
Entries(s, key) == [i \in DOMAIN key |-> Entry(s, key, i)]
PointRange(s, key, range) ==
  DOMAIN range = ToSet(s.key) /\ \A i \in 1 .. KeyLen(s) : range[s.key[i]] = {key[i]}

LEMMA ValueMeans ==
  /\ \A x : IsTup(Tup(x)) /\ Tup(x).tuple = x /\ Tup(x) # None
  /\ \A x : Class(Str(x)) = "string" /\ Str(x).string = x
  /\ \A x, y : IsPair(Tup(<<x, y>>)) /\ Tup(<<x, y>>).tuple[1] = x /\ Tup(<<x, y>>).tuple[2] = y
<1>1. \A x : DOMAIN Tup(x) = {"tuple"} /\ Tup(x).tuple = x
  BY DEF Tup
<1>2. DOMAIN None = {"none"}
  BY DEF None
<1>3. \A x : DOMAIN Str(x) = {"string"} /\ Str(x).string = x
  BY DEF Str
<1>4. \A x : Class(Tup(x)) = "tuple"
  BY <1>1 DEF Class
<1>5. \A x : Class(Str(x)) = "string"
  BY <1>3 DEF Class
<1>6. \A x : Tup(x) # None
  BY <1>1, <1>2
<1>7. \A x, y : Len(<<x, y>>) = 2
  OBVIOUS
<1>8. \A x, y : IsPair(Tup(<<x, y>>))
  BY <1>1, <1>4, <1>7 DEF IsPair, IsTup
<1> QED
  BY <1>1, <1>3, <1>4, <1>5, <1>6, <1>8 DEF IsTup

EntryAt(entries, name) == SelectLastInSeq(entries, LAMBDA e : e.tuple[1].string = name)

LEMMA EntryMeans ==
  ASSUME NEW s, IsSchema(s), IsInjective(s.key), NEW W, NEW key \in Seq(W),
         Len(key) = KeyLen(s), NEW i \in 1 .. KeyLen(s)
  PROVE  EntryAt(Entries(s, key), s.key[i]) = i
<1> DEFINE E == Entries(s, key)
           k == KeyLen(s)
           I == {j \in 1 .. Len(E) : E[j].tuple[1].string = s.key[i]}
<1>1. k \in Nat /\ s.key \in Seq(Name) /\ Len(s.key) = k
  BY SchemaParts DEF KeyLen
<1>2. E = [j \in 1 .. k |-> Entry(s, key, j)]
  BY <1>1 DEF Entries
<1>3. \A j \in 1 .. k : E[j].tuple[1].string = s.key[j]
  BY <1>2, ValueMeans DEF Entry
<1>4. Len(E) = k
  <2> DEFINE X == {Entry(s, key, j) : j \in 1 .. k}
  <2>1. E \in [1 .. k -> X]
    BY <1>2
  <2> HIDE DEF X, E
  <2> QED
    BY <1>1, <2>1, FunctionIsSeq
<1> HIDE DEF E
<1>5. I = {i}
  <2>1. DOMAIN s.key = 1 .. k
    BY <1>1
  <2>2. \A j \in 1 .. k : s.key[j] = s.key[i] <=> j = i
    BY <2>1 DEF IsInjective
  <2> QED
    BY <1>3, <1>4, <2>2
<1>6. EntryAt(E, s.key[i]) = IF I # {} THEN Max(I) ELSE 0
  BY DEF EntryAt, SelectLastInSeq
<1>7. I \in SUBSET (1 .. k) /\ I # {}
  BY <1>5
<1> HIDE DEF I
<1>8. Max(I) \in I
  BY <1>1, <1>7, LastOf
<1> QED
  BY <1>5, <1>6, <1>7, <1>8 DEF E

LEMMA KeyIsRange ==
  ASSUME NEW s, IsSchema(s), IsInjective(s.key), NEW W, NEW key \in Seq(W),
         ValidateKey(s, key), CellClass \cap {"tuple", "none"} = {}
  PROVE  \E range : /\ Selector(s, Tup(Entries(s, key))) = [sel |-> "range", range |-> range]
                    /\ PointRange(s, key, range)
<1> DEFINE E == Entries(s, key)
           k == KeyLen(s)
           range == RangeOf(E)
<1>1. /\ k \in Nat /\ k >= 1 /\ s.key \in Seq(Name) /\ Len(s.key) = k
      /\ s.types \in Seq(CellClass) /\ k <= Len(s.types)
      /\ Columns(s) \in Seq(Name) /\ Len(Columns(s)) = Len(s.types)
      /\ \A i \in 1 .. k : Columns(s)[i] = s.key[i]
  BY SchemaParts DEF KeyLen
<1>2. Len(key) = k /\ \A i \in 1 .. k : Class(key[i]) \in CellClass
  <2> DEFINE types == SubSeq(s.types, 1, k)
  <2>1. Len(types) = k + 1 - 1 /\ types \in Seq(CellClass)
    BY <1>1, SubSeqMeans
  <2> HIDE DEF types, k
  <2>2. Len(types) = k /\ \A i \in 1 .. k : types[i] \in CellClass
    BY <1>1, <2>1
  <2>3. Len(key) = Len(types) /\ \A i \in DOMAIN key : Class(key[i]) = types[i]
    BY DEF ValidateKey, Fits, types, k
  <2>4. DOMAIN key = 1 .. k
    BY <2>2, <2>3
  <2> QED
    BY <2>2, <2>3, <2>4
<1>3. /\ E = [i \in 1 .. k |-> Entry(s, key, i)] /\ DOMAIN E = 1 .. k
      /\ \A i \in 1 .. k : E[i] = Entry(s, key, i)
  BY <1>2 DEF Entries
<1>4. E # <<>>
  BY <1>1, <1>3
<1>5. ToSet(E) = {Entry(s, key, i) : i \in 1 .. k}
  BY <1>3 DEF ToSet
<1> HIDE DEF E, k, range
<1>6. \A i \in 1 .. k : NamesColumn(s, Entry(s, key, i)) /\ ~IsPair(Entry(s, key, i).tuple[2])
  <2> TAKE i \in 1 .. k
  <2>1. /\ IsPair(Entry(s, key, i)) /\ Entry(s, key, i).tuple[2] = key[i]
        /\ Class(Entry(s, key, i).tuple[1]) = "string"
        /\ Entry(s, key, i).tuple[1].string = s.key[i]
    BY ValueMeans DEF Entry
  <2>2. s.key[i] \in ToSet(Columns(s))
    <3>1. i \in DOMAIN Columns(s) /\ s.key[i] = Columns(s)[i]
      BY <1>1
    <3> QED
      BY <3>1 DEF ToSet
  <2>3. ~IsPair(key[i])
    BY <1>2 DEF IsPair, IsTup
  <2> QED
    BY <2>1, <2>2, <2>3 DEF NamesColumn
<1>7. Selector(s, Tup(E)) = [sel |-> "range", range |-> range]
  <2>1. IsTup(Tup(E)) /\ Tup(E).tuple = E /\ Tup(E) # None
    BY ValueMeans
  <2>2. Tup(E) # Tup(<<>>)
    <3>1. Tup(<<>>).tuple = <<>>
      BY ValueMeans
    <3> QED
      BY <1>4, <2>1, <3>1
  <2>3. \A e \in ToSet(E) : NamesColumn(s, e) /\ ~IsPair(e.tuple[2])
    BY <1>5, <1>6
  <2>4. CastIntoRange(s, Tup(E)) = [sel |-> "range", range |-> RangeOf(Tup(E).tuple)]
    BY <2>1, <2>3 DEF CastIntoRange
  <2> QED
    BY <2>1, <2>2, <2>3, <2>4 DEF Selector, range
<1>8. range = [c \in {e.tuple[1].string : e \in ToSet(E)} |->
                 ColumnRange(E[EntryAt(E, c)].tuple[2])]
  BY DEF RangeOf, EntryAt, range
<1>9. {e.tuple[1].string : e \in ToSet(E)} = ToSet(s.key)
  <2>1. \A i \in 1 .. k : Entry(s, key, i).tuple[1].string = s.key[i]
    BY ValueMeans DEF Entry
  <2>2. DOMAIN s.key = 1 .. k
    BY <1>1
  <2>3. ToSet(s.key) = {s.key[i] : i \in 1 .. k}
    BY <2>2 DEF ToSet
  <2> QED
    BY <1>5, <2>1, <2>3
<1>10. ASSUME NEW i \in 1 .. k PROVE range[s.key[i]] = {key[i]}
  <2>1. s.key[i] \in ToSet(s.key)
    BY <1>1 DEF ToSet
  <2>2. EntryAt(E, s.key[i]) = i
    BY <1>2, EntryMeans DEF E, k
  <2>3. range[s.key[i]] = ColumnRange(E[i].tuple[2])
    BY <1>8, <1>9, <2>1, <2>2
  <2>4. E[i].tuple[2] = key[i]
    BY <1>3, ValueMeans DEF Entry
  <2>5. ~IsPair(key[i])
    BY <1>2 DEF IsPair, IsTup
  <2> QED
    BY <2>3, <2>4, <2>5 DEF ColumnRange
<1> QED
  BY <1>7, <1>8, <1>9, <1>10 DEF PointRange, E, k

\* Such bounds admit the rows with the key.
LEMMA PointAdmits ==
  ASSUME NEW s, IsSchema(s), IsInjective(s.key), NEW W, NEW key \in Seq(W),
         Len(key) = KeyLen(s), NEW range, PointRange(s, key, range), NEW r \in RowsOf(s.types)
  PROVE  Admits(s, range, r) <=> Key(s, r) = key
<1> DEFINE k == KeyLen(s)
<1>1. /\ k \in Nat /\ s.key \in Seq(Name) /\ Len(s.key) = k
      /\ Columns(s) \in Seq(Name) /\ k <= Len(Columns(s)) /\ Len(Columns(s)) \in Nat
      /\ \A i \in 1 .. k : Columns(s)[i] = s.key[i]
  <2>1. /\ k \in Nat /\ s.key \in Seq(Name) /\ Columns(s) \in Seq(Name)
        /\ k <= Len(s.types) /\ Len(Columns(s)) = Len(s.types)
        /\ \A i \in 1 .. k : Columns(s)[i] = s.key[i]
    BY SchemaParts
  <2>2. Len(s.key) = k
    BY DEF KeyLen
  <2> HIDE DEF k
  <2>3. Len(Columns(s)) \in Nat
    BY <2>1
  <2> QED
    BY <2>1, <2>2, <2>3
<1>2. Key(s, r) = [i \in 1 .. k |-> r[i]]
  BY KeyMeans
<1>3. key = [i \in 1 .. k |-> key[i]]
  OBVIOUS
<1> HIDE DEF k
<1>4. DOMAIN s.key = 1 .. k
  BY <1>1
<1>5. ASSUME NEW i \in 1 .. k PROVE Where(Columns(s), s.key[i]) = i
  <2> DEFINE w == Where(Columns(s), s.key[i])
  <2>1. i \in 1 .. Len(Columns(s)) /\ Columns(s)[i] = s.key[i] /\ DOMAIN Columns(s) = 1 .. Len(Columns(s))
    BY <1>1
  <2>2. s.key[i] \in ToSet(Columns(s))
    BY <2>1 DEF ToSet
  <2>3. w \in 1 .. Len(Columns(s)) /\ Columns(s)[w] = s.key[i] /\ w <= i
    BY <1>1, <2>1, <2>2, WhereMeans
  <2> HIDE DEF w
  <2>4. w \in 1 .. k /\ s.key[w] = s.key[i]
    BY <1>1, <2>3
  <2>5. w = i
    BY <1>4, <2>4 DEF IsInjective
  <2> QED
    BY <2>5 DEF w
<1>6. ToSet(s.key) = {s.key[i] : i \in 1 .. k}
  BY <1>4 DEF ToSet
<1>7. Admits(s, range, r) <=> \A i \in 1 .. k : r[i] = key[i]
  BY <1>5, <1>6 DEF Admits, PointRange, k
<1> QED
  BY <1>2, <1>3, <1>7

\* A slice of a table counts the rows that its range admits.
LEMMA SliceCounts ==
  ASSUME NEW t, IsTable(t), NEW v, v.kind = "table",
         NEW w, NEW range, w = SliceTable(v, range, <<>>, FALSE),
         DOMAIN v = {"kind", "range", "order", "reverse", "limit", "columns", "schema"}
  PROVE  /\ Count(t, w) = Cardinality(Met(t, range))
         /\ IsEmpty(t, w) <=> Count(t, w) = 0
<1>1. w.kind = "slice" /\ w.range = range
  BY DEF SliceTable, SliceOf
<1>2. Known(t.schema, <<>>) /\ HasNatural(t, <<>>)
  BY TableParts, NaturalPlaces DEF HasNatural
<1>3. CountIn(t, w) = Len(SourceRows(t, range, <<>>, FALSE))
  BY <1>1 DEF CountIn
<1>4. Count(t, w) = CountIn(t, w) /\ (IsEmpty(t, w) <=> CountIn(t, w) = 0)
  BY <1>1 DEF Count, IsEmpty
<1>5. Len(SourceRows(t, range, <<>>, FALSE)) = Cardinality(Met(t, range))
  BY <1>2, SourceRowsCount
<1> QED
  BY <1>3, <1>4, <1>5

LEMMA SelectorKinds ==
  ASSUME NEW s, NEW v
  PROVE  /\ Selector(s, v).sel \in {"all", "key", "range", "error"}
         /\ Selector(s, v).sel = "key" => IsTup(v) /\ Selector(s, v).key = v.tuple
<1> DEFINE names == \A e \in ToSet(v.tuple) : NamesColumn(s, e)
           full == Len(v.tuple) = KeyLen(s)
<1>1. Selector(s, v) = IF v = None \/ v = Tup(<<>>) THEN [sel |-> "all", range |-> NoRange]
                       ELSE IF ~IsTup(v) THEN [sel |-> "error"]
                       ELSE IF names THEN CastIntoRange(s, v)
                       ELSE IF full THEN [sel |-> "key", key |-> v.tuple]
                       ELSE [sel |-> "error"]
  BY DEF Selector
<1>2. CastIntoRange(s, v).sel \in {"range", "error"}
  <2> DEFINE fits == /\ IsTup(v)
                     /\ \A e \in ToSet(v.tuple) :
                          /\ NamesColumn(s, e)
                          /\ IsPair(e.tuple[2]) => \A b \in ToSet(e.tuple[2].tuple) : IsBound(b)
  <2>1. CastIntoRange(s, v) = IF v = None THEN [sel |-> "range", range |-> NoRange]
                              ELSE IF fits THEN [sel |-> "range", range |-> RangeOf(v.tuple)]
                              ELSE [sel |-> "error"]
    BY DEF CastIntoRange
  <2> HIDE DEF fits
  <2> QED
    BY <2>1
<1> HIDE DEF names, full
<1> QED
  BY <1>1, <1>2

\* A key counts the row that a point read finds.
LEMMA KeyCounts ==
  ASSUME NEW t, IsTable(t), NEW key
  PROVE  /\ IsFiniteSet(ReadRow(t, key)) /\ ReadRow(t, key) \in SUBSET RowsOf(t.schema.types)
         /\ ReadRow(t, key) = {r \in Visible(t) : Key(t.schema, r) = key}
         /\ Cardinality(ReadRow(t, key)) = 0 <=> ReadRow(t, key) = {}
<1>1. ReadRow(t, key) = {r \in Visible(t) : Key(t.schema, r) = key}
  BY VisibleMeans
<1>2. IsFiniteSet(Visible(t)) /\ Visible(t) \in SUBSET RowsOf(t.schema.types)
  BY VisibleRows
<1>3. ReadRow(t, key) \in SUBSET Visible(t)
  BY <1>1
<1>4. IsFiniteSet(ReadRow(t, key))
  BY <1>2, <1>3, FS_Subset
<1>5. Cardinality(ReadRow(t, key)) = 0 <=> ReadRow(t, key) = {}
  BY <1>4, FS_EmptySet
<1> QED
  BY <1>1, <1>2, <1>3, <1>4, <1>5

\* contains, count and is_empty agree on what a selector means, whether it is read as
\* a key or as a range.
THEOREM SelectorsMeanOneThing == CollectionSpec => []SelectorsAgree
<1>1. TableInv => SelectorsAgree
  <2> DEFINE Sel(v) == Selector(view.schema, v)
             Cut(range) == SliceTable(view, range, <<>>, FALSE)
  <2> SUFFICES ASSUME TableInv, view.kind = "table", NEW v \in Selectors
               PROVE  /\ Sel(v).sel # "error" => (Emptied(v) <=> Counted(v) = 0)
                      /\ Sel(v).sel = "key" /\ ValidateKey(view.schema, Sel(v).key)
                         /\ IsInjective(source.schema.key)
                         => Counted(v) = Counted(KeyAsRange(Sel(v).key))
                      /\ Sel(v).sel = "range" /\ Exact(Sel(v).range) =>
                           Counted(v) = Cardinality({r \in Visible(source) :
                                          Admits(source.schema, Sel(v).range, r)})
    BY DEF SelectorsAgree
  <2>1. /\ IsTable(source) /\ IsSchema(source.schema) /\ view.schema = source.schema
        /\ DOMAIN view = {"kind", "range", "order", "reverse", "limit", "columns", "schema"}
    BY TableParts DEF TableInv, ViewOf
  <2>2. \A x : Counted(x) = CASE Sel(x).sel = "all" -> Count(source, view)
                              [] Sel(x).sel = "key" -> Cardinality(ReadRow(source, Sel(x).key))
                              [] Sel(x).sel = "range" -> Count(source, Cut(Sel(x).range))
                              [] OTHER -> -1
    BY DEF Counted
  <2>3. Emptied(v) = CASE Sel(v).sel = "all" -> IsEmpty(source, view)
                       [] Sel(v).sel = "key" -> ReadRow(source, Sel(v).key) = {}
                       [] Sel(v).sel = "range" -> IsEmpty(source, Cut(Sel(v).range))
    BY DEF Emptied
  <2>4. \A range : /\ Count(source, Cut(range)) = Cardinality(Met(source, range))
                   /\ IsEmpty(source, Cut(range)) <=> Count(source, Cut(range)) = 0
    BY <2>1, SliceCounts
  <2>5. Count(source, view) = CountIn(source, view) /\ (IsEmpty(source, view) <=> CountIn(source, view) = 0)
    BY DEF Count, IsEmpty
  <2>6. /\ Sel(v).sel \in {"all", "key", "range", "error"}
        /\ Sel(v).sel = "key" => IsTup(v) /\ Sel(v).key = v.tuple
    BY SelectorKinds
  <2> HIDE DEF Sel, Cut
  <2>7. Sel(v).sel # "error" => (Emptied(v) <=> Counted(v) = 0)
    <3>1. CASE Sel(v).sel = "all"
      BY <2>2, <2>3, <2>5, <3>1
    <3>2. CASE Sel(v).sel = "key"
      <4>1. Cardinality(ReadRow(source, Sel(v).key)) = 0 <=> ReadRow(source, Sel(v).key) = {}
        BY <2>1, KeyCounts
      <4>2. Counted(v) = Cardinality(ReadRow(source, Sel(v).key))
        BY <2>2, <3>2
      <4>3. Emptied(v) <=> ReadRow(source, Sel(v).key) = {}
        BY <2>3, <3>2
      <4> QED
        BY <4>1, <4>2, <4>3
    <3>3. CASE Sel(v).sel = "range"
      BY <2>2, <2>3, <2>4, <3>3
    <3> QED
      BY <2>6, <3>1, <3>2, <3>3
  <2>8. ASSUME Sel(v).sel = "key", ValidateKey(view.schema, Sel(v).key),
               IsInjective(source.schema.key)
        PROVE  Counted(v) = Counted(KeyAsRange(Sel(v).key))
    <3> DEFINE key == Sel(v).key
               W == Range(key)
               s == source.schema
    <3>1. key \in Seq(W) /\ CellClass \cap {"tuple", "none"} = {}
      BY <2>6, <2>8, TableAssumption
    <3>2. KeyAsRange(key) = Tup(Entries(s, key))
      BY DEF KeyAsRange, Entries, Entry
    <3>3. ValidateKey(s, key)
      BY <2>1, <2>8
    <3> HIDE DEF key, W, s
    <3>4. PICK range : /\ Selector(s, Tup(Entries(s, key))) = [sel |-> "range", range |-> range]
                       /\ PointRange(s, key, range)
      BY <2>1, <2>8, <3>1, <3>3, KeyIsRange DEF s
    <3>5. Sel(KeyAsRange(key)) = [sel |-> "range", range |-> range]
      BY <2>1, <3>2, <3>4 DEF Sel, s
    <3>6. Counted(KeyAsRange(key)) = Cardinality(Met(source, range))
      <4>1. Sel(KeyAsRange(key)).sel = "range" /\ Sel(KeyAsRange(key)).range = range
        BY <3>5
      <4>2. Counted(KeyAsRange(key)) = Count(source, Cut(range))
        BY <2>2, <4>1
      <4> QED
        BY <2>4, <4>2
    <3>7. Len(key) = KeyLen(s)
      <4>1. KeyLen(s) \in Nat /\ KeyLen(s) >= 1 /\ KeyLen(s) <= Len(s.types) /\ s.types \in Seq(CellClass)
        BY <2>1, SchemaParts DEF s
      <4> DEFINE k == KeyLen(s)
      <4> HIDE DEF k
      <4>2. Len(SubSeq(s.types, 1, k)) = k + 1 - 1 /\ k + 1 - 1 = k
        BY <4>1, SubSeqMeans DEF k
      <4> QED
        BY <3>3, <4>2 DEF ValidateKey, Fits, k
    <3>8. Met(source, range) = {r \in Visible(source) : Admits(s, range, r)}
      <4>1. KeyRange(s, range)
        BY <3>4 DEF KeyRange, PointRange
      <4> QED
        BY <2>1, <4>1, ExactMeans DEF s
    <3>9. Visible(source) \in SUBSET RowsOf(s.types)
      BY <2>1, VisibleRows DEF s
    <3>10. \A r \in RowsOf(s.types) : Admits(s, range, r) <=> Key(s, r) = key
      BY <2>1, <2>8, <3>1, <3>4, <3>7, PointAdmits DEF s
    <3>11. ReadRow(source, key) = {r \in Visible(source) : Key(s, r) = key}
      BY <2>1, KeyCounts DEF s
    <3>12. ReadRow(source, key) = Met(source, range)
      BY <3>8, <3>9, <3>10, <3>11
    <3>13. Counted(v) = Cardinality(ReadRow(source, key))
      BY <2>2, <2>8 DEF key
    <3> QED
      BY <3>6, <3>12, <3>13 DEF key
  <2>9. ASSUME Sel(v).sel = "range", Exact(Sel(v).range)
        PROVE  Counted(v) = Cardinality({r \in Visible(source) :
                              Admits(source.schema, Sel(v).range, r)})
    <3> DEFINE range == Sel(v).range
    <3> HIDE DEF range
    <3>1. source.local \/ KeyRange(source.schema, range)
      BY <2>9 DEF Exact, KeyRange, range
    <3>2. Met(source, range) = {r \in Visible(source) : Admits(source.schema, range, r)}
      BY <2>1, <3>1, ExactMeans
    <3>3. Counted(v) = Count(source, Cut(range))
      BY <2>2, <2>9 DEF range
    <3>4. Counted(v) = Cardinality(Met(source, range))
      BY <2>4, <3>3
    <3> QED
      BY <3>2, <3>4 DEF range
  <2> QED
    BY <2>7, <2>8, <2>9
<1> QED
  BY <1>1, TableInvariance, PTL

-----------------------------------------------------------------------------
(* Copies. *)

\* Where columns have different names, a row of a selection fits its schema and has
\* the key that it had.
LEMMA PickedFits ==
  ASSUME NEW s, IsSchema(s), IsInjective(Columns(s)), NEW v, Selected(s, v),
         NEW row \in RowsOf(s.types), NEW picked,
         picked = [c \in DOMAIN Places(s, v.columns) |-> row[Places(s, v.columns)[c]]]
  PROVE  picked \in RowsOf(v.schema.types) /\ Key(v.schema, picked) = Key(s, row)
<1> DEFINE n == Len(s.types)
           k == KeyLen(s)
           m == Len(v.schema.types)
           p == Places(s, v.columns)
           types == v.schema.types
           W == 1 .. n
<1>1. /\ IsSchema(v.schema) /\ DOMAIN p = 1 .. m /\ KeyLen(v.schema) = k
      /\ m = Len(v.columns) /\ v.columns \in Seq(Name)
  BY SelectedPlaces DEF Selected
<1>2. PICK kept : Keeps(s, v, kept)
  BY DEF Selected
<1>3. /\ kept \in Seq(W) /\ Len(kept) = m /\ k <= m
      /\ \A j \in 1 .. k : kept[j] = j
      /\ \A j \in 1 .. m : v.columns[j] = Columns(s)[kept[j]] /\ types[j] = s.types[kept[j]]
  BY <1>1, <1>2 DEF Keeps
<1>4. /\ k \in Nat /\ k >= 1 /\ k <= n /\ Columns(s) \in Seq(Name) /\ Len(Columns(s)) = n
      /\ s.types \in Seq(CellClass)
  BY SchemaParts
<1>5. types \in Seq(CellClass)
  BY <1>1, SchemaParts
<1>6. \A j \in 1 .. n : row[j] \in AllCells /\ Class(row[j]) = s.types[j]
  BY <1>4, RowMeans
<1>7. \A j \in 1 .. m : p[j] = Where(Columns(s), v.columns[j])
  <2>1. DOMAIN v.columns = 1 .. m
    BY <1>1
  <2> QED
    BY <2>1 DEF Places
<1> HIDE DEF n, k, p, types
<1>8. m \in Nat /\ \A j \in 1 .. m : kept[j] \in W
  <2> HIDE DEF W, m
  <2> QED
    BY <1>3
<1> HIDE DEF m
<1>9. \A j \in 1 .. m : p[j] = kept[j]
  <2> TAKE j \in 1 .. m
  <2>1. kept[j] \in 1 .. Len(Columns(s))
    BY <1>4, <1>8 DEF W
  <2>2. Where(Columns(s), Columns(s)[kept[j]]) = kept[j]
    BY <1>4, <2>1, OnePlace
  <2> QED
    BY <1>3, <1>7, <2>2
<1>10. picked = [j \in 1 .. m |-> row[kept[j]]]
  <2>1. picked = [j \in 1 .. m |-> row[p[j]]]
    BY <1>1 DEF p
  <2> QED
    BY <1>9, <2>1
<1>11. \A j \in 1 .. m : picked[j] \in AllCells /\ Class(picked[j]) = types[j]
  BY <1>3, <1>6, <1>8, <1>10, SMTT(30) DEF W
<1>12. picked \in Seq(AllCells) /\ Len(picked) = m /\ DOMAIN picked = 1 .. m
  <2>1. picked \in [1 .. m -> AllCells]
    BY <1>10, <1>11
  <2> QED
    BY <1>8, <2>1, FunctionIsSeq
<1>13. picked \in RowsOf(types)
  <2>1. Len(types) = m
    BY DEF m, types
  <2>2. Fits(picked, types)
    BY <1>11, <1>12, <2>1 DEF Fits
  <2> QED
    BY <1>12, <2>2 DEF RowsOf
<1>14. Key(v.schema, picked) = [i \in 1 .. k |-> picked[i]]
  <2> DEFINE q == v.schema
  <2>1. IsSchema(q) /\ KeyLen(q) = k /\ picked \in RowsOf(q.types)
    BY <1>1, <1>13 DEF types
  <2> HIDE DEF q
  <2>2. Key(q, picked) = [i \in 1 .. KeyLen(q) |-> picked[i]]
    BY <2>1, KeyMeans
  <2> QED
    BY <2>1, <2>2 DEF q
<1>15. Key(s, row) = [i \in 1 .. k |-> row[i]]
  BY KeyMeans DEF k
<1>16. \A i \in 1 .. k : picked[i] = row[i]
  BY <1>3, <1>4, <1>8, <1>10
<1> QED
  BY <1>13, <1>14, <1>15, <1>16 DEF types

\* Of a stream with one row for each key, as many rows as its length are loaded.
LEMMA OneEachCounts ==
  ASSUME NEW s, NEW W, NEW rows \in Seq(W), OneEach(s, rows)
  PROVE  Cardinality(ToSet(rows)) = Len(rows)
<1> DEFINE n == Len(rows)
           S == ToSet(rows)
<1>1. n \in Nat /\ DOMAIN rows = 1 .. n /\ S = {rows[i] : i \in 1 .. n}
  BY DEF ToSet
<1>2. \A i, j \in 1 .. n : rows[i] = rows[j] => i = j
  BY DEF OneEach
<1> HIDE DEF n, S
<1>3. rows \in [1 .. n -> S]
  <2>1. rows = [i \in 1 .. n |-> rows[i]]
    BY DEF n
  <2>2. \A i \in 1 .. n : rows[i] \in S
    BY <1>1
  <2> QED
    BY <2>1, <2>2
<1>4. rows \in Bijection(1 .. n, S)
  BY <1>1, <1>2, <1>3 DEF Bijection, Injection, Surjection, IsInjective
<1>5. IsFiniteSet(1 .. n) /\ Cardinality(1 .. n) = n
  BY <1>1, FS_Interval
<1>6. Cardinality(S) = n
  BY <1>4, <1>5, FS_Bijection DEF ExistsBijection
<1> QED
  BY <1>6 DEF n, S

\* What a view shows is a row of its schema for each of its keys.
LEMMA ViewIsTable ==
  ASSUME NEW t, IsTable(t), NEW v, ViewOf(t.schema, v), HasNatural(t, v.order),
         v.kind = "selection" => IsInjective(Columns(t.schema))
  PROVE  Rows(t, v) \in Seq(RowsOf(v.schema.types)) /\ OneEach(v.schema, Rows(t, v))
<1> DEFINE s == t.schema
           U == RowsOf(s.types)
           a == Slice(t, v)
           c == Take(a, v.limit)
<1>1. IsSchema(s) /\ a \in Seq(U) /\ c \in Seq(U)
  BY TableParts, ViewRows
<1>2. \A i, j \in 1 .. Len(a) : Key(s, a[i]) = Key(s, a[j]) => i = j
  <2>1. Known(t.schema, v.order) /\ v.reverse \in BOOLEAN
    BY DEF ViewOf
  <2>2. a = SourceRows(t, v.range, v.order, v.reverse)
    BY DEF Slice
  <2> HIDE DEF a
  <2> QED
    BY <2>1, <2>2, SourceRowsCount
<1> HIDE DEF a, U
<1>3. Len(c) <= Len(a) /\ \A i \in 1 .. Len(c) : c[i] = a[i]
  <2>1. v.limit \in Nat \cup {NoLimit}
    BY DEF ViewOf
  <2> QED
    BY <1>1, <2>1, TakeMeans
<1> HIDE DEF c
<1>4. /\ Len(c) \in Nat /\ \A i \in 1 .. Len(c) : c[i] \in U
      /\ \A i, j \in 1 .. Len(c) : Key(s, c[i]) = Key(s, c[j]) => i = j
  <2>1. Len(a) \in Nat /\ Len(c) \in Nat
    BY <1>1
  <2>2. \A i \in 1 .. Len(c) : i \in 1 .. Len(a)
    BY <1>3, <2>1
  <2> QED
    BY <1>1, <1>2, <1>3, <2>1, <2>2
<1>5. CASE v.kind # "selection"
  <2>1. Rows(t, v) = c /\ v.schema = s
    BY <1>5 DEF Rows, ViewOf, c, a
  <2> QED
    BY <1>1, <1>4, <2>1 DEF OneEach, U
<1>6. CASE v.kind = "selection"
  <2> DEFINE p == Pick(t, c, v.columns)
             q == v.schema
             L == RowsOf(q.types)
  <2>1. Rows(t, v) = p /\ Selected(s, v)
    BY <1>6 DEF Rows, ViewOf, c, a
  <2>2. /\ Len(p) = Len(c) /\ p \in Seq({p[i] : i \in 1 .. Len(c)})
        /\ \A i \in 1 .. Len(c) : p[i] = PickedRow(t, c[i], v.columns)
    <3>1. Picks(t, c, v.columns)
      BY <1>1, PickMeans
    <3> HIDE DEF p
    <3> QED
      BY <3>1 DEF Picks, p
  <2> HIDE DEF p, q, L
  <2>3. ASSUME NEW i \in 1 .. Len(c) PROVE p[i] \in L /\ Key(q, p[i]) = Key(s, c[i])
    <3> DEFINE row == c[i]
               picked == p[i]
    <3>1. row \in RowsOf(s.types)
      BY <1>4 DEF U
    <3>2. picked = [j \in DOMAIN Places(s, v.columns) |-> row[Places(s, v.columns)[j]]]
      BY <2>2 DEF PickedRow
    <3> HIDE DEF row, picked, s
    <3>3. picked \in RowsOf(v.schema.types) /\ Key(v.schema, picked) = Key(s, row)
      BY <1>1, <1>6, <2>1, <3>1, <3>2, PickedFits DEF s
    <3> QED
      BY <3>3 DEF L, q, row, picked
  <2>4. p \in Seq(L)
    <3>1. p = [i \in 1 .. Len(c) |-> p[i]]
      BY <1>4, <2>2
    <3>2. p \in [1 .. Len(c) -> L]
      BY <2>3, <3>1
    <3> QED
      BY <1>4, <3>2, FunctionIsSeq
  <2>5. OneEach(q, p)
    BY <1>4, <2>2, <2>3 DEF OneEach
  <2> QED
    BY <2>1, <2>4, <2>5 DEF q, L
<1> QED
  BY <1>5, <1>6

\* copy_into makes of every view a table of what it shows.
THEOREM CopiesAreTheirViews == CollectionSpec => []CopyIsView
<1>1. TableInv => CopyIsView
  <2> SUFFICES ASSUME TableInv, Natural,
                      view.kind = "selection" => IsInjective(Columns(source.schema))
               PROVE  /\ CopyInto(source, view).ok
                      /\ CopyInto(source, view).rows = ToSet(Rows(source, view))
                      /\ Cardinality(CopyInto(source, view).rows) = Len(Rows(source, view))
    BY DEF CopyIsView
  <2> DEFINE s == view.schema
             rows == Rows(source, view)
             new == Loaded(s, rows)
             U == RowsOf(s.types)
  <2>1. rows \in Seq(U) /\ OneEach(s, rows) /\ IsSchema(s)
    <3>1. IsTable(source) /\ ViewOf(source.schema, view) /\ HasNatural(source, view.order)
      BY DEF TableInv, Natural, HasNatural
    <3> QED
      BY <3>1, ViewIsTable, ViewRows
  <2>2. CopyInto(source, view)
          = IF \A i \in DOMAIN rows : Parted(s, Key(s, rows[i]), Values(s, rows[i]))
              THEN [ok |-> TRUE, rows |-> new] ELSE [ok |-> FALSE, rows |-> {}]
    BY DEF CopyInto, Parted, Loaded
  <2> HIDE DEF rows, U, s
  <2>3. \A i \in DOMAIN rows : rows[i] \in U
    BY <2>1
  <2>4. \A i \in DOMAIN rows : Parted(s, Key(s, rows[i]), Values(s, rows[i]))
    <3> TAKE i \in DOMAIN rows
    <3> DEFINE r == rows[i]
    <3>1. r \in RowsOf(s.types)
      BY <2>3 DEF U
    <3> HIDE DEF r
    <3>2. r \in Seq(AllCells) /\ Len(r) = Len(s.types)
      BY <3>1 DEF RowsOf, Fits
    <3>3. Parted(s, Key(s, r), Values(s, r))
      BY <2>1, <3>1, <3>2, FitIsParts
    <3> QED
      BY <3>3 DEF r
  <2>5. new = ToSet(rows)
    BY <2>1, LoadMeans
  <2>6. Cardinality(ToSet(rows)) = Len(rows)
    BY <2>1, OneEachCounts
  <2> HIDE DEF new
  <2>7. CopyInto(source, view) = [ok |-> TRUE, rows |-> new]
    BY <2>2, <2>4
  <2> QED
    BY <2>5, <2>6, <2>7 DEF rows
<1> QED
  BY <1>1, TableInvariance, PTL

-----------------------------------------------------------------------------
(* Schemas as values. *)

ColumnOf == [name : Name, class : CellClass]

\* A column is read back from its value, and so is a list of them.
LEMMA ColumnsReadBack ==
  ASSUME NEW columns \in Seq(ColumnOf), NEW list,
         list = [i \in DOMAIN columns |-> ColumnToValue(columns[i])]
  PROVE  /\ IsColumnList(Tup(list))
         /\ Each(CastColumn, Tup(list).tuple) = columns
<1> DEFINE n == Len(columns)
<1>1. n \in Nat /\ DOMAIN columns = 1 .. n /\ columns = [i \in 1 .. n |-> columns[i]]
      /\ \A i \in 1 .. n : columns[i] \in ColumnOf
  <2> HIDE DEF n
  <2>1. \A i \in 1 .. Len(columns) : columns[i] \in ColumnOf
    OBVIOUS
  <2>2. DOMAIN columns = 1 .. Len(columns) /\ Len(columns) \in Nat
        /\ columns = [i \in 1 .. Len(columns) |-> columns[i]]
    OBVIOUS
  <2> QED
    BY <2>1, <2>2 DEF n
<1> HIDE DEF n
<1>2. /\ DOMAIN list = 1 .. n /\ ToSet(list) = {list[i] : i \in 1 .. n}
      /\ \A i \in 1 .. n : list[i] = ColumnToValue(columns[i])
  BY <1>1 DEF ToSet
<1>3. \A c \in ColumnOf : IsColumn(ColumnToValue(c)) /\ CastColumn(ColumnToValue(c)) = c
  <2> TAKE c \in ColumnOf
  <2> DEFINE a == Str(c.name)
             b == Type(c.class)
             v == Tup(<<a, b>>)
  <2>1. DOMAIN b = {"type"} /\ b.type = c.class
    BY DEF Type
  <2>2. Class(b) = "type"
    BY <2>1 DEF Class
  <2>3. Class(a) = "string" /\ a.string = c.name
    BY ValueMeans
  <2> HIDE DEF a, b
  <2>4. IsPair(v) /\ v.tuple[1] = a /\ v.tuple[2] = b
    BY ValueMeans
  <2> HIDE DEF v
  <2>5. ColumnToValue(c) = v
    BY DEF ColumnToValue, v, a, b
  <2>6. c = [name |-> c.name, class |-> c.class]
    BY DEF ColumnOf
  <2> QED
    BY <2>1, <2>2, <2>3, <2>4, <2>5, <2>6 DEF IsColumn, CastColumn
<1>4. IsTup(Tup(list)) /\ Tup(list).tuple = list
  BY ValueMeans
<1>5. IsColumnList(Tup(list))
  BY <1>1, <1>2, <1>3, <1>4, SMTT(30) DEF IsColumnList
<1>6. Each(CastColumn, list) = [i \in 1 .. n |-> CastColumn(list[i])]
  BY <1>2 DEF Each
<1>7. \A i \in 1 .. n : CastColumn(list[i]) = columns[i]
  BY <1>1, <1>2, <1>3
<1>8. Each(CastColumn, Tup(list).tuple) = columns
  <2>1. [i \in 1 .. n |-> CastColumn(list[i])] = columns
    BY <1>1, <1>7
  <2>2. Each(CastColumn, Tup(list).tuple) = [i \in DOMAIN Tup(list).tuple |-> CastColumn(Tup(list).tuple[i])]
    BY DEF Each
  <2> QED
    BY <1>2, <1>4, <2>1, <2>2
<1> QED
  BY <1>5, <1>8

\* An index is read back as new was given it.
LEMMA IndexReadsBack ==
  ASSUME NEW s, NEW x, NEW named \in Seq(Name), named = NamedBy(s, x), NEW v,
         v = IndexToValue(s, x)
  PROVE  /\ IsPair(v) /\ Class(v.tuple[1]) = "string" /\ IsTup(v.tuple[2])
         /\ \A c \in ToSet(v.tuple[2].tuple) : Class(c) = "string"
         /\ CastIndex(v) = [name |-> x.name, columns |-> named]
<1> DEFINE n == Len(named)
           list == [i \in 1 .. n |-> Str(named[i])]
           a == Str(x.name)
           b == Tup(list)
<1>1. n \in Nat /\ DOMAIN named = 1 .. n /\ named = [i \in 1 .. n |-> named[i]]
  OBVIOUS
<1> HIDE DEF n
<1>2. Each(Str, named) = list
  BY <1>1 DEF Each
<1>3. /\ DOMAIN list = 1 .. n /\ ToSet(list) = {list[i] : i \in 1 .. n}
      /\ \A i \in 1 .. n : list[i] = Str(named[i])
  BY DEF ToSet
<1> HIDE DEF list
<1>4. v = Tup(<<a, b>>)
  BY <1>2 DEF IndexToValue
<1>5. Class(a) = "string" /\ a.string = x.name /\ IsTup(b) /\ b.tuple = list
  BY ValueMeans
<1> HIDE DEF a, b
<1>6. IsPair(v) /\ v.tuple[1] = a /\ v.tuple[2] = b
  BY <1>4, ValueMeans
<1>7. \A i \in 1 .. n : Class(list[i]) = "string" /\ list[i].string = named[i]
  BY <1>3, ValueMeans
<1>8. Each(LAMBDA c : c.string, list) = named
  <2>1. Each(LAMBDA c : c.string, list) = [i \in 1 .. n |-> list[i].string]
    BY <1>3 DEF Each
  <2> QED
    BY <1>1, <1>7, <2>1
<1>9. CastIndex(v) = [name |-> a.string, columns |-> Each(LAMBDA c : c.string, list)]
  <2>1. CastIndex(v) = [name |-> v.tuple[1].string,
                        columns |-> [i \in DOMAIN v.tuple[2].tuple |-> v.tuple[2].tuple[i].string]]
    BY DEF CastIndex, Each
  <2>2. v.tuple[1] = a /\ v.tuple[2].tuple = list
    BY <1>5, <1>6
  <2>3. CastIndex(v) = [name |-> a.string, columns |-> [i \in DOMAIN list |-> list[i].string]]
    BY <2>1, <2>2
  <2> QED
    BY <2>3 DEF Each
<1>10. \A c \in ToSet(v.tuple[2].tuple) : Class(c) = "string"
  BY <1>3, <1>5, <1>6, <1>7
<1> QED
  BY <1>5, <1>6, <1>8, <1>9, <1>10

\* The columns of a part of a schema, as values.
LEMMA ColumnValues ==
  ASSUME NEW s, IsSchema(s)
  PROVE  LET all == Each(ColumnToValue, ColumnSchema(s))
             k == KeyLen(s)
         IN  /\ KeySchema(s) \in Seq(ColumnOf) /\ ValueSchema(s) \in Seq(ColumnOf)
             /\ SubSeq(all, 1, k) = [i \in DOMAIN KeySchema(s) |-> ColumnToValue(KeySchema(s)[i])]
             /\ SubSeq(all, k + 1, Len(all))
                  = [i \in DOMAIN ValueSchema(s) |-> ColumnToValue(ValueSchema(s)[i])]
<1> DEFINE all == Each(ColumnToValue, ColumnSchema(s))
           cols == ColumnSchema(s)
           n == Len(s.types)
           k == KeyLen(s)
           A == {all[i] : i \in 1 .. n}
           key == SubSeq(cols, 1, k)
           values == SubSeq(cols, k + 1, n)
<1>1. cols \in Seq(ColumnOf) /\ Len(cols) = n /\ DOMAIN cols = 1 .. n
  BY ColumnsFine DEF IsColumns, ColumnOf
<1>2. k \in Nat /\ k >= 1 /\ k <= n /\ n \in Nat
  BY SchemaParts
<1>3. all = [i \in 1 .. n |-> ColumnToValue(cols[i])]
  BY <1>1 DEF Each
<1> HIDE DEF all, cols, k, n
<1>4. all \in Seq(A) /\ Len(all) = n /\ \A i \in 1 .. n : all[i] = ColumnToValue(cols[i])
  <2>1. \A i \in 1 .. n : all[i] \in A
    OBVIOUS
  <2> HIDE DEF A
  <2>2. all \in [1 .. n -> A]
    BY <1>3, <2>1
  <2> QED
    BY <1>2, <1>3, <2>2, FunctionIsSeq
<1> HIDE DEF A
<1>5. KeySchema(s) = key /\ ValueSchema(s) = values
  BY DEF KeySchema, ValueSchema, cols, k, n
<1>6. /\ key \in Seq(ColumnOf) /\ DOMAIN key = 1 .. (k + 1 - 1)
      /\ \A i \in 1 .. (k + 1 - 1) : key[i] = cols[1 + i - 1]
      /\ SubSeq(all, 1, k) = [i \in 1 .. (k + 1 - 1) |-> all[1 + i - 1]]
  BY <1>1, <1>2, <1>4, SubSeqMeans
<1>7. /\ values \in Seq(ColumnOf) /\ DOMAIN values = 1 .. (n + 1 - (k + 1))
      /\ \A i \in 1 .. (n + 1 - (k + 1)) : values[i] = cols[(k + 1) + i - 1]
      /\ SubSeq(all, k + 1, n) = [i \in 1 .. (n + 1 - (k + 1)) |-> all[(k + 1) + i - 1]]
  BY <1>1, <1>2, <1>4, SubSeqMeans
<1> HIDE DEF key, values
<1>8. /\ \A i \in 1 .. (k + 1 - 1) : 1 + i - 1 \in 1 .. n
      /\ \A i \in 1 .. (n + 1 - (k + 1)) : (k + 1) + i - 1 \in 1 .. n
  BY <1>2
<1>9. SubSeq(all, 1, k) = [i \in DOMAIN key |-> ColumnToValue(key[i])]
  <2>1. \A i \in 1 .. (k + 1 - 1) : all[1 + i - 1] = ColumnToValue(key[i])
    BY <1>4, <1>6, <1>8
  <2> QED
    BY <1>6, <2>1
<1>10. SubSeq(all, k + 1, n) = [i \in DOMAIN values |-> ColumnToValue(values[i])]
  <2>1. \A i \in 1 .. (n + 1 - (k + 1)) : all[(k + 1) + i - 1] = ColumnToValue(values[i])
    BY <1>4, <1>7, <1>8
  <2> QED
    BY <1>7, <2>1
<1> QED
  BY <1>4, <1>5, <1>6, <1>7, <1>9, <1>10 DEF all, k

\* A schema is read back from its value.
LEMMA SchemaReadsBack ==
  ASSUME NEW s, IsSchema(s)
  PROVE  SchemaFromValue(SchemaToValue(s)) = s /\ CanCastFrom(SchemaToValue(s))
<1> DEFINE all == Each(ColumnToValue, ColumnSchema(s))
           key == KeySchema(s)
           values == ValueSchema(s)
           K == SubSeq(all, 1, KeyLen(s))
           V == SubSeq(all, KeyLen(s) + 1, Len(all))
           I == [i \in DOMAIN s.indices |-> IndexToValue(s, s.indices[i])]
           columns == Tup(<<Tup(K), Tup(V)>>)
           v == Tup(<<columns, Tup(I)>>)
<1>1. SchemaToValue(s) = v
  BY DEF SchemaToValue
<1>2. /\ key \in Seq(ColumnOf) /\ values \in Seq(ColumnOf)
      /\ K = [i \in DOMAIN key |-> ColumnToValue(key[i])]
      /\ V = [i \in DOMAIN values |-> ColumnToValue(values[i])]
  BY ColumnValues
<1>3. DOMAIN I = DOMAIN s.indices /\ \A i \in DOMAIN I : I[i] = IndexToValue(s, s.indices[i])
  OBVIOUS
<1> HIDE DEF key, values, K, V, I
<1>4. /\ IsColumnList(Tup(K)) /\ Each(CastColumn, Tup(K).tuple) = key
      /\ IsColumnList(Tup(V)) /\ Each(CastColumn, Tup(V).tuple) = values
  BY <1>2, ColumnsReadBack
<1>5. ASSUME NEW i \in DOMAIN I
      PROVE  /\ IsPair(I[i]) /\ Class(I[i].tuple[1]) = "string" /\ IsTup(I[i].tuple[2])
             /\ \A c \in ToSet(I[i].tuple[2].tuple) : Class(c) = "string"
             /\ CastIndex(I[i]) = Made(s)[i]
             /\ ToSet(Made(s)[i].columns) \subseteq Name
  <2> DEFINE x == s.indices[i]
             named == NamedBy(s, x)
  <2>1. IndexParts(s, x)
    BY <1>3, IndexMeans
  <2>2. I[i] = IndexToValue(s, x) /\ Made(s)[i] = [name |-> x.name, columns |-> named]
    BY <1>3 DEF Made
  <2> HIDE DEF x, named
  <2>3. named \in Seq(Name)
    BY <2>1 DEF IndexParts, named
  <2>4. ToSet(named) \subseteq Name
    BY <2>3 DEF ToSet
  <2> DEFINE q == I[i]
  <2>5. q = IndexToValue(s, x) /\ named = NamedBy(s, x)
    BY <2>2 DEF named
  <2> HIDE DEF q
  <2>6. /\ IsPair(q) /\ Class(q.tuple[1]) = "string" /\ IsTup(q.tuple[2])
        /\ \A c \in ToSet(q.tuple[2].tuple) : Class(c) = "string"
        /\ CastIndex(q) = [name |-> x.name, columns |-> named]
    BY <2>3, <2>5, IndexReadsBack
  <2> QED
    BY <2>2, <2>4, <2>6 DEF q
<1>6. /\ IsPair(v) /\ v.tuple[1] = columns /\ v.tuple[2] = Tup(I)
      /\ IsPair(columns) /\ columns.tuple[1] = Tup(K) /\ columns.tuple[2] = Tup(V)
      /\ IsTup(Tup(I)) /\ Tup(I).tuple = I /\ Tup(I) # None
  BY ValueMeans
<1> HIDE DEF columns, v
<1>7. IsIndexList(Tup(I))
  <2>1. \A x \in ToSet(I) : \E i \in DOMAIN I : x = I[i]
    BY DEF ToSet
  <2>2. \A x \in ToSet(I) : /\ IsPair(x) /\ Class(x.tuple[1]) = "string" /\ IsTup(x.tuple[2])
                            /\ \A c \in ToSet(x.tuple[2].tuple) : Class(c) = "string"
    BY <1>5, <2>1
  <2> QED
    BY <1>6, <2>2 DEF IsIndexList
<1>8. CanCastFrom(v)
  BY <1>4, <1>6, <1>7 DEF CanCastFrom, IsNest
<1>9. Each(CastIndex, I) = Made(s)
  <2>1. Each(CastIndex, I) = [i \in DOMAIN I |-> CastIndex(I[i])]
    BY DEF Each
  <2>2. Made(s) = [i \in DOMAIN I |-> Made(s)[i]]
    BY <1>3 DEF Made
  <2>3. \A i \in DOMAIN I : CastIndex(I[i]) = Made(s)[i]
    BY <1>5
  <2> QED
    BY <2>1, <2>2, <2>3
<1>10. DOMAIN Made(s) = DOMAIN I
  BY <1>3 DEF Made
<1>11. key \o values = ColumnSchema(s) /\ NewSchema(key, values, Made(s)) = s
  BY SchemaFixed DEF key, values
<1>12. ToSet(NamesOf(ColumnSchema(s))) \subseteq Name
  <2>1. /\ DOMAIN ColumnSchema(s) = 1 .. Len(s.types)
        /\ \A i \in 1 .. Len(s.types) : ColumnSchema(s)[i].name = Columns(s)[i]
        /\ Columns(s) \in Seq(Name) /\ Len(Columns(s)) = Len(s.types)
    BY ColumnsFine, SchemaParts
  <2>2. \A i \in 1 .. Len(s.types) : Columns(s)[i] \in Name
    BY <2>1
  <2> QED
    BY <2>1, <2>2 DEF NamesOf, ToSet
<1>13. SchemaFromValue(v)
         = LET names == (UNION {ToSet(Made(s)[i].columns) : i \in DOMAIN Made(s)})
                        \cup ToSet(NamesOf(key \o values))
           IN  IF names \subseteq Name THEN NewSchema(key, values, Made(s)) ELSE NoSchema
  <2>1. /\ Each(CastColumn, v.tuple[1].tuple[1].tuple) = key
        /\ Each(CastColumn, v.tuple[1].tuple[2].tuple) = values
        /\ Each(CastIndex, v.tuple[2].tuple) = Made(s)
        /\ v.tuple[2] # None
    <3>1. /\ v.tuple[1].tuple[1].tuple = Tup(K).tuple /\ v.tuple[1].tuple[2].tuple = Tup(V).tuple
          /\ v.tuple[2].tuple = I
      BY <1>6
    <3>2. /\ Each(CastColumn, v.tuple[1].tuple[1].tuple) = Each(CastColumn, Tup(K).tuple)
          /\ Each(CastColumn, v.tuple[1].tuple[2].tuple) = Each(CastColumn, Tup(V).tuple)
          /\ Each(CastIndex, v.tuple[2].tuple) = Each(CastIndex, I)
      BY <3>1 DEF Each
    <3> QED
      BY <1>4, <1>6, <1>9, <3>2
  <2> DEFINE k0 == Each(CastColumn, v.tuple[1].tuple[1].tuple)
             v0 == Each(CastColumn, v.tuple[1].tuple[2].tuple)
             i0 == IF v.tuple[2] = None THEN <<>> ELSE Each(CastIndex, v.tuple[2].tuple)
             names == (UNION {ToSet(i0[i].columns) : i \in DOMAIN i0})
                      \cup ToSet(NamesOf(k0 \o v0))
  <2>2. SchemaFromValue(v) = IF names \subseteq Name THEN NewSchema(k0, v0, i0) ELSE NoSchema
    BY <1>8 DEF SchemaFromValue
  <2>3. k0 = key /\ v0 = values /\ i0 = Made(s)
    BY <2>1
  <2> HIDE DEF k0, v0, i0
  <2> QED
    BY <2>2, <2>3
<1>14. (UNION {ToSet(Made(s)[i].columns) : i \in DOMAIN Made(s)})
         \cup ToSet(NamesOf(key \o values)) \subseteq Name
  <2> DEFINE m == Made(s)
             A == UNION {ToSet(Made(s)[i].columns) : i \in DOMAIN Made(s)}
             B == ToSet(NamesOf(key \o values))
  <2>1. \A i \in DOMAIN m : ToSet(m[i].columns) \subseteq Name
    BY <1>5, <1>10
  <2>2. ToSet(NamesOf(key \o values)) \subseteq Name
    BY <1>11, <1>12
  <2> HIDE DEF m
  <2>3. UNION {ToSet(m[i].columns) : i \in DOMAIN m} \subseteq Name
    BY <2>1
  <2>4. A \subseteq Name
    BY <2>3 DEF m
  <2> HIDE DEF A, B
  <2>5. A \cup B \subseteq Name
    BY <2>2, <2>4 DEF B
  <2> QED
    BY <2>5 DEF A, B
<1> QED
  BY <1>1, <1>8, <1>11, <1>13, <1>14

\* The schema of whatever a caller holds, written as a value, is read back as it was.
THEOREM SchemasReadBack == CollectionSpec => []SchemaRoundTrip
<1>1. TableInv => SchemaRoundTrip
  BY ViewRows, SchemaReadsBack DEF TableInv, SchemaRoundTrip
<1> QED
  BY <1>1, TableInvariance, PTL
=============================================================================
