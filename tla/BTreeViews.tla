------------------------------ MODULE BTreeViews ------------------------------
(***************************************************************************)
(* Slices of a BTree (BTreeView in src/src/collection.rs) and its routes   *)
(* (src/src/btree/route.rs): a caller holds a view of a tree, with bounds  *)
(* and a direction, and slices it again and again.                         *)
(*                                                                         *)
(* Keys are integers and the tree is the set of keys that the caller's     *)
(* transaction sees; BTree has the rest of it.                             *)
(***************************************************************************)
EXTENDS SequencesExt, Integers, Sorting

CONSTANTS BKeys,   \* the keys of the tree
          Bounds   \* bounds of slices: Unbounded, Included and Excluded keys

VARIABLES keys,    \* the visible keys
          btree,   \* the view that the caller holds
          asked    \* history: the keys that every slice so far asked for

btreeVars == <<keys, btree, asked>>

Unbounded == [kind |-> "unbounded", at |-> 0]
Included(k) == [kind |-> "included", at |-> k]
Excluded(k) == [kind |-> "excluded", at |-> k]

IsTreeBound(b) == b = Unbounded \/ (b.at \in Int /\ b \in {Included(b.at), Excluded(b.at)})

ASSUME TreeAssumption ==
  /\ BKeys \in SUBSET Int /\ IsFiniteSet(BKeys)
  /\ \A b \in Bounds : IsTreeBound(b)

\* BTreeView::new
WholeTree == [lower |-> Unbounded, upper |-> Unbounded, reverse |-> FALSE]

BTreeInit ==
  /\ keys \in SUBSET BKeys
  /\ btree = WholeTree
  /\ asked = BKeys

Admitted(lower, upper) ==
  {k \in BKeys :
     /\ lower = Unbounded \/ k > lower.at \/ lower = Included(k)
     /\ upper = Unbounded \/ k < upper.at \/ upper = Included(k)}

\* Mutant of MaxLower: of two bounds at one key, the included one.
MaxLower_Included(left, right) ==
  IF left = Unbounded THEN right
  ELSE IF right = Unbounded THEN left
  ELSE IF left.at # right.at THEN IF left.at > right.at THEN left ELSE right
  ELSE IF left.kind = "included" THEN left ELSE right

\* max_lower_bound and min_upper_bound: the tighter of two bounds; of two at one key,
\* the excluded one.
MaxLower(left, right) ==
  IF left = Unbounded THEN right
  ELSE IF right = Unbounded THEN left
  ELSE IF left.at # right.at THEN IF left.at > right.at THEN left ELSE right
  ELSE IF left.kind = "excluded" THEN left ELSE right
MinUpper(left, right) ==
  IF left = Unbounded THEN right
  ELSE IF right = Unbounded THEN left
  ELSE IF left.at # right.at THEN IF left.at < right.at THEN left ELSE right
  ELSE IF left.kind = "excluded" THEN left ELSE right

\* BTreeView::slice: bounds meet, the direction is the new one.
SliceBTree(view, lower, upper, reverse) ==
  [lower |-> MaxLower(view.lower, lower), upper |-> MinUpper(view.upper, upper),
   reverse |-> reverse]

\* BTree::keys of a view.
KeysIn(view) ==
  Sorted(keys \cap Admitted(view.lower, view.upper),
         LAMBDA l, r : IF view.reverse THEN l > r ELSE l < r)

\* The routes count and is_empty, of a slice of the view.
CountKeys(lower, upper, reverse) == Len(KeysIn(SliceBTree(btree, lower, upper, reverse)))

\* GET and slice.  A slice that the routes make includes its start and excludes its
\* end; callers of the library give any bounds.
GetSlice ==
  \E lower, upper \in Bounds, reverse \in BOOLEAN :
    /\ btree' = SliceBTree(btree, lower, upper, reverse)
    /\ asked' = asked \cap Admitted(lower, upper)
    /\ UNCHANGED keys

\* insert and delete, through any view, are of the whole tree.
PutKey == \E k \in BKeys : keys' = keys \cup {k} /\ UNCHANGED <<btree, asked>>
DeleteKey == \E k \in BKeys : keys' = keys \ {k} /\ UNCHANGED <<btree, asked>>

\* copy_into: the caller goes on with the copy.
CopyTree ==
  /\ keys' = ToSet(KeysIn(btree))
  /\ btree' = WholeTree
  /\ asked' = BKeys

\* restore_from of a whole tree: it shows what the source shows.
WholeOwner(view) ==
  view.lower = Unbounded /\ view.upper = Unbounded /\ ~view.reverse
RestoreTree ==
  /\ WholeOwner(btree)
  /\ keys' \in SUBSET BKeys
  /\ UNCHANGED <<btree, asked>>

BTreeNext == GetSlice \/ PutKey \/ DeleteKey \/ CopyTree \/ RestoreTree

\* However often a view is sliced, by whatever mix of included and excluded bounds,
\* it shows exactly the keys that every one of the slices asked for, and counts
\* through it are of those.
SliceIsIntersection ==
  /\ ToSet(KeysIn(btree)) = keys \cap asked
  /\ \A lower, upper \in Bounds, reverse \in BOOLEAN :
       CountKeys(lower, upper, reverse)
         = Cardinality(keys \cap asked \cap Admitted(lower, upper))
=============================================================================
