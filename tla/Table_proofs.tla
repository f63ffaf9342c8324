----------------------------- MODULE Table_proofs -----------------------------
(***************************************************************************)
(* The properties of Table, proved.  Calls of one transaction are held     *)
(* apart by their permits, transactions by the reservations: a key that a  *)
(* call or a read relies on is changed by no step of another.              *)
(***************************************************************************)
EXTENDS Table, InductionLemmas

-----------------------------------------------------------------------------
(* The loops over the committed deltas of a snapshot: each is a recursive  *)
(* function, and is shown to satisfy its recurrence, so that what it       *)
(* computes can be proved by induction over the transactions.              *)

\* A delta through which a loop goes is a delta.
LEMMA LayersAreDeltas == TypeOK => \A u \in Txn : HasDelta(u) => committed[u] \in Delta
BY DEF TypeOK, HasDelta

\* What is read beneath the delta of a transaction, one transaction after the other.
BeneathSteps ==
  /\ \A n \in Nat : Beneath(n) \in Native
  /\ Beneath(0) = persistent
  /\ \A n \in Nat :
       Beneath(n + 1) = IF n + 1 \in Txn /\ HasDelta(n + 1)
                          THEN ResolveThrough(Beneath(n), committed[n + 1])
                          ELSE Beneath(n)

\* The fold that Beneath stands for takes one step for each transaction.
LEMMA BeneathLoop == TypeOK => BeneathSteps
<1> SUFFICES ASSUME TypeOK PROVE BeneathSteps
  OBVIOUS
<1> DEFINE Step(x, n) == IF n \in Txn /\ HasDelta(n) THEN ResolveThrough(x, committed[n]) ELSE x
           F == [n \in Nat |-> [x \in Native |-> Step(x, n)]]
<1>1. ASSUME NEW x \in Native, NEW n \in Nat PROVE Step(x, n) \in Native
  BY <1>1, LayersAreDeltas DEF ResolveThrough, Native, Delta
<1>2. F \in [Nat -> [Native -> Native]]
  BY <1>1
<1>3. persistent \in Native
  BY DEF TypeOK
<1>4. PICK f \in [Nat -> Native] : f[0] = persistent /\ \A n \in Nat : f[n + 1] = F[n + 1][f[n]]
  <2> HIDE DEF F, Step
  <2> QED
    BY <1>2, <1>3, Recursion, Z3T(30)
<1>5. \A n \in Nat : n # 0 => n - 1 \in Nat /\ (n - 1) + 1 = n
  OBVIOUS
<1>6. \A n \in Nat : n # 0 => f[n] = Step(f[n - 1], n)
  BY <1>4, <1>5
<1>7. f = [n \in Nat |-> IF n = 0 THEN persistent
                         ELSE IF n \in Txn /\ HasDelta(n) THEN ResolveThrough(f[n - 1], committed[n])
                         ELSE f[n - 1]]
  BY <1>4, <1>6
<1> DEFINE g == CHOOSE h : h = [n \in Nat |->
                  IF n = 0 THEN persistent
                  ELSE IF n \in Txn /\ HasDelta(n) THEN ResolveThrough(h[n - 1], committed[n])
                  ELSE h[n - 1]]
<1>8. g = [n \in Nat |-> IF n = 0 THEN persistent
                         ELSE IF n \in Txn /\ HasDelta(n) THEN ResolveThrough(g[n - 1], committed[n])
                         ELSE g[n - 1]]
  BY <1>7
<1>9. \A n \in Nat : Beneath(n) = g[n]
  BY DEF Beneath, ThroughCommitted
<1> HIDE DEF g
<1>10. g[0] = persistent /\ \A n \in Nat : g[n + 1] = Step(g[n], n + 1)
  <2>1. \A n \in Nat : n + 1 \in Nat /\ n + 1 # 0 /\ (n + 1) - 1 = n
    OBVIOUS
  <2>2. \A n \in Nat : g[n] = IF n = 0 THEN persistent ELSE Step(g[n - 1], n)
    BY <1>8, Zenon
  <2> QED
    BY <2>1, <2>2
<1>11. \A n \in Nat : g[n] \in Native
  <2> DEFINE S == {n \in Nat : g[n] \in Native}
  <2>1. 0 \in S /\ S \in SUBSET Nat
    BY <1>3, <1>10
  <2>2. ASSUME NEW n \in S PROVE n + 1 \in S
    <3>1. n \in Nat /\ n + 1 \in Nat /\ g[n] \in Native
      OBVIOUS
    <3> HIDE DEF Step
    <3>2. Step(g[n], n + 1) \in Native
      BY <1>1, <3>1
    <3> QED
      BY <1>10, <3>1, <3>2
  <2> HIDE DEF S
  <2>3. \A n \in Nat : n \in S
    BY <2>1, <2>2, Induction
  <2> QED
    BY <2>3 DEF S
<1> QED
  BY <1>9, <1>10, <1>11 DEF BeneathSteps

\* What finalize makes of canonical storage, one transaction after the other.
MaterializedSteps ==
  /\ \A n \in Nat : Materialized(n) \in Native
  /\ Materialized(0) = persistent
  /\ \A n \in Nat :
       Materialized(n + 1) = IF n + 1 \in Txn /\ HasDelta(n + 1)
                               THEN ApplyTo(Materialized(n), committed[n + 1])
                               ELSE Materialized(n)

\* So does the one that makes canonical storage.
LEMMA MaterializedLoop == TypeOK => MaterializedSteps
<1> SUFFICES ASSUME TypeOK PROVE MaterializedSteps
  OBVIOUS
<1> DEFINE Step(x, n) == IF n \in Txn /\ HasDelta(n) THEN ApplyTo(x, committed[n]) ELSE x
           F == [n \in Nat |-> [x \in Native |-> Step(x, n)]]
<1>1. ASSUME NEW x \in Native, NEW n \in Nat PROVE Step(x, n) \in Native
  BY <1>1, LayersAreDeltas DEF ApplyTo, Native, Delta
<1>2. F \in [Nat -> [Native -> Native]]
  BY <1>1
<1>3. persistent \in Native
  BY DEF TypeOK
<1>4. PICK f \in [Nat -> Native] : f[0] = persistent /\ \A n \in Nat : f[n + 1] = F[n + 1][f[n]]
  <2> HIDE DEF F, Step
  <2> QED
    BY <1>2, <1>3, Recursion, Z3T(30)
<1>5. \A n \in Nat : n # 0 => n - 1 \in Nat /\ (n - 1) + 1 = n
  OBVIOUS
<1>6. \A n \in Nat : n # 0 => f[n] = Step(f[n - 1], n)
  BY <1>4, <1>5
<1>7. f = [n \in Nat |-> IF n = 0 THEN persistent
                         ELSE IF n \in Txn /\ HasDelta(n) THEN ApplyTo(f[n - 1], committed[n])
                         ELSE f[n - 1]]
  BY <1>4, <1>6
<1> DEFINE g == CHOOSE h : h = [n \in Nat |->
                  IF n = 0 THEN persistent
                  ELSE IF n \in Txn /\ HasDelta(n) THEN ApplyTo(h[n - 1], committed[n])
                  ELSE h[n - 1]]
<1>8. g = [n \in Nat |-> IF n = 0 THEN persistent
                         ELSE IF n \in Txn /\ HasDelta(n) THEN ApplyTo(g[n - 1], committed[n])
                         ELSE g[n - 1]]
  BY <1>7
<1>9. \A n \in Nat : Materialized(n) = g[n]
  BY DEF Materialized, ThroughCommitted
<1> HIDE DEF g
<1>10. g[0] = persistent /\ \A n \in Nat : g[n + 1] = Step(g[n], n + 1)
  <2>1. \A n \in Nat : n + 1 \in Nat /\ n + 1 # 0 /\ (n + 1) - 1 = n
    OBVIOUS
  <2>2. \A n \in Nat : g[n] = IF n = 0 THEN persistent ELSE Step(g[n - 1], n)
    BY <1>8, Zenon
  <2> QED
    BY <2>1, <2>2
<1>11. \A n \in Nat : g[n] \in Native
  <2> DEFINE S == {n \in Nat : g[n] \in Native}
  <2>1. 0 \in S /\ S \in SUBSET Nat
    BY <1>3, <1>10
  <2>2. ASSUME NEW n \in S PROVE n + 1 \in S
    <3>1. n \in Nat /\ n + 1 \in Nat /\ g[n] \in Native
      OBVIOUS
    <3> HIDE DEF Step
    <3>2. Step(g[n], n + 1) \in Native
      BY <1>1, <3>1
    <3> QED
      BY <1>10, <3>1, <3>2
  <2> HIDE DEF S
  <2>3. \A n \in Nat : n \in S
    BY <2>1, <2>2, Induction
  <2> QED
    BY <2>3 DEF S
<1> QED
  BY <1>9, <1>10, <1>11 DEF MaterializedSteps

\* A range read beneath the delta of a transaction, one transaction after the other.
RangeBelow(t, range) ==
  LET Merge(rows, d) == MergeInto(rows, d, range)
  IN  ThroughCommitted(Merge, RowsIn(persistent, range), t)

\* What a range read makes of them, one transaction after the other.
RangeSteps ==
  \A range \in SUBSET Row :
    /\ \A n \in Nat : RangeBelow(n, range) \in SUBSET Row
    /\ RangeBelow(0, range) = RowsIn(persistent, range)
    /\ \A n \in Nat :
         RangeBelow(n + 1, range) = IF n + 1 \in Txn /\ HasDelta(n + 1)
                                      THEN MergeInto(RangeBelow(n, range), committed[n + 1], range)
                                      ELSE RangeBelow(n, range)

\* So does the one that reads a range.
LEMMA RangeLoop == TypeOK => RangeSteps
<1> SUFFICES ASSUME TypeOK, NEW range \in SUBSET Row
             PROVE  /\ \A n \in Nat : RangeBelow(n, range) \in SUBSET Row
                    /\ RangeBelow(0, range) = RowsIn(persistent, range)
                    /\ \A n \in Nat :
                         RangeBelow(n + 1, range) =
                           IF n + 1 \in Txn /\ HasDelta(n + 1)
                             THEN MergeInto(RangeBelow(n, range), committed[n + 1], range)
                             ELSE RangeBelow(n, range)
  BY DEF RangeSteps
<1> DEFINE V == SUBSET Row
           Step(x, n) == IF n \in Txn /\ HasDelta(n) THEN MergeInto(x, committed[n], range) ELSE x
           F == [n \in Nat |-> [x \in V |-> Step(x, n)]]
<1>1. ASSUME NEW x \in SUBSET Row, NEW n \in Nat PROVE Step(x, n) \in SUBSET Row
  BY <1>1, LayersAreDeltas DEF MergeInto, WithoutRows, RowsIn
<1>2. F \in [Nat -> [V -> V]]
  BY <1>1
<1>3. RowsIn(persistent, range) \in V
  BY DEF RowsIn
<1>4. PICK f \in [Nat -> V] : /\ f[0] = RowsIn(persistent, range)
                             /\ \A n \in Nat : f[n + 1] = F[n + 1][f[n]]
  <2> DEFINE a == RowsIn(persistent, range)
  <2>1. a \in V
    BY <1>3
  <2> HIDE DEF F, Step, V, a
  <2>2. \E f \in [Nat -> V] : f[0] = a /\ \A n \in Nat : f[n + 1] = F[n + 1][f[n]]
    BY <1>2, <2>1, Recursion, Z3
  <2> QED
    BY <2>2 DEF a
<1>5. \A n \in Nat : n # 0 => n - 1 \in Nat /\ (n - 1) + 1 = n
  OBVIOUS
<1>6. \A n \in Nat : n # 0 => f[n] = Step(f[n - 1], n)
  BY <1>4, <1>5
<1>7. f = [n \in Nat |-> IF n = 0 THEN RowsIn(persistent, range)
                         ELSE IF n \in Txn /\ HasDelta(n) THEN MergeInto(f[n - 1], committed[n], range)
                         ELSE f[n - 1]]
  BY <1>4, <1>6
<1> DEFINE g == CHOOSE h : h = [n \in Nat |->
                  IF n = 0 THEN RowsIn(persistent, range)
                  ELSE IF n \in Txn /\ HasDelta(n) THEN MergeInto(h[n - 1], committed[n], range)
                  ELSE h[n - 1]]
<1>8. g = [n \in Nat |-> IF n = 0 THEN RowsIn(persistent, range)
                         ELSE IF n \in Txn /\ HasDelta(n) THEN MergeInto(g[n - 1], committed[n], range)
                         ELSE g[n - 1]]
  BY <1>7
<1>9. \A n \in Nat : RangeBelow(n, range) = g[n]
  BY DEF RangeBelow, ThroughCommitted
<1> HIDE DEF g
<1>10. g[0] = RowsIn(persistent, range) /\ \A n \in Nat : g[n + 1] = Step(g[n], n + 1)
  <2>1. \A n \in Nat : n + 1 \in Nat /\ n + 1 # 0 /\ (n + 1) - 1 = n
    OBVIOUS
  <2>2. \A n \in Nat : g[n] = IF n = 0 THEN RowsIn(persistent, range) ELSE Step(g[n - 1], n)
    BY <1>8, Zenon
  <2> QED
    BY <2>1, <2>2
<1>11. \A n \in Nat : g[n] \in SUBSET Row
  <2> DEFINE S == {n \in Nat : g[n] \in SUBSET Row}
  <2>1. 0 \in S /\ S \in SUBSET Nat
    BY <1>3, <1>10
  <2>2. ASSUME NEW n \in S PROVE n + 1 \in S
    <3>1. n \in Nat /\ n + 1 \in Nat /\ g[n] \in SUBSET Row
      OBVIOUS
    <3> HIDE DEF Step
    <3>2. Step(g[n], n + 1) \in SUBSET Row
      BY <1>1, <3>1
    <3> QED
      BY <1>10, <3>1, <3>2
  <2> HIDE DEF S
  <2>3. \A n \in Nat : n \in S
    BY <2>1, <2>2, Induction
  <2> QED
    BY <2>3 DEF S
<1> QED
  BY <1>9, <1>10, <1>11 DEF RangeSteps

-----------------------------------------------------------------------------
(* What the loops compute.                                                 *)

\* No key on both sides of a delta.
Disjoint(d) == \A k \in Key : NoRow \in {d.inserts[k], d.deletes[k]}
\* No committed delta has rows of one key on both sides.
CommittedDisjoint == \A u \in Txn : HasDelta(u) => Disjoint(committed[u])

\* A range over the key columns: rows of one key are in it or out of it together.
KeyRange(range) == \A r, s \in Row : r.key = s.key => (r \in range <=> s \in range)

\* A layer over rows makes rows.
LEMMA TableTypes ==
  ASSUME NEW d \in Delta, NEW b \in Native
  PROVE  /\ ResolveThrough(b, d) \in Native /\ ApplyTo(b, d) \in Native
         /\ d.inserts \in Native /\ d.deletes \in Native
BY DEF Delta, Native, ResolveThrough, ApplyTo

\* Materialization lets the deletes of a delta win, row reads its inserts: the same
\* when no key is on both sides.
LEMMA MaterializedIsRead ==
  ASSUME TypeOK, CommittedDisjoint, NEW n \in Nat
  PROVE  Materialized(n) = Beneath(n)
<1>1. BeneathSteps /\ MaterializedSteps
  BY BeneathLoop, MaterializedLoop
<1> DEFINE S == {i \in Nat : Materialized(i) = Beneath(i)}
<1>2. 0 \in S /\ S \in SUBSET Nat
  BY <1>1 DEF BeneathSteps, MaterializedSteps
<1>3. ASSUME NEW i \in S PROVE i + 1 \in S
  <2>1. /\ i \in Nat /\ i + 1 \in Nat /\ Materialized(i) = Beneath(i)
        /\ Beneath(i) \in Native
    BY <1>1 DEF BeneathSteps
  <2>2. CASE i + 1 \in Txn /\ HasDelta(i + 1)
    <3>1. PICK d \in Delta : d = committed[i + 1] /\ Disjoint(d)
      BY <2>2, LayersAreDeltas DEF CommittedDisjoint
    <3>2. ApplyTo(Beneath(i), d) = ResolveThrough(Beneath(i), d)
      BY <3>1 DEF ApplyTo, ResolveThrough, Disjoint, Delta, Native
    <3>3. Materialized(i + 1) = Beneath(i + 1)
      BY <1>1, <2>1, <2>2, <3>1, <3>2 DEF BeneathSteps, MaterializedSteps
    <3> QED
      BY <2>1, <3>3
  <2>3. CASE ~(i + 1 \in Txn /\ HasDelta(i + 1))
    BY <1>1, <2>1, <2>3 DEF BeneathSteps, MaterializedSteps
  <2> QED
    BY <2>2, <2>3
<1> HIDE DEF S
<1>4. n \in S
  BY <1>2, <1>3, Induction
<1> QED
  BY <1>4 DEF S

\* One layer of a range read does to the rows in range what it does to each row.
LEMMA MergeIsResolve ==
  ASSUME NEW range \in SUBSET Row, KeyRange(range),
         NEW b \in Native, NEW d \in Delta, Disjoint(d)
  PROVE  MergeInto(RowsIn(b, range), d, range) = RowsIn(ResolveThrough(b, d), range)
<1> SUFFICES ASSUME NEW r \in Row
             PROVE  r \in MergeInto(RowsIn(b, range), d, range)
                      <=> r \in RowsIn(ResolveThrough(b, d), range)
  BY DEF MergeInto, WithoutRows, RowsIn
<1>1. /\ r.key \in Key /\ r.val \in Val
      /\ \A k \in Key, v \in Val : [key |-> k, val |-> v] \in Row
      /\ \A s \in Row : s.key \in Key /\ s.val \in Val
  BY DEF Row
<1>2. /\ d.inserts \in Native /\ d.deletes \in Native
      /\ NoRow \in {d.inserts[r.key], d.deletes[r.key]}
  BY <1>1, TableTypes DEF Disjoint
<1>3. ASSUME NEW native \in Native
      PROVE  (\E x \in RowsIn(native, range) : x.key = r.key)
                <=> r \in range /\ native[r.key] # NoRow
  <2>1. ASSUME NEW x \in RowsIn(native, range), x.key = r.key
        PROVE  r \in range /\ native[r.key] # NoRow
    BY <1>1, <2>1, NoRowAssumption DEF RowsIn, KeyRange
  <2>2. ASSUME r \in range, native[r.key] # NoRow
        PROVE  \E x \in RowsIn(native, range) : x.key = r.key
    <3> DEFINE x == [key |-> r.key, val |-> native[r.key]]
    <3>1. native[r.key] \in Val
      BY <1>1, <2>2 DEF Native
    <3>2. x \in Row /\ x.key = r.key /\ x.val = native[r.key]
      BY <1>1, <3>1
    <3> HIDE DEF x
    <3>3. x \in range
      BY <2>2, <3>2 DEF KeyRange
    <3> QED
      BY <3>2, <3>3 DEF RowsIn
  <2> QED
    BY <2>1, <2>2
<1>4. r \in MergeInto(RowsIn(b, range), d, range) <=>
        /\ \/ r \in RowsIn(d.inserts, range)
           \/ r \in RowsIn(b, range) /\ ~(\E x \in RowsIn(d.inserts, range) : x.key = r.key)
        /\ ~(\E x \in RowsIn(d.deletes, range) : x.key = r.key)
  BY DEF MergeInto, WithoutRows
<1>5. /\ r \in RowsIn(d.inserts, range) <=> r \in range /\ d.inserts[r.key] = r.val
      /\ r \in RowsIn(b, range) <=> r \in range /\ b[r.key] = r.val
  BY DEF RowsIn
<1>6. r \in RowsIn(ResolveThrough(b, d), range) <=>
        /\ r \in range
        /\ r.val = IF d.inserts[r.key] # NoRow THEN d.inserts[r.key]
                   ELSE IF d.deletes[r.key] # NoRow THEN NoRow ELSE b[r.key]
  BY <1>1 DEF RowsIn, ResolveThrough
<1>7. r.val # NoRow
  BY <1>1, NoRowAssumption
<1> QED
  BY <1>2, <1>3, <1>4, <1>5, <1>6, <1>7

\* A range read through the committed deltas finds the rows that row reads find.
LEMMA RangeBelowIsRead ==
  ASSUME TypeOK, CommittedDisjoint, NEW range \in SUBSET Row, KeyRange(range), NEW n \in Nat
  PROVE  RangeBelow(n, range) = RowsIn(Beneath(n), range)
<1>1. BeneathSteps /\ RangeSteps
  BY BeneathLoop, RangeLoop
<1> DEFINE S == {i \in Nat : RangeBelow(i, range) = RowsIn(Beneath(i), range)}
<1>2. 0 \in S /\ S \in SUBSET Nat
  BY <1>1 DEF BeneathSteps, RangeSteps
<1>3. ASSUME NEW i \in S PROVE i + 1 \in S
  <2>1. /\ i \in Nat /\ i + 1 \in Nat /\ RangeBelow(i, range) = RowsIn(Beneath(i), range)
        /\ Beneath(i) \in Native
    BY <1>1 DEF BeneathSteps
  <2>2. CASE i + 1 \in Txn /\ HasDelta(i + 1)
    <3>1. PICK d \in Delta : d = committed[i + 1] /\ Disjoint(d)
      BY <2>2, LayersAreDeltas DEF CommittedDisjoint
    <3>2. MergeInto(RowsIn(Beneath(i), range), d, range) = RowsIn(ResolveThrough(Beneath(i), d), range)
      BY <2>1, <3>1, MergeIsResolve
    <3>3. RangeBelow(i + 1, range) = RowsIn(Beneath(i + 1), range)
      BY <1>1, <2>1, <2>2, <3>1, <3>2 DEF BeneathSteps, RangeSteps
    <3> QED
      BY <2>1, <3>3
  <2>3. CASE ~(i + 1 \in Txn /\ HasDelta(i + 1))
    BY <1>1, <2>1, <2>3 DEF BeneathSteps, RangeSteps
  <2> QED
    BY <2>2, <2>3
<1> HIDE DEF S
<1>4. n \in S
  BY <1>2, <1>3, Induction
<1> QED
  BY <1>4 DEF S

\* A range read over the key columns returns the rows of the snapshot that are in
\* range; over others it need not.
LEMMA RangeReadIsView ==
  ASSUME TypeOK, RowsDisjoint, NEW t \in Txn, NEW range \in SUBSET Row, KeyRange(range)
  PROVE  RangeRead(t, range) = RowsIn(View(t), range)
<1>1. CommittedDisjoint
  BY DEF RowsDisjoint, CommittedDisjoint, Disjoint
<1>2. t \in Nat
  BY TxnAssumption
<1>3. RangeBelow(t, range) = RowsIn(Beneath(t), range)
  BY <1>1, <1>2, RangeBelowIsRead
<1>4. RangeRead(t, range) = IF pending[t] = Absent THEN RangeBelow(t, range)
                                                  ELSE MergeInto(RangeBelow(t, range), pending[t], range)
  BY DEF RangeRead, RangeBelow
<1>5. CASE pending[t] = Absent
  BY <1>3, <1>4, <1>5 DEF View
<1>6. CASE pending[t] # Absent
  <2>1. pending[t] \in Delta /\ Disjoint(pending[t])
    BY <1>6 DEF TypeOK, RowsDisjoint, Disjoint
  <2>2. Beneath(t) \in Native
    BY <1>2, BeneathLoop DEF BeneathSteps
  <2>3. View(t) = ResolveThrough(Beneath(t), pending[t])
    BY <1>6 DEF View
  <2> QED
    BY <1>3, <1>4, <1>6, <2>1, <2>2, <2>3, MergeIsResolve
<1> QED
  BY <1>5, <1>6

-----------------------------------------------------------------------------
(* When what is read stays as it is.                                       *)

\* What a transaction reads are rows, one or none of a key.
LEMMA ViewTypes ==
  ASSUME TypeOK, NEW t \in Txn
  PROVE  View(t) \in Native /\ Beneath(t) \in Native
<1>1. Beneath(t) \in Native
  BY TxnAssumption, BeneathLoop DEF BeneathSteps
<1>2. pending[t] # Absent => pending[t] \in Delta
  BY DEF TypeOK
<1> QED
  BY <1>1, <1>2, TableTypes DEF View

\* A range read returns rows, of whatever range.
LEMMA RangeReadTypes ==
  ASSUME TypeOK, NEW t \in Txn, NEW range \in SUBSET Row
  PROVE  RangeRead(t, range) \in SUBSET Row
<1>1. RangeBelow(t, range) \in SUBSET Row
  BY TxnAssumption, RangeLoop DEF RangeSteps
<1>2. RangeRead(t, range) = IF pending[t] = Absent THEN RangeBelow(t, range)
                                                  ELSE MergeInto(RangeBelow(t, range), pending[t], range)
  BY DEF RangeRead, RangeBelow
<1> QED
  BY <1>1, <1>2 DEF MergeInto, WithoutRows, RowsIn

\* A committed delta has a row of k on one of its sides.
Touches(u, k) ==
  HasDelta(u) /\ (committed[u].inserts[k] # NoRow \/ committed[u].deletes[k] # NoRow)

\* The loop of a row read, at one key.
KeySteps ==
  \A n \in Nat, k \in Key :
    Beneath(n + 1)[k] = IF n + 1 \in Txn /\ Touches(n + 1, k)
                          THEN IF committed[n + 1].inserts[k] # NoRow
                                 THEN committed[n + 1].inserts[k] ELSE NoRow
                          ELSE Beneath(n)[k]

\* Row by row, only the transactions that touch a key change what is read of it.
LEMMA KeyLoop == TypeOK => KeySteps
<1> SUFFICES ASSUME TypeOK, NEW n \in Nat, NEW k \in Key
             PROVE  Beneath(n + 1)[k] = IF n + 1 \in Txn /\ Touches(n + 1, k)
                                          THEN IF committed[n + 1].inserts[k] # NoRow
                                                 THEN committed[n + 1].inserts[k] ELSE NoRow
                                          ELSE Beneath(n)[k]
  BY DEF KeySteps
<1>1. Beneath(n + 1) = IF n + 1 \in Txn /\ HasDelta(n + 1)
                         THEN ResolveThrough(Beneath(n), committed[n + 1])
                         ELSE Beneath(n)
  BY BeneathLoop DEF BeneathSteps
<1>2. ResolveThrough(Beneath(n), committed[n + 1])[k] =
        IF committed[n + 1].inserts[k] # NoRow THEN committed[n + 1].inserts[k]
        ELSE IF committed[n + 1].deletes[k] # NoRow THEN NoRow ELSE Beneath(n)[k]
  BY DEF ResolveThrough
<1> QED
  BY <1>1, <1>2 DEF Touches

\* A step that changes, beneath a transaction, only what does not touch a key leaves
\* what is read there.
LEMMA BeneathStays ==
  ASSUME TypeOK, TypeOK', NEW k \in Key, NEW m \in Nat, persistent'[k] = persistent[k],
         \A u \in Txn : u <= m => \/ committed'[u] = committed[u]
                                  \/ ~Touches(u, k) /\ ~Touches(u, k)'
  PROVE  Beneath(m)'[k] = Beneath(m)[k]
<1>1. /\ BeneathSteps /\ BeneathSteps'
      /\ KeySteps /\ KeySteps'
  <2>1. TypeOK' => BeneathSteps'
    BY BeneathLoop, PTL
  <2>2. TypeOK' => KeySteps'
    BY KeyLoop, PTL
  <2> QED
    BY <2>1, <2>2, BeneathLoop, KeyLoop
<1> DEFINE S == {i \in Nat : i <= m => Beneath(i)'[k] = Beneath(i)[k]}
<1>2. 0 \in S /\ S \in SUBSET Nat
  BY <1>1 DEF BeneathSteps
<1>3. ASSUME NEW i \in S PROVE i + 1 \in S
  <2>1. i \in Nat /\ i + 1 \in Nat /\ (i + 1 <= m => Beneath(i)'[k] = Beneath(i)[k])
    OBVIOUS
  <2>2. Beneath(i + 1)[k] = IF i + 1 \in Txn /\ Touches(i + 1, k)
                              THEN IF committed[i + 1].inserts[k] # NoRow
                                     THEN committed[i + 1].inserts[k] ELSE NoRow
                              ELSE Beneath(i)[k]
    BY <1>1, <2>1 DEF KeySteps
  <2>3. Beneath(i + 1)'[k] = IF i + 1 \in Txn /\ Touches(i + 1, k)'
                               THEN IF committed'[i + 1].inserts[k] # NoRow
                                      THEN committed'[i + 1].inserts[k] ELSE NoRow
                               ELSE Beneath(i)'[k]
    BY <1>1, <2>1 DEF KeySteps
  <2>4. ASSUME i + 1 <= m, i + 1 \in Txn
        PROVE  \/ committed'[i + 1] = committed[i + 1] /\ (Touches(i + 1, k)' <=> Touches(i + 1, k))
               \/ ~Touches(i + 1, k) /\ ~Touches(i + 1, k)'
    BY <2>4 DEF Touches, HasDelta
  <2>5. i + 1 <= m => Beneath(i + 1)'[k] = Beneath(i + 1)[k]
    BY <2>1, <2>2, <2>3, <2>4
  <2> QED
    BY <2>1, <2>5
<1> HIDE DEF S
<1>4. m \in S
  BY <1>2, <1>3, Induction
<1> QED
  BY <1>4 DEF S

\* Finalize leaves what every later transaction reads.
LEMMA FinalizeStays ==
  ASSUME TypeOK, TypeOK', CommittedDisjoint, NEW t \in Txn, Finalize(t),
         NEW k \in Key, NEW m \in Nat, t <= m
  PROVE  Beneath(m)'[k] = Beneath(m)[k]
<1>1. /\ BeneathSteps /\ BeneathSteps'
      /\ KeySteps /\ KeySteps'
  <2>1. TypeOK' => BeneathSteps'
    BY BeneathLoop, PTL
  <2>2. TypeOK' => KeySteps'
    BY KeyLoop, PTL
  <2> QED
    BY <2>1, <2>2, BeneathLoop, KeyLoop
<1>2. t \in Nat /\ persistent' = Beneath(t)
  BY TxnAssumption, MaterializedIsRead DEF Finalize
<1>3. \A u \in Txn : /\ u <= t => ~Touches(u, k)'
                     /\ u > t => committed'[u] = committed[u] /\ (Touches(u, k)' <=> Touches(u, k))
  BY TxnAssumption DEF Finalize, Touches, HasDelta
<1> DEFINE S == {i \in Nat : IF i <= t THEN Beneath(i)'[k] = Beneath(t)[k]
                                       ELSE Beneath(i)'[k] = Beneath(i)[k]}
<1>4. 0 \in S /\ S \in SUBSET Nat
  BY <1>1, <1>2 DEF BeneathSteps
<1>5. ASSUME NEW i \in S PROVE i + 1 \in S
  <2>1. /\ i \in Nat /\ i + 1 \in Nat
        /\ IF i <= t THEN Beneath(i)'[k] = Beneath(t)[k] ELSE Beneath(i)'[k] = Beneath(i)[k]
    OBVIOUS
  <2>2. Beneath(i + 1)[k] = IF i + 1 \in Txn /\ Touches(i + 1, k)
                              THEN IF committed[i + 1].inserts[k] # NoRow
                                     THEN committed[i + 1].inserts[k] ELSE NoRow
                              ELSE Beneath(i)[k]
    BY <1>1, <2>1 DEF KeySteps
  <2>3. Beneath(i + 1)'[k] = IF i + 1 \in Txn /\ Touches(i + 1, k)'
                               THEN IF committed'[i + 1].inserts[k] # NoRow
                                      THEN committed'[i + 1].inserts[k] ELSE NoRow
                               ELSE Beneath(i)'[k]
    BY <1>1, <2>1 DEF KeySteps
  <2>4. CASE i + 1 <= t
    BY <1>2, <1>3, <2>1, <2>3, <2>4
  <2>5. CASE i = t
    BY <1>2, <1>3, <2>1, <2>2, <2>3, <2>5
  <2>6. CASE i > t
    BY <1>2, <1>3, <2>1, <2>2, <2>3, <2>6
  <2> QED
    BY <1>2, <2>1, <2>4, <2>5, <2>6
<1> HIDE DEF S
<1>6. m \in S
  BY <1>4, <1>5, Induction
<1>7. IF m <= t THEN Beneath(m)'[k] = Beneath(t)[k] ELSE Beneath(m)'[k] = Beneath(m)[k]
  BY <1>6 DEF S
<1>8. m <= t => m = t
  BY <1>2
<1> QED
  BY <1>7, <1>8

\* The rows of a transaction's own delta at a key.
Own(t, k) == IF pending[t] = Absent THEN <<NoRow, NoRow>>
                                    ELSE <<pending[t].inserts[k], pending[t].deletes[k]>>

\* A transaction reads its own delta before anything else.
OwnIsRead ==
  \A t \in Txn, k \in Key :
    View(t)[k] = IF Own(t, k)[1] # NoRow THEN Own(t, k)[1]
                 ELSE IF Own(t, k)[2] # NoRow THEN NoRow ELSE Beneath(t)[k]

\* resolve_row's last layer, row by row.
LEMMA OwnRead == TypeOK => OwnIsRead
<1> SUFFICES ASSUME TypeOK, NEW t \in Txn, NEW k \in Key
             PROVE  View(t)[k] = IF Own(t, k)[1] # NoRow THEN Own(t, k)[1]
                                 ELSE IF Own(t, k)[2] # NoRow THEN NoRow ELSE Beneath(t)[k]
  BY DEF OwnIsRead
<1>1. ResolveThrough(Beneath(t), pending[t])[k] =
        IF pending[t].inserts[k] # NoRow THEN pending[t].inserts[k]
        ELSE IF pending[t].deletes[k] # NoRow THEN NoRow ELSE Beneath(t)[k]
  BY DEF ResolveThrough
<1> QED
  BY <1>1 DEF View, Own

\* While neither a transaction's own rows of a key nor those beneath change, it reads
\* the same.
LEMMA ViewStays ==
  ASSUME TypeOK, TypeOK', NEW t \in Txn, NEW k \in Key,
         Beneath(t)'[k] = Beneath(t)[k], Own(t, k)' = Own(t, k)
  PROVE  View(t)'[k] = View(t)[k]
<1>1. OwnIsRead /\ OwnIsRead'
  <2>1. TypeOK' => OwnIsRead'
    BY OwnRead, PTL
  <2> QED
    BY <2>1, OwnRead
<1>2. View(t)'[k] = IF Own(t, k)'[1] # NoRow THEN Own(t, k)'[1]
                    ELSE IF Own(t, k)'[2] # NoRow THEN NoRow ELSE Beneath(t)'[k]
  BY <1>1 DEF OwnIsRead
<1> QED
  BY <1>1, <1>2 DEF OwnIsRead

-----------------------------------------------------------------------------
(* The invariant.  A call is idle, early -- nothing of it is in the delta  *)
(* -- or writing.                                                          *)

Early == {"check", "lookup", "create", "look"}
Writing == {"leaveDeletes", "leaveInserts", "join"}

\* What a call asks for, by its kind.
ReqInv(o) ==
  \/ pc[o] = "idle" /\ req[o] = NoReq /\ left[o] = {}
  \/ /\ pc[o] # "idle"
     /\ req[o].txn \in Txn
     /\ \/ \E r \in Row : /\ req[o].kind \in {"upsert", "insert"}
                          /\ req[o].range = RowsOf(r.key)
                          /\ req[o].val = r.val
                          /\ left[o] = {r}
        \/ \E k \in Key : /\ req[o].kind = "delete"
                          /\ req[o].range = RowsOf(k)
                          /\ req[o].val = NoRow
                          /\ left[o] \subseteq RowsOf(k)
        \/ req[o].kind = "update" /\ req[o].range \in Ranges /\ req[o].val \in Val
        \/ req[o].kind = "truncate" /\ req[o].range \in Ranges /\ req[o].val = NoRow

\* Which kinds of call are at which place, and where a row is left to write.
PlaceInv(o) ==
  /\ pc[o] = "check" => req[o].kind = "insert"
  /\ pc[o] = "look" => req[o].kind \in {"delete", "update", "truncate"}
  /\ pc[o] = "leaveDeletes" => req[o].kind \in Puts
  /\ pc[o] = "join" \/ (pc[o] \in Writing /\ req[o].kind # "delete") => left[o] # {}

\* A call past assert_writable has an undecided transaction, and then its delta.
OpenInv(o) ==
  \A t \in Txn : req[o].txn = t =>
    /\ pc[o] \in {"create", "look"} \cup Writing => Open(t)
    /\ pc[o] \in {"look"} \cup Writing => pending[t] # Absent

\* Every variable has its type, and every call is in order.
CallsOK == TypeOK /\ \A o \in Op : ReqInv(o) /\ PlaceInv(o) /\ OpenInv(o)

\* The key that a writing call works on is one that it reserved.
LEMMA CurrentReserved ==
  ASSUME TypeOK, NEW o \in Op, ReqInv(o), PlaceInv(o), pc[o] \in Writing
  PROVE  Current(o) \in Key /\ Current(o) \in Reserved(o)
<1> USE DEF RowsOf, Row
<1>1. CASE left[o] # {}
  <2>1. PICK r \in left[o] : Current(o) = r.key
    BY <1>1 DEF Current
  <2>2. r \in Row /\ r.key \in Key
    BY <2>1 DEF TypeOK
  <2>3. r.key \in Reserved(o)
    BY <2>1, <2>2 DEF ReqInv, Reserved, Writing
  <2> QED
    BY <2>1, <2>2, <2>3
<1>2. CASE left[o] = {}
  <2>1. PICK k \in Key : req[o].kind = "delete" /\ req[o].range = RowsOf(k)
    BY <1>2 DEF ReqInv, PlaceInv, Writing
  <2>2. PICK v \in Val : TRUE
    BY NoRowAssumption
  <2>3. [key |-> k, val |-> v] \in RowsOf(k)
    OBVIOUS
  <2>4. k \in Reserved(o)
    BY <2>1, <2>3 DEF Reserved
  <2>5. Current(o) = CHOOSE x \in Key : x \in Reserved(o)
    BY <1>2 DEF Current
  <2> QED
    BY <2>4, <2>5
<1> QED
  BY <1>1, <1>2

\* A call reserves keys.
LEMMA ReservedKeys ==
  ASSUME TypeOK, NEW o \in Op
  PROVE  Reserved(o) \subseteq Key
BY DEF TypeOK, Reserved, Row

\* What a call is to leave at a key is a row or none.
LEMMA GoalType ==
  ASSUME TypeOK, NEW o \in Op, NEW k \in Key
  PROVE  Goal(o, k, was[o][k]) \in Val \cup {NoRow}
<1>1. was[o][k] \in Val \cup {NoRow} /\ req[o].val \in Val \cup {NoRow}
  BY DEF TypeOK, Native
<1> QED
  BY <1>1 DEF Goal

\* A step that leaves a call alone, and its transaction as open as it was, leaves it
\* in order.
LEMMA CallStays ==
  ASSUME NEW p \in Op, ReqInv(p), PlaceInv(p), OpenInv(p),
         pc'[p] = pc[p], req'[p] = req[p], left'[p] = left[p],
         \A t \in Txn : req[p].txn = t => /\ Open(t) => Open(t)'
                                          /\ pending[t] # Absent => pending'[t] # Absent
  PROVE  ReqInv(p)' /\ PlaceInv(p)' /\ OpenInv(p)'
<1>1. ReqInv(p)'
  BY DEF ReqInv
<1>2. PlaceInv(p)'
  BY DEF PlaceInv
<1>3. OpenInv(p)'
  BY DEF OpenInv
<1> QED
  BY <1>1, <1>2, <1>3

\* A call ends as it is to end: idle, with nothing left of it.
LEMMA FinishTypes ==
  ASSUME TypeOK, NEW o \in Op, Finish(o)
  PROVE  /\ pc' \in [Op -> {"idle", "check", "lookup", "create", "look",
                            "leaveDeletes", "leaveInserts", "join"}]
         /\ req' \in [Op -> [kind : Puts \cup {"none", "delete", "truncate"},
                             txn : Txn \cup {0}, range : SUBSET Row, val : Val \cup {NoRow}]]
         /\ left' \in [Op -> SUBSET Row]
         /\ was' \in [Op -> Native]
         /\ pc'[o] = "idle" /\ req'[o] = NoReq /\ left'[o] = {}
         /\ \A p \in Op \ {o} : pc'[p] = pc[p] /\ req'[p] = req[p] /\ left'[p] = left[p]
                                /\ was'[p] = was[p]
<1>1. NoReq \in [kind : Puts \cup {"none", "delete", "truncate"},
                 txn : Txn \cup {0}, range : SUBSET Row, val : Val \cup {NoRow}]
  BY DEF NoReq
<1>2. NoRows \in Native
  BY DEF NoRows, Native
<1> QED
  BY <1>1, <1>2 DEF Finish, TypeOK

\* What success promises is well-typed, and is of the call's own keys.
LEMMA AcknowledgeTypes ==
  ASSUME TypeOK, NEW o \in Op, NEW t \in Txn, req[o].txn = t, Acknowledge(o)
  PROVE  /\ told' \in [Txn -> [Key -> Val \cup {NoRow, Unknown}]]
         /\ \A k \in Key : told'[t][k] = IF k \in Reserved(o) THEN Goal(o, k, was[o][k])
                                                              ELSE told[t][k]
         /\ \A u \in Txn : u # t => told'[u] = told[u]
<1> DEFINE new == [k \in Key |-> IF k \in Reserved(o) THEN Goal(o, k, was[o][k])
                                                      ELSE told[t][k]]
<1>1. told' = [told EXCEPT ![t] = new]
  BY DEF Acknowledge
<1>2. new \in [Key -> Val \cup {NoRow, Unknown}]
  <2>1. \A k \in Key : told[t][k] \in Val \cup {NoRow, Unknown}
    BY DEF TypeOK
  <2> QED
    BY <2>1, GoalType
<1> HIDE DEF new
<1>3. told' \in [Txn -> [Key -> Val \cup {NoRow, Unknown}]]
  BY <1>1, <1>2 DEF TypeOK
<1>4. told'[t] = new /\ \A u \in Txn : u # t => told'[u] = told[u]
  BY <1>1 DEF TypeOK
<1> QED
  BY <1>3, <1>4 DEF new

\* A writing call takes back what its transaction was told of its keys.
LEMMA ForgottenTypes ==
  ASSUME TypeOK, NEW o \in Op, NEW t \in Txn, req[o].txn = t, told' = Forgotten(o)
  PROVE  /\ told' \in [Txn -> [Key -> Val \cup {NoRow, Unknown}]]
         /\ \A k \in Key : told'[t][k] = IF k \in Reserved(o) THEN Unknown ELSE told[t][k]
         /\ \A u \in Txn : u # t => told'[u] = told[u]
<1> DEFINE new == [k \in Key |-> IF k \in Reserved(o) THEN Unknown ELSE told[t][k]]
<1>1. told' = [told EXCEPT ![t] = new]
  BY DEF Forgotten
<1>2. new \in [Key -> Val \cup {NoRow, Unknown}]
  BY DEF TypeOK
<1> HIDE DEF new
<1>3. told' \in [Txn -> [Key -> Val \cup {NoRow, Unknown}]]
  BY <1>1, <1>2 DEF TypeOK
<1>4. told'[t] = new /\ \A u \in Txn : u # t => told'[u] = told[u]
  BY <1>1 DEF TypeOK
<1> QED
  BY <1>3, <1>4 DEF new

\* A native step changes one delta, at one key of it.
LEMMA PendingTypes ==
  ASSUME TypeOK, NEW t \in Txn, NEW d \in Delta, pending' = [pending EXCEPT ![t] = d]
  PROVE  /\ pending' \in [Txn -> Delta \cup {Absent}]
         /\ pending'[t] = d
         /\ \A u \in Txn : u # t => pending'[u] = pending[u]
BY DEF TypeOK

\* The native steps make a delta of a delta.
LEMMA NativeSteps ==
  ASSUME NEW d \in Delta, NEW c \in Key, NEW r \in Row
  PROVE  /\ LeaveDeletes(d, c) \in Delta /\ LeaveInserts(d, c) \in Delta
         /\ JoinInserts(d, r) \in Delta /\ JoinDeletes(d, r) \in Delta
<1>1. d.inserts \in Native /\ d.deletes \in Native
  BY DEF Delta
<1>2. [d.inserts EXCEPT ![c] = NoRow] \in Native /\ [d.deletes EXCEPT ![c] = NoRow] \in Native
  BY <1>1 DEF Native
<1>3. r.key \in Key /\ r.val \in Val
  BY DEF Row
<1>4. [d.inserts EXCEPT ![r.key] = r.val] \in Native /\ [d.deletes EXCEPT ![r.key] = r.val] \in Native
  BY <1>1, <1>3 DEF Native
<1> QED
  BY <1>1, <1>2, <1>4 DEF Delta, LeaveDeletes, LeaveInserts, JoinInserts, JoinDeletes

-----------------------------------------------------------------------------
(* Calls stay in order.  A step of a call in transaction t concerns only   *)
(* that call, and the delta of t at keys that the call reserved.           *)

OwnStep(o, t) ==
  /\ TypeOK'
  /\ UNCHANGED <<semVars, persistent, committed, finalized>>
  /\ \A u \in Txn : pending[u] # Absent => pending'[u] # Absent
  /\ \A u \in Txn, k \in Key : u # t \/ k \notin Reserved(o) =>
       Own(u, k)' = Own(u, k) /\ told'[u][k] = told[u][k]
  /\ \A p \in Op \ {o} : /\ pc'[p] = pc[p] /\ req'[p] = req[p]
                         /\ left'[p] = left[p] /\ was'[p] = was[p]
  /\ req'[o] \in {req[o], NoReq}
  /\ ReqInv(o)' /\ PlaceInv(o)' /\ OpenInv(o)'

\* A call that goes on: its request and what it had read are kept.
LEMMA GotoTypes ==
  ASSUME TypeOK, NEW o \in Op,
         NEW place \in {"check", "lookup", "create", "look",
                        "leaveDeletes", "leaveInserts", "join"},
         Goto(o, place)
  PROVE  /\ pc' \in [Op -> {"idle", "check", "lookup", "create", "look",
                            "leaveDeletes", "leaveInserts", "join"}]
         /\ pc'[o] = place
         /\ \A p \in Op \ {o} : pc'[p] = pc[p]
         /\ req' = req /\ was' = was
BY DEF Goto, TypeOK

\* A call that ends is idle and in order.
LEMMA FinishInOrder ==
  ASSUME NEW o \in Op, pc'[o] = "idle", req'[o] = NoReq, left'[o] = {}
  PROVE  ReqInv(o)' /\ PlaceInv(o)' /\ OpenInv(o)'
BY TxnAssumption DEF ReqInv, PlaceInv, OpenInv, NoReq, Writing

\* The steps of a call that leave every delta as it is: the check of an insert, a
\* rejection, the lookup of the delta, and the call that is dropped.
LEMMA InsertCheckOwn ==
  ASSUME CallsOK, NEW o \in Op, NEW t \in Txn, req[o].txn = t, InsertCheck(o)
  PROVE  OwnStep(o, t)
<1>1. TypeOK /\ ReqInv(o) /\ PlaceInv(o) /\ OpenInv(o)
  BY DEF CallsOK
<1>2. /\ Goto(o, "lookup") /\ pc[o] = "check"
      /\ UNCHANGED <<semVars, tableVars, left, told>>
  BY DEF InsertCheck
<1>3. /\ pc' \in [Op -> {"idle", "check", "lookup", "create", "look",
                         "leaveDeletes", "leaveInserts", "join"}]
      /\ pc'[o] = "lookup"
      /\ \A p \in Op \ {o} : pc'[p] = pc[p]
      /\ req' = req /\ was' = was
  BY <1>1, <1>2, GotoTypes
<1>4. TypeOK'
  BY <1>1, <1>2, <1>3 DEF TypeOK, SemTypeOK, semVars, tableVars
<1>5. ReqInv(o)' /\ PlaceInv(o)' /\ OpenInv(o)'
  BY <1>1, <1>2, <1>3 DEF ReqInv, PlaceInv, OpenInv, Writing, tableVars
<1> QED
  BY <1>2, <1>3, <1>4, <1>5 DEF OwnStep, Own, tableVars

\* A rejection, and a call that is dropped.
LEMMA FinishOwn ==
  ASSUME CallsOK, NEW o \in Op, NEW t \in Txn, req[o].txn = t,
         WriteReject(o) \/ Abandon(o)
  PROVE  OwnStep(o, t)
<1>1. TypeOK
  BY DEF CallsOK
<1>2. Finish(o) /\ UNCHANGED <<semVars, tableVars, told>>
  BY DEF WriteReject, Abandon
<1>3. /\ pc' \in [Op -> {"idle", "check", "lookup", "create", "look",
                         "leaveDeletes", "leaveInserts", "join"}]
      /\ req' \in [Op -> [kind : Puts \cup {"none", "delete", "truncate"},
                          txn : Txn \cup {0}, range : SUBSET Row, val : Val \cup {NoRow}]]
      /\ left' \in [Op -> SUBSET Row]
      /\ was' \in [Op -> Native]
      /\ pc'[o] = "idle" /\ req'[o] = NoReq /\ left'[o] = {}
      /\ \A p \in Op \ {o} : pc'[p] = pc[p] /\ req'[p] = req[p] /\ left'[p] = left[p]
                             /\ was'[p] = was[p]
  BY <1>1, <1>2, FinishTypes
<1>4. TypeOK'
  BY <1>1, <1>2, <1>3 DEF TypeOK, SemTypeOK, semVars, tableVars
<1>5. ReqInv(o)' /\ PlaceInv(o)' /\ OpenInv(o)'
  BY <1>3, FinishInOrder
<1> QED
  BY <1>2, <1>3, <1>4, <1>5 DEF OwnStep, Own, tableVars

\* The lookup goes to the place that the kind of the call asks for.
LEMMA PendingLookupOwn ==
  ASSUME CallsOK, NEW o \in Op, NEW t \in Txn, req[o].txn = t, PendingLookup(o)
  PROVE  OwnStep(o, t)
<1>1. TypeOK /\ ReqInv(o) /\ PlaceInv(o) /\ OpenInv(o)
  BY DEF CallsOK
<1> DEFINE place == IF pending[t] = Absent THEN "create" ELSE AfterLookup(o)
<1>2. /\ Goto(o, place) /\ pc[o] = "lookup" /\ Open(t)
      /\ UNCHANGED <<semVars, tableVars, left, told>>
  BY DEF PendingLookup
<1>3. /\ place \in {"create", "look", "leaveDeletes", "leaveInserts"}
      /\ place = "look" => req[o].kind \notin {"upsert", "insert"}
      /\ place \in {"leaveDeletes", "leaveInserts"} =>
           place = "leaveDeletes" /\ req[o].kind \in {"upsert", "insert"}
      /\ place # "create" => pending[t] # Absent
  BY DEF AfterLookup, FirstPlace, Puts
<1> HIDE DEF place
<1>4. /\ pc' \in [Op -> {"idle", "check", "lookup", "create", "look",
                         "leaveDeletes", "leaveInserts", "join"}]
      /\ pc'[o] = place
      /\ \A p \in Op \ {o} : pc'[p] = pc[p]
      /\ req' = req /\ was' = was
  BY <1>1, <1>2, <1>3, GotoTypes
<1>5. TypeOK'
  BY <1>1, <1>2, <1>4 DEF TypeOK, SemTypeOK, semVars, tableVars
<1>6. ReqInv(o)'
  BY <1>1, <1>2, <1>3, <1>4 DEF ReqInv
<1>7. PlaceInv(o)'
  BY <1>1, <1>2, <1>3, <1>4 DEF ReqInv, PlaceInv, Writing, Puts
<1>8. OpenInv(o)'
  BY <1>2, <1>3, <1>4 DEF OpenInv, Writing, tableVars, Open
<1> QED
  BY <1>2, <1>4, <1>5, <1>6, <1>7, <1>8 DEF OwnStep, Own, tableVars

\* A delta that is installed is empty, and is not put in place of another.
LEMMA PendingInstallOwn ==
  ASSUME CallsOK, NEW o \in Op, NEW t \in Txn, req[o].txn = t, PendingInstall(o)
  PROVE  OwnStep(o, t) /\ \A u \in Txn, k \in Key : Own(u, k)' = Own(u, k)
<1>1. TypeOK /\ ReqInv(o) /\ PlaceInv(o) /\ OpenInv(o)
  BY DEF CallsOK
<1> DEFINE place == AfterLookup(o)
<1>2. /\ Goto(o, place) /\ pc[o] = "create" /\ Open(t)
      /\ UNCHANGED <<semVars, persistent, committed, finalized, left, told>>
      /\ pending' = IF pending[t] = Absent THEN [pending EXCEPT ![t] = EmptyDelta] ELSE pending
  BY DEF PendingInstall
<1>3. /\ place \in {"look", "leaveDeletes", "leaveInserts"}
      /\ place = "look" => req[o].kind \notin {"upsert", "insert"}
      /\ place \in {"leaveDeletes", "leaveInserts"} =>
           place = "leaveDeletes" /\ req[o].kind \in {"upsert", "insert"}
  BY DEF AfterLookup, FirstPlace, Puts
<1> HIDE DEF place
<1>4. /\ pc' \in [Op -> {"idle", "check", "lookup", "create", "look",
                         "leaveDeletes", "leaveInserts", "join"}]
      /\ pc'[o] = place
      /\ \A p \in Op \ {o} : pc'[p] = pc[p]
      /\ req' = req /\ was' = was
  BY <1>1, <1>2, <1>3, GotoTypes
<1>5. /\ EmptyDelta \in Delta /\ EmptyDelta # Absent
      /\ \A k \in Key : EmptyDelta.inserts[k] = NoRow /\ EmptyDelta.deletes[k] = NoRow
  BY TableAssumption DEF EmptyDelta, NoRows, Delta, Native
<1>6. /\ pending' \in [Txn -> Delta \cup {Absent}]
      /\ pending'[t] = IF pending[t] = Absent THEN EmptyDelta ELSE pending[t]
      /\ \A u \in Txn : u # t => pending'[u] = pending[u]
  BY <1>1, <1>2, <1>5 DEF TypeOK
<1>7. \A u \in Txn, k \in Key : Own(u, k)' = Own(u, k)
  BY <1>5, <1>6 DEF Own
<1>8. TypeOK'
  BY <1>1, <1>2, <1>4, <1>6 DEF TypeOK, SemTypeOK, semVars
<1>9. ReqInv(o)'
  BY <1>1, <1>2, <1>3, <1>4 DEF ReqInv
<1>10. PlaceInv(o)'
  BY <1>1, <1>2, <1>3, <1>4 DEF ReqInv, PlaceInv, Writing, Puts
<1>11. OpenInv(o)'
  BY <1>2, <1>3, <1>4, <1>5, <1>6 DEF OpenInv, Writing, Open
<1>12. \A u \in Txn : pending[u] # Absent => pending'[u] # Absent
  BY <1>6
<1> QED
  BY <1>2, <1>4, <1>7, <1>8, <1>9, <1>10, <1>11, <1>12 DEF OwnStep

\* Success of a call that leaves every delta but that of t as it is.
LEMMA AcknowledgeOwn ==
  ASSUME CallsOK, NEW o \in Op, NEW t \in Txn, req[o].txn = t, Acknowledge(o),
         UNCHANGED <<semVars, persistent, committed, finalized>>,
         pending' \in [Txn -> Delta \cup {Absent}],
         \A u \in Txn : pending[u] # Absent => pending'[u] # Absent,
         \A u \in Txn, k \in Key : u # t \/ k \notin Reserved(o) => Own(u, k)' = Own(u, k)
  PROVE  OwnStep(o, t)
<1>1. TypeOK
  BY DEF CallsOK
<1>2. /\ pc' \in [Op -> {"idle", "check", "lookup", "create", "look",
                         "leaveDeletes", "leaveInserts", "join"}]
      /\ req' \in [Op -> [kind : Puts \cup {"none", "delete", "truncate"},
                          txn : Txn \cup {0}, range : SUBSET Row, val : Val \cup {NoRow}]]
      /\ left' \in [Op -> SUBSET Row]
      /\ was' \in [Op -> Native]
      /\ pc'[o] = "idle" /\ req'[o] = NoReq /\ left'[o] = {}
      /\ \A p \in Op \ {o} : pc'[p] = pc[p] /\ req'[p] = req[p] /\ left'[p] = left[p]
                             /\ was'[p] = was[p]
  BY <1>1, FinishTypes DEF Acknowledge
<1>3. /\ told' \in [Txn -> [Key -> Val \cup {NoRow, Unknown}]]
      /\ \A k \in Key : k \notin Reserved(o) => told'[t][k] = told[t][k]
      /\ \A u \in Txn : u # t => told'[u] = told[u]
  BY <1>1, AcknowledgeTypes
<1>4. TypeOK'
  BY <1>1, <1>2, <1>3 DEF TypeOK, SemTypeOK, semVars
<1>5. ReqInv(o)' /\ PlaceInv(o)' /\ OpenInv(o)'
  BY <1>2, FinishInOrder
<1> QED
  BY <1>2, <1>3, <1>4, <1>5 DEF OwnStep

\* A call that looks for its rows writes nothing yet.
LEMMA LookDeleteOwn ==
  ASSUME CallsOK, NEW o \in Op, NEW t \in Txn, req[o].txn = t, LookDelete(o)
  PROVE  OwnStep(o, t)
<1>1. TypeOK /\ ReqInv(o) /\ PlaceInv(o) /\ OpenInv(o)
  BY DEF CallsOK
<1>2. /\ pc[o] = "look" /\ req[o].kind = "delete"
      /\ UNCHANGED <<semVars, tableVars>>
      /\ Open(t) /\ pending[t] # Absent
  BY <1>1 DEF LookDelete, OpenInv
<1>3. CASE Acknowledge(o)
  BY <1>1, <1>2, <1>3, AcknowledgeOwn DEF tableVars, TypeOK, Own
<1>4. ASSUME ~Acknowledge(o) PROVE OwnStep(o, t)
  <2>1. PICK k \in Key : req[o].range = RowsOf(k) /\ req[o].val = NoRow
    BY <1>1, <1>2 DEF ReqInv
  <2>2. PICK v \in Val : TRUE
    BY NoRowAssumption
  <2>3. [key |-> k, val |-> v] \in RowsOf(k)
    BY DEF RowsOf, Row
  <2>4. Reserved(o) = {k}
    BY <1>2, <2>1, <2>3 DEF Reserved, RowsOf
  <2>5. (CHOOSE x \in Key : x \in Reserved(o)) = k
    BY <2>4
  <2>6. /\ left' = [left EXCEPT ![o] = {r \in RowsOf(k) : r.val = View(t)[k]}]
        /\ Goto(o, "leaveInserts")
        /\ UNCHANGED told
    BY <1>4, <2>5 DEF LookDelete
  <2>7. /\ left' \in [Op -> SUBSET Row]
        /\ left'[o] \subseteq RowsOf(k)
        /\ \A p \in Op \ {o} : left'[p] = left[p]
    BY <1>1, <2>6 DEF TypeOK, RowsOf
  <2>8. /\ pc' \in [Op -> {"idle", "check", "lookup", "create", "look",
                           "leaveDeletes", "leaveInserts", "join"}]
        /\ pc'[o] = "leaveInserts"
        /\ \A p \in Op \ {o} : pc'[p] = pc[p]
        /\ req' = req /\ was' = was
    BY <1>1, <2>6, GotoTypes
  <2>9. TypeOK'
    BY <1>1, <1>2, <2>6, <2>7, <2>8 DEF TypeOK, SemTypeOK, semVars, tableVars
  <2>10. ReqInv(o)' /\ PlaceInv(o)' /\ OpenInv(o)'
    BY <1>1, <1>2, <2>1, <2>7, <2>8 DEF ReqInv, PlaceInv, OpenInv, Open, Writing, tableVars
  <2> QED
    BY <1>2, <2>6, <2>7, <2>8, <2>9, <2>10 DEF OwnStep, Own, tableVars
<1> QED
  BY <1>3, <1>4

\* A bulk write that finds rows has rows left, and else it ends.
LEMMA LookRangeOwn ==
  ASSUME CallsOK, NEW o \in Op, NEW t \in Txn, req[o].txn = t, LookRange(o)
  PROVE  OwnStep(o, t)
<1>1. TypeOK /\ ReqInv(o) /\ PlaceInv(o) /\ OpenInv(o)
  BY DEF CallsOK
<1>2. /\ pc[o] = "look" /\ req[o].kind \in {"update", "truncate"}
      /\ UNCHANGED <<semVars, tableVars>>
      /\ Open(t) /\ pending[t] # Absent
  BY <1>1 DEF LookRange, OpenInv
<1>3. CASE Acknowledge(o)
  BY <1>1, <1>2, <1>3, AcknowledgeOwn DEF tableVars, TypeOK, Own
<1>4. ASSUME ~Acknowledge(o) PROVE OwnStep(o, t)
  <2> DEFINE rows == RangeRead(t, req[o].range)
             new == IF req[o].kind = "truncate" THEN rows
                    ELSE {[r EXCEPT !.val = req[o].val] : r \in rows}
  <2>1. rows # {} /\ rows \in SUBSET Row
    BY <1>1, <1>2, <1>4, RangeReadTypes DEF LookRange, TypeOK
  <2>2. new # {} /\ new \in SUBSET Row
    <3>1. CASE req[o].kind = "truncate"
      BY <2>1, <3>1
    <3>2. CASE req[o].kind = "update"
      <4>1. req[o].val \in Val
        BY <1>1, <1>2, <3>2 DEF ReqInv
      <4>2. \A r \in rows : [r EXCEPT !.val = req[o].val] \in Row
        BY <2>1, <4>1 DEF Row
      <4> HIDE DEF rows
      <4> QED
        BY <2>1, <3>2, <4>2
    <3> QED
      BY <1>2, <3>1, <3>2
  <2>3. /\ left' = [left EXCEPT ![o] = new]
        /\ Goto(o, FirstPlace(o))
        /\ UNCHANGED told
    BY <1>4 DEF LookRange
  <2> HIDE DEF new, rows
  <2>4. /\ left' \in [Op -> SUBSET Row]
        /\ left'[o] # {}
        /\ \A p \in Op \ {o} : left'[p] = left[p]
    BY <1>1, <2>2, <2>3 DEF TypeOK
  <2>5. /\ FirstPlace(o) \in {"leaveDeletes", "leaveInserts"}
        /\ FirstPlace(o) = "leaveDeletes" => req[o].kind \in Puts
    BY DEF FirstPlace
  <2>6. /\ pc' \in [Op -> {"idle", "check", "lookup", "create", "look",
                           "leaveDeletes", "leaveInserts", "join"}]
        /\ pc'[o] = FirstPlace(o)
        /\ \A p \in Op \ {o} : pc'[p] = pc[p]
        /\ req' = req /\ was' = was
    BY <1>1, <2>3, <2>5, GotoTypes
  <2>7. TypeOK'
    BY <1>1, <1>2, <2>3, <2>4, <2>6 DEF TypeOK, SemTypeOK, semVars, tableVars
  <2>8. ReqInv(o)'
    BY <1>1, <1>2, <2>5, <2>6 DEF ReqInv
  <2>9. PlaceInv(o)' /\ OpenInv(o)'
    BY <1>1, <1>2, <2>4, <2>5, <2>6 DEF PlaceInv, OpenInv, Open, Writing, tableVars
  <2> QED
    BY <1>2, <2>3, <2>4, <2>6, <2>7, <2>8, <2>9 DEF OwnStep, Own, tableVars
<1> QED
  BY <1>3, <1>4

\* Two deltas that differ in the rows of one key at most.
SameElse(d, e, c) ==
  \A k \in Key \ {c} : d.inserts[k] = e.inserts[k] /\ d.deletes[k] = e.deletes[k]

\* A native step changes the delta of its transaction at the key it works on.
LEMMA NativeOwn ==
  ASSUME TypeOK, NEW t \in Txn, pending[t] # Absent, NEW c \in Key, NEW d \in Delta,
         pending' = [pending EXCEPT ![t] = d], SameElse(d, pending[t], c)
  PROVE  /\ pending' \in [Txn -> Delta \cup {Absent}]
         /\ \A u \in Txn : pending[u] # Absent => pending'[u] # Absent
         /\ Own(t, c)' = <<d.inserts[c], d.deletes[c]>>
         /\ \A u \in Txn, k \in Key : u # t \/ k # c => Own(u, k)' = Own(u, k)
<1>1. /\ pending' \in [Txn -> Delta \cup {Absent}]
      /\ pending'[t] = d
      /\ \A u \in Txn : u # t => pending'[u] = pending[u]
  BY PendingTypes
<1>2. d # Absent
  BY TableAssumption
<1> QED
  BY <1>1, <1>2 DEF Own, SameElse

\* A call that writes on, with its delta changed at the key it worked on.
LEMMA WriteOn ==
  ASSUME CallsOK, NEW o \in Op, NEW t \in Txn, req[o].txn = t, pc[o] \in Writing,
         UNCHANGED <<semVars, persistent, committed, finalized>>,
         NEW c \in Reserved(o),
         pending' \in [Txn -> Delta \cup {Absent}],
         \A u \in Txn : pending[u] # Absent => pending'[u] # Absent,
         \A u \in Txn, k \in Key : u # t \/ k # c => Own(u, k)' = Own(u, k),
         told' \in {told, Forgotten(o)},
         NEW rows \in SUBSET Row, rows \subseteq left[o], rows # {},
         req[o].kind \in {"upsert", "insert"} => rows = left[o],
         left' = [left EXCEPT ![o] = rows],
         NEW place \in Writing, place = "leaveDeletes" => req[o].kind \in Puts,
         Goto(o, place)
  PROVE  OwnStep(o, t)
<1>1. TypeOK /\ ReqInv(o) /\ PlaceInv(o) /\ OpenInv(o)
  BY DEF CallsOK
<1>2. /\ pc' \in [Op -> {"idle", "check", "lookup", "create", "look",
                         "leaveDeletes", "leaveInserts", "join"}]
      /\ pc'[o] = place
      /\ \A p \in Op \ {o} : pc'[p] = pc[p]
      /\ req' = req /\ was' = was
  BY <1>1, GotoTypes DEF Writing
<1>3. /\ left' \in [Op -> SUBSET Row]
      /\ left'[o] = rows
      /\ \A p \in Op \ {o} : left'[p] = left[p]
  BY <1>1 DEF TypeOK
<1>4. /\ told' \in [Txn -> [Key -> Val \cup {NoRow, Unknown}]]
      /\ \A k \in Key : k \notin Reserved(o) => told'[t][k] = told[t][k]
      /\ \A u \in Txn : u # t => told'[u] = told[u]
  <2>1. CASE told' = told
    BY <1>1, <2>1 DEF TypeOK
  <2>2. CASE told' = Forgotten(o)
    BY <1>1, <2>2, ForgottenTypes
  <2> QED
    BY <2>1, <2>2
<1>5. TypeOK'
  BY <1>1, <1>2, <1>3, <1>4 DEF TypeOK, SemTypeOK, semVars
<1>6. pc[o] # "idle" /\ pc'[o] # "idle"
  BY <1>2 DEF Writing
<1>7. ReqInv(o)'
  <2>1. CASE req[o].kind \in {"upsert", "insert"}
    BY <1>1, <1>2, <1>3, <1>6, <2>1 DEF ReqInv
  <2>2. CASE req[o].kind \notin {"upsert", "insert"}
    BY <1>1, <1>2, <1>3, <1>6, <2>2 DEF ReqInv
  <2> QED
    BY <2>1, <2>2
<1>8. PlaceInv(o)'
  BY <1>2, <1>3 DEF PlaceInv, Writing
<1>9. OpenInv(o)'
  BY <1>1, <1>2 DEF OpenInv, Open, Writing
<1> QED
  BY <1>2, <1>3, <1>4, <1>5, <1>7, <1>8, <1>9 DEF OwnStep

\* What a writing call knows of the key it works on.
LEMMA WritingFacts ==
  ASSUME CallsOK, NEW o \in Op, NEW t \in Txn, req[o].txn = t, pc[o] \in Writing
  PROVE  /\ TypeOK /\ ReqInv(o) /\ PlaceInv(o) /\ OpenInv(o)
         /\ Open(t) /\ pending[t] # Absent /\ pending[t] \in Delta
         /\ Current(o) \in Key /\ Current(o) \in Reserved(o)
<1>1. TypeOK /\ ReqInv(o) /\ PlaceInv(o) /\ OpenInv(o)
  BY DEF CallsOK
<1>2. Open(t) /\ pending[t] # Absent
  BY <1>1 DEF OpenInv
<1> QED
  BY <1>1, <1>2, CurrentReserved DEF TypeOK

\* What each native step does to the two sides of a delta.
LEMMA LeaveDeletesEffect ==
  ASSUME CallsOK, NEW o \in Op, NEW t \in Txn, req[o].txn = t, NEW c \in Key,
         c = Current(o), LeaveDeletesStep(o)
  PROVE  /\ pc[o] = "leaveDeletes" /\ Open(t) /\ c \in Reserved(o)
         /\ pending' \in [Txn -> Delta \cup {Absent}]
         /\ \A u \in Txn : pending[u] # Absent => pending'[u] # Absent
         /\ Own(t, c)' = <<Own(t, c)[1], NoRow>>
         /\ \A u \in Txn, k \in Key : u # t \/ k # c => Own(u, k)' = Own(u, k)
<1>1. pc[o] = "leaveDeletes" /\ pending' = [pending EXCEPT ![t] = LeaveDeletes(@, c)]
  BY DEF LeaveDeletesStep
<1>2. /\ TypeOK /\ Open(t) /\ pending[t] # Absent /\ pending[t] \in Delta
      /\ c \in Reserved(o)
  BY <1>1, WritingFacts DEF Writing
<1>3. PICK r \in Row : r.key = c
  <2>1. PICK v \in Val : TRUE
    BY NoRowAssumption
  <2>2. [key |-> c, val |-> v] \in Row
    BY DEF Row
  <2> QED
    BY <2>2
<1>4. PICK d \in Delta : d = LeaveDeletes(pending[t], c)
  BY <1>2, <1>3, NativeSteps
<1>5. /\ d.inserts[c] = pending[t].inserts[c] /\ d.deletes[c] = NoRow
      /\ SameElse(d, pending[t], c)
  BY <1>2, <1>4 DEF SameElse, LeaveDeletes, Delta, Native
<1>6. pending' = [pending EXCEPT ![t] = d]
  BY <1>1, <1>4
<1>7. /\ pending' \in [Txn -> Delta \cup {Absent}]
      /\ \A u \in Txn : pending[u] # Absent => pending'[u] # Absent
      /\ Own(t, c)' = <<d.inserts[c], d.deletes[c]>>
      /\ \A u \in Txn, k \in Key : u # t \/ k # c => Own(u, k)' = Own(u, k)
  BY <1>2, <1>4, <1>5, <1>6, NativeOwn
<1>8. Own(t, c)[1] = pending[t].inserts[c]
  BY <1>2 DEF Own
<1> QED
  BY <1>1, <1>2, <1>5, <1>7, <1>8

\* A row of the key that is on the side of the inserts is taken out.
LEMMA LeaveInsertsEffect ==
  ASSUME CallsOK, NEW o \in Op, NEW t \in Txn, req[o].txn = t, NEW c \in Key,
         c = Current(o), LeaveInsertsStep(o)
  PROVE  /\ pc[o] = "leaveInserts" /\ Open(t) /\ c \in Reserved(o)
         /\ pending' \in [Txn -> Delta \cup {Absent}]
         /\ \A u \in Txn : pending[u] # Absent => pending'[u] # Absent
         /\ Own(t, c)' = <<NoRow, Own(t, c)[2]>>
         /\ \A u \in Txn, k \in Key : u # t \/ k # c => Own(u, k)' = Own(u, k)
<1>1. pc[o] = "leaveInserts" /\ pending' = [pending EXCEPT ![t] = LeaveInserts(@, c)]
  BY DEF LeaveInsertsStep
<1>2. /\ TypeOK /\ Open(t) /\ pending[t] # Absent /\ pending[t] \in Delta
      /\ c \in Reserved(o)
  BY <1>1, WritingFacts DEF Writing
<1>3. PICK r \in Row : r.key = c
  <2>1. PICK v \in Val : TRUE
    BY NoRowAssumption
  <2>2. [key |-> c, val |-> v] \in Row
    BY DEF Row
  <2> QED
    BY <2>2
<1>4. PICK d \in Delta : d = LeaveInserts(pending[t], c)
  BY <1>2, <1>3, NativeSteps
<1>5. /\ d.inserts[c] = NoRow /\ d.deletes[c] = pending[t].deletes[c]
      /\ SameElse(d, pending[t], c)
  BY <1>2, <1>4 DEF SameElse, LeaveInserts, Delta, Native
<1>6. pending' = [pending EXCEPT ![t] = d]
  BY <1>1, <1>4
<1>7. /\ pending' \in [Txn -> Delta \cup {Absent}]
      /\ \A u \in Txn : pending[u] # Absent => pending'[u] # Absent
      /\ Own(t, c)' = <<d.inserts[c], d.deletes[c]>>
      /\ \A u \in Txn, k \in Key : u # t \/ k # c => Own(u, k)' = Own(u, k)
  BY <1>2, <1>4, <1>5, <1>6, NativeOwn
<1>8. Own(t, c)[2] = pending[t].deletes[c]
  BY <1>2 DEF Own
<1> QED
  BY <1>1, <1>2, <1>5, <1>7, <1>8

\* The row that a join writes is one that is left, of the key the call works on.
LEMMA JoinRow ==
  ASSUME CallsOK, NEW o \in Op, pc[o] = "join"
  PROVE  \E r \in left[o] : /\ r = CHOOSE s \in left[o] : s.key = Current(o)
                            /\ r.key = Current(o) /\ r \in Row
<1>1. TypeOK /\ left[o] # {}
  BY DEF CallsOK, PlaceInv
<1>2. PICK s \in left[o] : Current(o) = s.key
  BY <1>1 DEF Current
<1>3. PICK r : r = CHOOSE x \in left[o] : x.key = Current(o)
  OBVIOUS
<1>4. r \in left[o] /\ r.key = Current(o)
  BY <1>2, <1>3
<1> QED
  BY <1>1, <1>3, <1>4 DEF TypeOK

\* The row joins the inserts of a put, the deletes of a delete.
LEMMA JoinEffect ==
  ASSUME CallsOK, NEW o \in Op, NEW t \in Txn, req[o].txn = t, NEW c \in Key,
         c = Current(o), NEW r \in Row, r = CHOOSE s \in left[o] : s.key = Current(o),
         r.key = c, JoinStep(o)
  PROVE  /\ pc[o] = "join" /\ Open(t) /\ c \in Reserved(o)
         /\ pending' \in [Txn -> Delta \cup {Absent}]
         /\ \A u \in Txn : pending[u] # Absent => pending'[u] # Absent
         /\ Own(t, c)' = IF req[o].kind \in Puts THEN <<r.val, Own(t, c)[2]>>
                                                  ELSE <<Own(t, c)[1], r.val>>
         /\ \A u \in Txn, k \in Key : u # t \/ k # c => Own(u, k)' = Own(u, k)
<1>1. /\ pc[o] = "join"
      /\ pending' = [pending EXCEPT ![t] = IF req[o].kind \in Puts THEN JoinInserts(@, r)
                                                                   ELSE JoinDeletes(@, r)]
  BY DEF JoinStep
<1>2. /\ TypeOK /\ Open(t) /\ pending[t] # Absent /\ pending[t] \in Delta
      /\ c \in Reserved(o)
  BY <1>1, WritingFacts DEF Writing
<1>3. Own(t, c) = <<pending[t].inserts[c], pending[t].deletes[c]>>
  BY <1>2 DEF Own
<1>4. CASE req[o].kind \in Puts
  <2>1. PICK d \in Delta : d = JoinInserts(pending[t], r)
    BY <1>2, NativeSteps
  <2>2. /\ d.inserts[c] = r.val /\ d.deletes[c] = pending[t].deletes[c]
        /\ SameElse(d, pending[t], c)
    BY <1>2, <2>1 DEF SameElse, JoinInserts, Delta, Native
  <2>3. pending' = [pending EXCEPT ![t] = d]
    BY <1>1, <1>4, <2>1
  <2>4. /\ pending' \in [Txn -> Delta \cup {Absent}]
        /\ \A u \in Txn : pending[u] # Absent => pending'[u] # Absent
        /\ Own(t, c)' = <<d.inserts[c], d.deletes[c]>>
        /\ \A u \in Txn, k \in Key : u # t \/ k # c => Own(u, k)' = Own(u, k)
    BY <1>2, <2>2, <2>3, NativeOwn
  <2> QED
    BY <1>1, <1>2, <1>3, <1>4, <2>2, <2>4
<1>5. CASE req[o].kind \notin Puts
  <2>1. PICK d \in Delta : d = JoinDeletes(pending[t], r)
    BY <1>2, NativeSteps
  <2>2. /\ d.inserts[c] = pending[t].inserts[c] /\ d.deletes[c] = r.val
        /\ SameElse(d, pending[t], c)
    BY <1>2, <2>1 DEF SameElse, JoinDeletes, Delta, Native
  <2>3. pending' = [pending EXCEPT ![t] = d]
    BY <1>1, <1>5, <2>1
  <2>4. /\ pending' \in [Txn -> Delta \cup {Absent}]
        /\ \A u \in Txn : pending[u] # Absent => pending'[u] # Absent
        /\ Own(t, c)' = <<d.inserts[c], d.deletes[c]>>
        /\ \A u \in Txn, k \in Key : u # t \/ k # c => Own(u, k)' = Own(u, k)
    BY <1>2, <2>2, <2>3, NativeOwn
  <2> QED
    BY <1>1, <1>2, <1>3, <1>5, <2>2, <2>4
<1> QED
  BY <1>4, <1>5

\* The three native steps concern their own call.
LEMMA LeaveDeletesOwn ==
  ASSUME CallsOK, NEW o \in Op, NEW t \in Txn, req[o].txn = t, LeaveDeletesStep(o)
  PROVE  OwnStep(o, t)
<1>1. /\ pc[o] = "leaveDeletes" /\ told' = Forgotten(o) /\ Goto(o, "leaveInserts")
      /\ UNCHANGED <<semVars, persistent, committed, finalized, left>>
  BY DEF LeaveDeletesStep
<1>2. /\ TypeOK /\ PlaceInv(o) /\ Current(o) \in Key
  BY <1>1, WritingFacts DEF Writing
<1>3. PICK c \in Key : c = Current(o)
  BY <1>2
<1>4. /\ c \in Reserved(o)
      /\ pending' \in [Txn -> Delta \cup {Absent}]
      /\ \A u \in Txn : pending[u] # Absent => pending'[u] # Absent
      /\ \A u \in Txn, k \in Key : u # t \/ k # c => Own(u, k)' = Own(u, k)
  BY <1>3, LeaveDeletesEffect
<1>5. PICK rows \in SUBSET Row : rows = left[o]
  BY <1>2 DEF TypeOK
<1>6. rows # {} /\ left' = [left EXCEPT ![o] = rows]
  BY <1>1, <1>2, <1>5 DEF PlaceInv, Puts, Writing, TypeOK
<1> QED
  BY <1>1, <1>4, <1>5, <1>6, WriteOn DEF Writing

\* A delete that finds nothing to hide ends; the others go on to join.
LEMMA LeaveInsertsOwn ==
  ASSUME CallsOK, NEW o \in Op, NEW t \in Txn, req[o].txn = t, LeaveInsertsStep(o)
  PROVE  OwnStep(o, t)
<1>1. /\ pc[o] = "leaveInserts"
      /\ IF left[o] = {} THEN Acknowledge(o)
                         ELSE told' = Forgotten(o) /\ Goto(o, "join") /\ UNCHANGED left
      /\ UNCHANGED <<semVars, persistent, committed, finalized>>
  BY DEF LeaveInsertsStep
<1>2. /\ TypeOK /\ Current(o) \in Key
  BY <1>1, WritingFacts DEF Writing
<1>3. PICK c \in Key : c = Current(o)
  BY <1>2
<1>4. /\ c \in Reserved(o)
      /\ pending' \in [Txn -> Delta \cup {Absent}]
      /\ \A u \in Txn : pending[u] # Absent => pending'[u] # Absent
      /\ \A u \in Txn, k \in Key : u # t \/ k # c => Own(u, k)' = Own(u, k)
  BY <1>3, LeaveInsertsEffect
<1>5. CASE left[o] = {}
  <2>1. \A u \in Txn, k \in Key : u # t \/ k \notin Reserved(o) => Own(u, k)' = Own(u, k)
    BY <1>4
  <2> QED
    BY <1>1, <1>4, <1>5, <2>1, AcknowledgeOwn
<1>6. CASE left[o] # {}
  <2>1. PICK rows \in SUBSET Row : rows = left[o]
    BY <1>2 DEF TypeOK
  <2>2. rows # {} /\ left' = [left EXCEPT ![o] = rows]
    BY <1>1, <1>2, <1>6, <2>1 DEF TypeOK
  <2> QED
    BY <1>1, <1>4, <1>6, <2>1, <2>2, WriteOn DEF Writing
<1> QED
  BY <1>5, <1>6

\* A join ends the call, or begins the next of its rows.
LEMMA JoinOwn ==
  ASSUME CallsOK, NEW o \in Op, NEW t \in Txn, req[o].txn = t, JoinStep(o)
  PROVE  OwnStep(o, t)
<1>1. pc[o] = "join" /\ UNCHANGED <<semVars, persistent, committed, finalized>>
  BY DEF JoinStep
<1>2. /\ TypeOK /\ ReqInv(o) /\ PlaceInv(o) /\ Current(o) \in Key
  BY <1>1, WritingFacts DEF Writing
<1>3. PICK c \in Key : c = Current(o)
  BY <1>2
<1>4. PICK r \in left[o] : /\ r = CHOOSE s \in left[o] : s.key = Current(o)
                           /\ r.key = Current(o) /\ r \in Row
  BY <1>1, JoinRow
<1>5. /\ c \in Reserved(o)
      /\ pending' \in [Txn -> Delta \cup {Absent}]
      /\ \A u \in Txn : pending[u] # Absent => pending'[u] # Absent
      /\ \A u \in Txn, k \in Key : u # t \/ k # c => Own(u, k)' = Own(u, k)
  BY <1>3, <1>4, JoinEffect
<1>6. CASE left[o] = {r}
  <2>1. \A u \in Txn, k \in Key : u # t \/ k \notin Reserved(o) => Own(u, k)' = Own(u, k)
    BY <1>5
  <2>2. Acknowledge(o)
    BY <1>4, <1>6 DEF JoinStep
  <2> QED
    BY <1>1, <1>5, <2>1, <2>2, AcknowledgeOwn
<1>7. CASE left[o] # {r}
  <2>1. /\ left' = [left EXCEPT ![o] = left[o] \ {r}] /\ Goto(o, FirstPlace(o))
        /\ UNCHANGED told
    BY <1>4, <1>7 DEF JoinStep
  <2>2. PICK rows \in SUBSET Row : rows = left[o] \ {r}
    BY <1>2 DEF TypeOK
  <2>3. rows # {} /\ rows \subseteq left[o] /\ left' = [left EXCEPT ![o] = rows]
    BY <1>4, <1>7, <2>1, <2>2
  <2>4. req[o].kind \notin {"upsert", "insert"}
    BY <1>1, <1>2, <1>4, <1>7 DEF ReqInv
  <2>5. /\ FirstPlace(o) \in Writing
        /\ FirstPlace(o) = "leaveDeletes" => req[o].kind \in Puts
    BY DEF FirstPlace, Writing
  <2> QED
    BY <1>1, <1>5, <2>1, <2>2, <2>3, <2>4, <2>5, WriteOn, ZenonT(40) DEF Writing
<1> QED
  BY <1>6, <1>7

\* So do all the steps of a call.
LEMMA WriteOwn ==
  ASSUME CallsOK, NEW o \in Op, WriteNext(o)
  PROVE  \E t \in Txn : req[o].txn = t /\ OwnStep(o, t)
<1>1. pc[o] # "idle"
  BY DEF WriteNext, InsertCheck, WriteReject, PendingLookup, PendingInstall, LookDelete,
         LookRange, LeaveDeletesStep, LeaveInsertsStep, JoinStep, Abandon
<1>2. PICK t \in Txn : req[o].txn = t
  BY <1>1 DEF CallsOK, ReqInv
<1>3. OwnStep(o, t)
  BY <1>2, InsertCheckOwn, FinishOwn, PendingLookupOwn, PendingInstallOwn, LookDeleteOwn,
     LookRangeOwn, LeaveDeletesOwn, LeaveInsertsOwn, JoinOwn DEF WriteNext
<1> QED
  BY <1>2, <1>3

-----------------------------------------------------------------------------
(* A call that starts, the reads and the lifecycle.                        *)

\* A call starts with a permit for its keys, and with what its transaction reads.
StartStep(o, t, keys) ==
  /\ TypeOK'
  /\ pc[o] = "idle" /\ pc'[o] \in {"check", "lookup"}
  /\ pc'[o] = "lookup" => req'[o].kind # "insert"
  /\ CanWrite(t, keys, HeldFor(t)) /\ ReserveWrite(t, keys)
  /\ req'[o].txn = t /\ Reserved(o)' = keys
  /\ was'[o] = View(t)
  /\ UNCHANGED <<tableVars, told>>
  /\ \A p \in Op \ {o} : /\ pc'[p] = pc[p] /\ req'[p] = req[p]
                         /\ left'[p] = left[p] /\ was'[p] = was[p]
  /\ ReqInv(o)' /\ PlaceInv(o)' /\ OpenInv(o)'

\* What every call has in common at its start.
LEMMA ReserveTypes ==
  ASSUME TypeOK, NEW o \in Op, NEW t \in Txn,
         NEW kind \in Puts \cup {"delete", "truncate"}, NEW range \in SUBSET Row,
         NEW val \in Val \cup {NoRow}, Reserve(o, kind, t, range, val)
  PROVE  /\ TypeOK'
         /\ pc[o] = "idle"
         /\ pc'[o] = IF kind = "insert" THEN "check" ELSE "lookup"
         /\ req'[o] = [kind |-> kind, txn |-> t, range |-> range, val |-> val]
         /\ left'[o] = IF kind \in {"upsert", "insert"} THEN {r \in range : r.val = val} ELSE {}
         /\ was'[o] = View(t)
         /\ UNCHANGED <<tableVars, told>>
         /\ \A p \in Op \ {o} : /\ pc'[p] = pc[p] /\ req'[p] = req[p]
                                /\ left'[p] = left[p] /\ was'[p] = was[p]
         /\ CanWrite(t, Reserved(o)', HeldFor(t)) /\ ReserveWrite(t, Reserved(o)')
<1> DEFINE keys == IF kind \in {"update", "truncate"} THEN Key ELSE {r.key : r \in range}
           call == [kind |-> kind, txn |-> t, range |-> range, val |-> val]
           rows == IF kind \in {"upsert", "insert"} THEN {r \in range : r.val = val} ELSE {}
           place == IF kind = "insert" THEN "check" ELSE "lookup"
<1>1. /\ pc[o] = "idle"
      /\ CanWrite(t, keys, HeldFor(t)) /\ ReserveWrite(t, keys)
      /\ pc' = [pc EXCEPT ![o] = place]
      /\ req' = [req EXCEPT ![o] = call]
      /\ left' = [left EXCEPT ![o] = rows]
      /\ was' = [was EXCEPT ![o] = View(t)]
      /\ UNCHANGED <<tableVars, told>>
  BY DEF Reserve
<1>2. keys \in SUBSET Key /\ rows \in SUBSET Row
  BY DEF Row
<1>3. call \in [kind : Puts \cup {"none", "delete", "truncate"}, txn : Txn \cup {0},
                range : SUBSET Row, val : Val \cup {NoRow}]
  OBVIOUS
<1>4. place \in {"check", "lookup"}
  OBVIOUS
<1>5. View(t) \in Native
  BY ViewTypes
<1>6. call.kind = kind /\ call.range = range
  OBVIOUS
<1> HIDE DEF call, rows, place
<1>7. /\ pc'[o] = place /\ req'[o] = call /\ left'[o] = rows /\ was'[o] = View(t)
      /\ \A p \in Op \ {o} : /\ pc'[p] = pc[p] /\ req'[p] = req[p]
                             /\ left'[p] = left[p] /\ was'[p] = was[p]
  BY <1>1 DEF TypeOK
<1>8. Reserved(o)' = keys
  BY <1>6, <1>7 DEF Reserved
<1> HIDE DEF keys
<1>9. SemTypeOK'
  BY <1>1, <1>2 DEF TypeOK, SemTypeOK, ReserveWrite
<1>10. TypeOK'
  BY <1>1, <1>2, <1>3, <1>4, <1>5, <1>9 DEF TypeOK, tableVars
<1> QED
  BY <1>1, <1>7, <1>8, <1>10 DEF call, rows, place

\* Every write starts so.
LEMMA StartOwn ==
  ASSUME CallsOK, NEW o \in Op, NEW t \in Txn, StartWrite(o, t)
  PROVE  \E keys \in SUBSET Key : StartStep(o, t, keys)
<1>1. TypeOK
  BY DEF CallsOK
<1>2. SUFFICES ASSUME NEW kind \in Puts \cup {"delete", "truncate"}, NEW range \in SUBSET Row,
                      NEW val \in Val \cup {NoRow}, Reserve(o, kind, t, range, val),
                      \/ \E r \in Row : /\ kind \in {"upsert", "insert"}
                                        /\ range = RowsOf(r.key) /\ val = r.val
                      \/ \E k \in Key : kind = "delete" /\ range = RowsOf(k) /\ val = NoRow
                      \/ kind = "update" /\ range \in Ranges /\ val \in Val
                      \/ kind = "truncate" /\ range \in Ranges /\ val = NoRow
               PROVE  \E keys \in SUBSET Key : StartStep(o, t, keys)
  <2>1. CASE \E kind \in {"upsert", "insert"}, r \in Row :
               Reserve(o, kind, t, RowsOf(r.key), r.val)
    <3>1. PICK kind \in {"upsert", "insert"}, r \in Row :
                 Reserve(o, kind, t, RowsOf(r.key), r.val)
      BY <2>1
    <3>2. PICK range \in SUBSET Row, val \in Val : range = RowsOf(r.key) /\ val = r.val
      BY DEF RowsOf, Row
    <3> QED
      BY <1>2, <3>1, <3>2 DEF Puts
  <2>2. CASE \E k \in Key : Reserve(o, "delete", t, RowsOf(k), NoRow)
    <3>1. PICK k \in Key : Reserve(o, "delete", t, RowsOf(k), NoRow)
      BY <2>2
    <3>2. PICK range \in SUBSET Row : range = RowsOf(k)
      BY DEF RowsOf
    <3> QED
      BY <1>2, <3>1, <3>2
  <2>3. CASE \E range \in Ranges, v \in Val : Reserve(o, "update", t, range, v)
    BY <1>2, <2>3, TableAssumption DEF Puts
  <2>4. CASE \E range \in Ranges : Reserve(o, "truncate", t, range, NoRow)
    BY <1>2, <2>4, TableAssumption
  <2> QED
    BY <2>1, <2>2, <2>3, <2>4 DEF StartWrite
<1>3. /\ TypeOK'
      /\ pc[o] = "idle"
      /\ pc'[o] = IF kind = "insert" THEN "check" ELSE "lookup"
      /\ req'[o] = [kind |-> kind, txn |-> t, range |-> range, val |-> val]
      /\ left'[o] = IF kind \in {"upsert", "insert"} THEN {r \in range : r.val = val} ELSE {}
      /\ was'[o] = View(t)
      /\ UNCHANGED <<tableVars, told>>
      /\ \A p \in Op \ {o} : /\ pc'[p] = pc[p] /\ req'[p] = req[p]
                             /\ left'[p] = left[p] /\ was'[p] = was[p]
      /\ CanWrite(t, Reserved(o)', HeldFor(t)) /\ ReserveWrite(t, Reserved(o)')
  BY <1>1, <1>2, ReserveTypes
<1>4. PICK keys \in SUBSET Key : keys = Reserved(o)'
  <2>1. Reserved(o)' \in SUBSET Key
    BY <1>3 DEF TypeOK, Reserved, Row
  <2> QED
    BY <2>1
<1>5. /\ req'[o].kind = kind /\ req'[o].txn = t /\ req'[o].range = range /\ req'[o].val = val
      /\ pc'[o] \in {"check", "lookup"}
  BY <1>3
<1>6. ReqInv(o)'
  <2>1. \A r \in Row : range = RowsOf(r.key) /\ val = r.val =>
                         {x \in range : x.val = val} = {r}
    BY DEF RowsOf, Row
  <2> QED
    BY <1>2, <1>3, <1>5, <2>1 DEF ReqInv
<1>7. PlaceInv(o)' /\ OpenInv(o)'
  BY <1>3, <1>5 DEF PlaceInv, OpenInv, Writing
<1> QED
  BY <1>3, <1>4, <1>5, <1>6, <1>7 DEF StartStep

\* A read changes reservations and what its transaction was told.
LEMMA ReadTypes ==
  ASSUME TypeOK, NEW t \in Txn, (\E k \in Key : ReadRow(t, k)) \/ ReadAll(t)
  PROVE  TypeOK' /\ UNCHANGED <<tableVars, pc, req, left, was>>
<1>1. View(t) \in Native
  BY ViewTypes
<1>2. CASE \E k \in Key : ReadRow(t, k)
  <2>1. PICK k \in Key : ReadRow(t, k)
    BY <1>2
  <2>2. SemTypeOK'
    BY <2>1 DEF TypeOK, SemTypeOK, ReadRow, ReserveRead
  <2>3. told' \in [Txn -> [Key -> Val \cup {NoRow, Unknown}]]
    BY <1>1, <2>1 DEF ReadRow, TypeOK, Native
  <2> QED
    BY <2>1, <2>2, <2>3 DEF ReadRow, TypeOK, tableVars
<1>3. CASE ReadAll(t)
  <2> DEFINE rows == RangeRead(t, Row)
             new == [k \in Key |-> IF rows \cap RowsOf(k) = {} THEN NoRow
                                   ELSE (CHOOSE r \in rows : r.key = k).val]
  <2>1. rows \in SUBSET Row
    BY RangeReadTypes
  <2>2. SemTypeOK'
    BY <1>3 DEF TypeOK, SemTypeOK, ReadAll, ReserveRead
  <2>3. \A k \in Key : rows \cap RowsOf(k) # {} => (CHOOSE r \in rows : r.key = k) \in Row
    <3> HIDE DEF rows
    <3> QED
      BY <2>1 DEF RowsOf
  <2>4. new \in [Key -> Val \cup {NoRow, Unknown}]
    <3> HIDE DEF rows
    <3> QED
      BY <2>3 DEF Row
  <2>5. told' = IF Open(t) THEN [told EXCEPT ![t] = new] ELSE told
    BY <1>3 DEF ReadAll
  <2> HIDE DEF new
  <2>6. told' \in [Txn -> [Key -> Val \cup {NoRow, Unknown}]]
    BY <2>4, <2>5 DEF TypeOK
  <2> QED
    BY <1>3, <2>2, <2>6 DEF ReadAll, TypeOK, tableVars
<1> QED
  BY <1>2, <1>3

\* A lifecycle call concerns transactions that have no call in flight, and leaves the
\* others as open as they were.
LEMMA LifecycleTypes ==
  ASSUME TypeOK, NEW t \in Txn, Commit(t) \/ Rollback(t) \/ Finalize(t)
  PROVE  /\ TypeOK'
         /\ UNCHANGED <<pc, req, left, was>>
         /\ \A u \in Txn : ~Quiet(u) => (Open(u) => Open(u)') /\ pending'[u] = pending[u]
<1>1. t \in Nat /\ Txn \subseteq Nat /\ finalized \in Nat
  BY TxnAssumption DEF TypeOK
<1>2. \A d : told' = Forget(d) => told' \in [Txn -> [Key -> Val \cup {NoRow, Unknown}]]
  BY DEF Forget, TypeOK
<1>3. CASE Commit(t)
  <2>1. committed' \in [Txn -> Delta \cup {Absent, NoDelta}]
        /\ pending' \in [Txn -> Delta \cup {Absent}] /\ SemTypeOK'
    BY <1>3 DEF Commit, TypeOK, SemTypeOK, SemRelease
  <2>2. TypeOK' /\ UNCHANGED <<pc, req, left, was>>
    BY <1>2, <1>3, <2>1 DEF Commit, TypeOK
  <2>3. \A u \in Txn : u # t => (Open(u) => Open(u)') /\ pending'[u] = pending[u]
    BY <1>3 DEF Commit, TypeOK, Open
  <2> QED
    BY <1>3, <2>2, <2>3 DEF Commit
<1>4. CASE Rollback(t)
  <2>1. pending' \in [Txn -> Delta \cup {Absent}] /\ SemTypeOK'
    BY <1>4 DEF Rollback, TypeOK, SemTypeOK, SemRelease
  <2>2. TypeOK' /\ UNCHANGED <<pc, req, left, was>>
    BY <1>2, <1>4, <2>1 DEF Rollback, TypeOK
  <2>3. \A u \in Txn : u # t => (Open(u) => Open(u)') /\ pending'[u] = pending[u]
    BY <1>4 DEF Rollback, TypeOK, Open
  <2> QED
    BY <1>4, <2>2, <2>3 DEF Rollback
<1>5. CASE Finalize(t)
  <2>1. Materialized(t) \in Native
    BY <1>1, MaterializedLoop DEF MaterializedSteps
  <2>2. committed' \in [Txn -> Delta \cup {Absent, NoDelta}]
        /\ pending' \in [Txn -> Delta \cup {Absent}] /\ SemTypeOK'
    BY <1>5 DEF Finalize, TypeOK, SemTypeOK, SemReleaseThrough
  <2>3. TypeOK' /\ UNCHANGED <<pc, req, left, was>>
    BY <1>2, <1>5, <2>1, <2>2 DEF Finalize, TypeOK
  <2>4. \A u \in Txn : u > t => (Open(u) => Open(u)') /\ pending'[u] = pending[u]
    BY <1>1, <1>5 DEF Finalize, TypeOK, Open
  <2>5. \A u \in Txn : ~Quiet(u) => u > t
    BY <1>1, <1>5 DEF Finalize
  <2> QED
    BY <2>3, <2>4, <2>5
<1> QED
  BY <1>3, <1>4, <1>5

-----------------------------------------------------------------------------
(* Calls are in order in every state.                                      *)

\* No call is in flight at first.
LEMMA CallsInit == Init => CallsOK
<1> SUFFICES ASSUME Init PROVE CallsOK
  OBVIOUS
<1>1. NoReq \in [kind : Puts \cup {"none", "delete", "truncate"},
                 txn : Txn \cup {0}, range : SUBSET Row, val : Val \cup {NoRow}]
      /\ NoReq.txn \notin Txn
  BY TxnAssumption DEF NoReq
<1>2. NoRows \in Native
  BY DEF NoRows, Native
<1>3. TypeOK
  BY <1>1, <1>2 DEF Init, TypeOK, SemInit, SemTypeOK
<1>4. \A o \in Op : ReqInv(o) /\ PlaceInv(o) /\ OpenInv(o)
  BY <1>1 DEF Init, ReqInv, PlaceInv, OpenInv, Writing
<1> QED
  BY <1>3, <1>4 DEF CallsOK

\* A transaction with a call in flight is not quiet.
LEMMA CallIsHeard ==
  ASSUME NEW p \in Op, NEW t \in Txn, req[p].txn = t
  PROVE  ~Quiet(t)
BY DEF Quiet

\* Every step leaves every call in order, the own call by its place and the others
\* because they are left alone.
LEMMA CallsNext == CallsOK /\ [Next]_vars => CallsOK'
<1> SUFFICES ASSUME CallsOK, [Next]_vars PROVE CallsOK'
  OBVIOUS
<1>1. TypeOK /\ \A p \in Op : ReqInv(p) /\ PlaceInv(p) /\ OpenInv(p)
  BY DEF CallsOK
<1>2. ASSUME NEW o \in Op, WriteNext(o) PROVE CallsOK'
  <2>1. PICK t \in Txn : req[o].txn = t /\ OwnStep(o, t)
    BY <1>2, WriteOwn
  <2>2. TypeOK' /\ ReqInv(o)' /\ PlaceInv(o)' /\ OpenInv(o)'
    BY <2>1 DEF OwnStep
  <2>3. ASSUME NEW p \in Op \ {o} PROVE ReqInv(p)' /\ PlaceInv(p)' /\ OpenInv(p)'
    <3>1. /\ pc'[p] = pc[p] /\ req'[p] = req[p] /\ left'[p] = left[p]
          /\ \A u \in Txn : pending[u] # Absent => pending'[u] # Absent
          /\ committed' = committed /\ finalized' = finalized
      BY <2>1 DEF OwnStep
    <3>2. \A u \in Txn : Open(u) => Open(u)'
      BY <3>1 DEF Open
    <3> QED
      BY <1>1, <3>1, <3>2, CallStays
  <2> QED
    BY <2>2, <2>3 DEF CallsOK
<1>3. ASSUME NEW o \in Op, NEW t \in Txn, StartWrite(o, t) PROVE CallsOK'
  <2>1. PICK keys \in SUBSET Key : StartStep(o, t, keys)
    BY <1>3, StartOwn
  <2>2. TypeOK' /\ ReqInv(o)' /\ PlaceInv(o)' /\ OpenInv(o)'
    BY <2>1 DEF StartStep
  <2>3. ASSUME NEW p \in Op \ {o} PROVE ReqInv(p)' /\ PlaceInv(p)' /\ OpenInv(p)'
    <3>1. /\ pc'[p] = pc[p] /\ req'[p] = req[p] /\ left'[p] = left[p]
          /\ UNCHANGED tableVars
      BY <2>1 DEF StartStep
    <3>2. \A u \in Txn : Open(u) => Open(u)'
      BY <3>1 DEF Open, tableVars
    <3> QED
      BY <1>1, <3>1, <3>2, CallStays DEF tableVars
  <2> QED
    BY <2>2, <2>3 DEF CallsOK
<1>4. ASSUME NEW t \in Txn, (\E k \in Key : ReadRow(t, k)) \/ ReadAll(t) PROVE CallsOK'
  <2>1. TypeOK' /\ UNCHANGED <<tableVars, pc, req, left, was>>
    BY <1>1, <1>4, ReadTypes
  <2>2. \A u \in Txn : Open(u) => Open(u)'
    BY <2>1 DEF Open, tableVars
  <2>3. ASSUME NEW p \in Op PROVE ReqInv(p)' /\ PlaceInv(p)' /\ OpenInv(p)'
    BY <1>1, <2>1, <2>2, CallStays DEF tableVars
  <2> QED
    BY <2>1, <2>3 DEF CallsOK
<1>5. ASSUME NEW t \in Txn, Commit(t) \/ Rollback(t) \/ Finalize(t) PROVE CallsOK'
  <2>1. /\ TypeOK' /\ UNCHANGED <<pc, req, left, was>>
        /\ \A u \in Txn : ~Quiet(u) => (Open(u) => Open(u)') /\ pending'[u] = pending[u]
    BY <1>1, <1>5, LifecycleTypes
  <2>2. ASSUME NEW p \in Op PROVE ReqInv(p)' /\ PlaceInv(p)' /\ OpenInv(p)'
    <3>1. \A u \in Txn : req[p].txn = u => (Open(u) => Open(u)') /\ pending'[u] = pending[u]
      BY <2>1, CallIsHeard
    <3> QED
      BY <1>1, <2>1, <3>1, CallStays
  <2> QED
    BY <2>1, <2>2 DEF CallsOK
<1>6. CASE UNCHANGED vars
  <2>1. TypeOK'
    BY <1>1, <1>6 DEF TypeOK, SemTypeOK, vars, semVars, tableVars
  <2>2. \A u \in Txn : Open(u) => Open(u)'
    BY <1>6 DEF Open, vars, tableVars
  <2>3. ASSUME NEW p \in Op PROVE ReqInv(p)' /\ PlaceInv(p)' /\ OpenInv(p)'
    BY <1>1, <1>6, <2>2, CallStays DEF vars, tableVars
  <2> QED
    BY <2>1, <2>3 DEF CallsOK
<1> QED
  BY <1>2, <1>3, <1>4, <1>5, <1>6 DEF Next

\* Calls are where their kind allows, with a delta whenever they need one.
THEOREM CallsInOrder == Spec => []CallsOK
BY CallsInit, CallsNext, PTL DEF Spec

\* Every variable has its type.
THEOREM TypesHold == Spec => []TypeOK
<1>1. CallsOK => TypeOK
  BY DEF CallsOK
<1> QED
  BY <1>1, CallsInOrder, PTL

\* Every range selects rows by their keys alone.
KeyRanges == \A range \in Ranges : KeyRange(range)

\* The rows that are left to write are rows the call is to write.
LeftInv(o) ==
  pc[o] \in Writing => \A r \in left[o] :
    /\ req[o].kind \in Puts => r.val = req[o].val
    /\ KeyRanges => Goal(o, r.key, was[o][r.key]) = req[o].val

\* What a call in transaction t can rely on at a key that it holds a permit for.
KeyInv(o, t, k) ==
  /\ k \in writes[t]
  /\ pc[o] \in Early /\ Open(t) => View(t)[k] = was[o][k]
  /\ KeyRanges /\ pc[o] \in Writing /\ (\A r \in left[o] : r.key # k) =>
       View(t)[k] = Goal(o, k, was[o][k])
  /\ pc[o] = "join" => told[t][k] = Unknown
  /\ k = Current(o) =>
       /\ pc[o] \in {"leaveInserts", "join"} /\ req[o].kind \in Puts => Own(t, k)[2] = NoRow
       /\ pc[o] = "join" => Own(t, k)[1] = NoRow
  /\ KeyRanges /\ Open(t) =>
       View(t)[k] \in {was[o][k], Goal(o, k, was[o][k]), Beneath(t)[k]}
  /\ req[o].kind = "insert" /\ pc[o] \in {"lookup", "create", "leaveDeletes"} /\ Open(t) =>
       View(t)[k] = NoRow

\* What a call has promised itself, at every key it reserved.
OpInv(o) ==
  /\ LeftInv(o)
  /\ \A t \in Txn : req[o].txn = t => \A k \in Reserved(o) : KeyInv(o, t, k)

\* Permits in one transaction do not overlap.
Permits ==
  \A o, p \in Op : o # p /\ req[o].txn = req[p].txn => Reserved(o) \cap Reserved(p) = {}

\* No transaction uses what an earlier one has reserved to write.
SemOrder ==
  \A u, t \in Txn : u < t => writes[u] \cap (reads[t] \cup writes[t]) = {}

\* A delta has rows, and a transaction was told of keys, in what it reserved.
DeltaReserved ==
  \A t \in Txn, k \in Key : Own(t, k) # <<NoRow, NoRow>> => k \in writes[t]

ToldReserved ==
  \A t \in Txn, k \in Key : told[t][k] # Unknown => k \in reads[t] \cup writes[t]

\* What is not of one call.
SharedInv ==
  /\ RowsDisjoint /\ SemOrder /\ DeltaReserved /\ ToldReserved /\ Permits
  /\ KeyRanges => TellsTruth

\* The inductive invariant.
TableInv == CallsOK /\ SharedInv /\ \A o \in Op : OpInv(o)

\* A step that changes no committed delta and no canonical row changes no read of
\* another's.
LEMMA SameBeneath ==
  ASSUME TypeOK, TypeOK', UNCHANGED <<persistent, committed>>, NEW t \in Txn, NEW k \in Key
  PROVE  /\ Beneath(t)'[k] = Beneath(t)[k]
         /\ Own(t, k)' = Own(t, k) => View(t)'[k] = View(t)[k]
<1>1. t \in Nat /\ persistent'[k] = persistent[k]
  BY TxnAssumption
<1>2. \A u \in Txn : u <= t => \/ committed'[u] = committed[u]
                               \/ ~Touches(u, k) /\ ~Touches(u, k)'
  OBVIOUS
<1>3. Beneath(t)'[k] = Beneath(t)[k]
  BY <1>1, <1>2, BeneathStays
<1> QED
  BY <1>3, ViewStays

\* What a call relies on at a key, while neither the call nor what its transaction
\* reads there changes.
LEMMA KeyStays ==
  ASSUME NEW p \in Op, NEW t \in Txn, NEW k \in Key, KeyInv(p, t, k),
         pc'[p] = pc[p], req'[p] = req[p], left'[p] = left[p], was'[p] = was[p],
         k \in writes'[t], Open(t)' => Open(t),
         View(t)'[k] = View(t)[k], Beneath(t)'[k] = Beneath(t)[k], Own(t, k)' = Own(t, k),
         told[t][k] = Unknown => told'[t][k] = Unknown
  PROVE  KeyInv(p, t, k)'
<1>1. Current(p)' = Current(p)
  BY DEF Current, Reserved
<1>2. Goal(p, k, was[p][k])' = Goal(p, k, was[p][k])
  BY DEF Goal, Reserved
<1> QED
  BY <1>1, <1>2 DEF KeyInv

\* What is left to write stays right while the call does nothing.
LEMMA LeftStays ==
  ASSUME NEW p \in Op, LeftInv(p),
         pc'[p] = pc[p], req'[p] = req[p], left'[p] = left[p], was'[p] = was[p]
  PROVE  LeftInv(p)'
<1>1. SUFFICES ASSUME NEW r \in left[p], pc[p] \in Writing
               PROVE  /\ req[p].kind \in Puts => r.val = req[p].val
                      /\ KeyRanges => Goal(p, r.key, was[p][r.key])' = req[p].val
  BY DEF LeftInv
<1>2. Goal(p, r.key, was[p][r.key])' = Goal(p, r.key, was[p][r.key])
  BY DEF Goal, Reserved
<1> QED
  BY <1>1, <1>2 DEF LeftInv

\* A call that ends relies on nothing.
LEMMA EndedInv ==
  ASSUME NEW o \in Op, pc'[o] = "idle", req'[o] = NoReq
  PROVE  OpInv(o)'
<1>1. req'[o].txn \notin Txn
  BY TxnAssumption DEF NoReq
<1> QED
  BY <1>1 DEF OpInv, LeftInv, Writing

\* A step of a call keeps what concerns all, if it leaves sound what concerns the
\* call: its own promises, and what its transaction is told at its keys.
LEMMA OwnStepKeeps ==
  ASSUME TableInv, NEW o \in Op, NEW t \in Txn, req[o].txn = t, OwnStep(o, t), OpInv(o)',
         \A k \in Reserved(o) : NoRow \in {Own(t, k)'[1], Own(t, k)'[2]},
         KeyRanges => \A k \in Reserved(o) :
                        told'[t][k] # Unknown => View(t)'[k] = told'[t][k]
  PROVE  SharedInv' /\ \A p \in Op : OpInv(p)'
<1>1. /\ TypeOK /\ TypeOK' /\ Reserved(o) \subseteq Key
      /\ SharedInv /\ \A p \in Op : OpInv(p)
  BY ReservedKeys DEF TableInv, CallsOK, OwnStep
<1>2. /\ UNCHANGED <<semVars, persistent, committed, finalized>>
      /\ \A u \in Txn, k \in Key : u # t \/ k \notin Reserved(o) =>
           Own(u, k)' = Own(u, k) /\ told'[u][k] = told[u][k]
      /\ \A p \in Op \ {o} : /\ pc'[p] = pc[p] /\ req'[p] = req[p]
                             /\ left'[p] = left[p] /\ was'[p] = was[p]
  BY DEF OwnStep
<1>3. \A u \in Txn, k \in Key :
        /\ Beneath(u)'[k] = Beneath(u)[k]
        /\ Own(u, k)' = Own(u, k) => View(u)'[k] = View(u)[k]
  BY <1>1, <1>2, SameBeneath
<1>4. \A k \in Reserved(o) : k \in writes[t]
  BY <1>1 DEF OpInv, KeyInv
<1>5. RowsDisjoint'
  <2>1. \A u \in Txn, k \in Key : pending'[u] # Absent =>
          NoRow \in {Own(u, k)'[1], Own(u, k)'[2]}
    <3>1. \A u \in Txn, k \in Key : NoRow \in {Own(u, k)[1], Own(u, k)[2]}
      BY <1>1 DEF SharedInv, RowsDisjoint, Own
    <3> QED
      BY <1>2, <3>1
  <2>2. \A u \in Txn, k \in Key : pending'[u] # Absent =>
          Own(u, k)' = <<pending'[u].inserts[k], pending'[u].deletes[k]>>
    BY DEF Own
  <2>3. \A u \in Txn, k \in Key : pending'[u] # Absent =>
          NoRow \in {pending'[u].inserts[k], pending'[u].deletes[k]}
    BY <2>1, <2>2
  <2> QED
    BY <1>1, <1>2, <2>3 DEF SharedInv, RowsDisjoint, HasDelta
<1>6. SemOrder'
  BY <1>1, <1>2 DEF SharedInv, SemOrder, semVars
<1>7. DeltaReserved'
  BY <1>1, <1>2, <1>4 DEF SharedInv, DeltaReserved, semVars
<1>8. ToldReserved'
  BY <1>1, <1>2, <1>4 DEF SharedInv, ToldReserved, semVars
<1>9. Permits'
  <2>1. \A p \in Op : Reserved(p)' \subseteq Reserved(p)
    BY <1>2 DEF OwnStep, NoReq, Reserved
  <2>2. Reserved(o)' # {} => req'[o] = req[o]
    BY DEF OwnStep, NoReq, Reserved
  <2> QED
    BY <1>1, <1>2, <2>1, <2>2 DEF SharedInv, Permits
<1>10. KeyRanges => TellsTruth'
  BY <1>1, <1>2, <1>3 DEF SharedInv, TellsTruth
<1>11. ASSUME NEW p \in Op \ {o} PROVE OpInv(p)'
  <2>1. LeftInv(p)'
    BY <1>1, <1>2, LeftStays DEF OpInv
  <2>2. ASSUME NEW u \in Txn, req'[p].txn = u, NEW k \in Key, k \in Reserved(p)'
        PROVE  KeyInv(p, u, k)'
    <3>1. req[p].txn = u /\ k \in Reserved(p)
      BY <1>2, <2>2 DEF Reserved
    <3>2. KeyInv(p, u, k)
      BY <1>1, <3>1 DEF OpInv
    <3>3. u # t \/ k \notin Reserved(o)
      BY <1>1, <3>1 DEF SharedInv, Permits
    <3>4. Own(u, k)' = Own(u, k) /\ told'[u][k] = told[u][k]
      BY <1>2, <3>3
    <3>5. k \in writes'[u] /\ (Open(u)' => Open(u))
      BY <1>2, <3>2 DEF KeyInv, Open, semVars
    <3> QED
      BY <1>2, <1>3, <3>2, <3>4, <3>5, KeyStays
  <2>3. Reserved(p)' \subseteq Key
    BY <1>1, <1>2, ReservedKeys DEF Reserved
  <2> QED
    BY <2>1, <2>2, <2>3 DEF OpInv
<1> QED
  BY <1>5, <1>6, <1>7, <1>8, <1>9, <1>10, <1>11 DEF SharedInv

-----------------------------------------------------------------------------
(* The steps of a call, one by one.                                        *)

\* What a call can count on before each of its steps.
LEMMA CallFacts ==
  ASSUME TableInv, NEW o \in Op, NEW t \in Txn, req[o].txn = t
  PROVE  /\ CallsOK /\ TypeOK /\ ReqInv(o) /\ PlaceInv(o) /\ OpenInv(o)
         /\ LeftInv(o) /\ Reserved(o) \subseteq Key
         /\ \A k \in Reserved(o) : KeyInv(o, t, k)
         /\ \A k \in Key : NoRow \in {Own(t, k)[1], Own(t, k)[2]}
         /\ \A k \in Key : View(t)[k] \in Val \cup {NoRow}
<1>1. CallsOK /\ TypeOK /\ ReqInv(o) /\ PlaceInv(o) /\ OpenInv(o) /\ SharedInv /\ OpInv(o)
  BY DEF TableInv, CallsOK
<1>2. \A k \in Key : NoRow \in {Own(t, k)[1], Own(t, k)[2]}
  BY <1>1 DEF SharedInv, RowsDisjoint, Own
<1>3. View(t) \in Native
  BY <1>1, ViewTypes
<1> QED
  BY <1>1, <1>2, <1>3, ReservedKeys DEF OpInv, Native

\* A row write, a delete of a row: one key, of the one row that is left.
LEMMA OneKey ==
  ASSUME TypeOK, NEW o \in Op, ReqInv(o), req[o].kind \in {"upsert", "insert", "delete"}
  PROVE  \E k \in Key : /\ Reserved(o) = {k}
                        /\ \A r \in left[o] : r.key = k
                        /\ req[o].kind \in {"upsert", "insert"} =>
                             \E r \in left[o] : left[o] = {r} /\ r.val = req[o].val
<1>1. PICK v \in Val : TRUE
  BY NoRowAssumption
<1>2. \A k \in Key : {r.key : r \in RowsOf(k)} = {k}
  <2>1. \A k \in Key : [key |-> k, val |-> v] \in RowsOf(k)
    BY DEF RowsOf, Row
  <2> QED
    BY <2>1 DEF RowsOf
<1>3. CASE req[o].kind = "delete"
  <2>1. PICK k \in Key : req[o].range = RowsOf(k) /\ left[o] \subseteq RowsOf(k)
    BY <1>3 DEF ReqInv, NoReq
  <2> QED
    BY <1>2, <1>3, <2>1 DEF Reserved, RowsOf
<1>4. CASE req[o].kind \in {"upsert", "insert"}
  <2>1. PICK r \in Row : req[o].range = RowsOf(r.key) /\ left[o] = {r} /\ req[o].val = r.val
    BY <1>4 DEF ReqInv, NoReq
  <2>2. r.key \in Key
    BY DEF Row
  <2> QED
    BY <1>2, <1>4, <2>1, <2>2 DEF Reserved
<1> QED
  BY <1>3, <1>4

\* A step that goes on with the same request: what the call relies on after it.
LEMMA GoesOn ==
  ASSUME NEW o \in Op, NEW t \in Txn, req[o].txn = t, req'[o] = req[o], was'[o] = was[o],
         LeftInv(o)', \A k \in Reserved(o) : KeyInv(o, t, k)'
  PROVE  OpInv(o)'
<1>1. Reserved(o)' = Reserved(o)
  BY DEF Reserved
<1>2. \A u \in Txn : req'[o].txn = u => \A k \in Reserved(o)' : KeyInv(o, u, k)'
  BY <1>1
<1> QED
  BY <1>2 DEF OpInv

\* A step that changes no delta and no promise.
LEMMA StillStep ==
  ASSUME TableInv, NEW o \in Op, NEW t \in Txn, req[o].txn = t, OwnStep(o, t), OpInv(o)',
         told' = told, \A k \in Reserved(o) : Own(t, k)' = Own(t, k)
  PROVE  SharedInv' /\ \A p \in Op : OpInv(p)'
<1>1. /\ TypeOK /\ Reserved(o) \subseteq Key
      /\ \A k \in Key : NoRow \in {Own(t, k)[1], Own(t, k)[2]}
  BY CallFacts
<1>2. TypeOK' /\ UNCHANGED <<persistent, committed>>
  BY DEF OwnStep
<1>3. \A k \in Reserved(o) : View(t)'[k] = View(t)[k]
  BY <1>1, <1>2, SameBeneath
<1>4. KeyRanges => \A k \in Reserved(o) : told'[t][k] # Unknown => View(t)'[k] = told'[t][k]
  BY <1>1, <1>3 DEF TableInv, SharedInv, TellsTruth
<1>5. \A k \in Reserved(o) : NoRow \in {Own(t, k)'[1], Own(t, k)'[2]}
  BY <1>1
<1> QED
  BY <1>4, <1>5, OwnStepKeeps

\* A call that succeeds has left what it was to leave.
LEMMA SuccessStep ==
  ASSUME TableInv, NEW o \in Op, NEW t \in Txn, req[o].txn = t, OwnStep(o, t), Acknowledge(o),
         \A k \in Reserved(o) : NoRow \in {Own(t, k)'[1], Own(t, k)'[2]},
         KeyRanges => \A k \in Reserved(o) : View(t)'[k] = Goal(o, k, was[o][k])
  PROVE  SharedInv' /\ \A p \in Op : OpInv(p)'
<1>1. TypeOK /\ Reserved(o) \subseteq Key
  BY CallFacts
<1>2. \A k \in Reserved(o) : told'[t][k] = Goal(o, k, was[o][k])
  BY <1>1, AcknowledgeTypes
<1>3. OpInv(o)'
  <2>1. pc'[o] = "idle" /\ req'[o] = NoReq
    BY <1>1, FinishTypes DEF Acknowledge
  <2> QED
    BY <2>1, EndedInv
<1>4. KeyRanges => \A k \in Reserved(o) : told'[t][k] # Unknown => View(t)'[k] = told'[t][k]
  BY <1>2
<1> QED
  BY <1>3, <1>4, OwnStepKeeps

\* A rejected or dropped call breaks no promise: it made none of what it left.
LEMMA FinishKeeps ==
  ASSUME TableInv, NEW o \in Op, NEW t \in Txn, req[o].txn = t,
         WriteReject(o) \/ Abandon(o)
  PROVE  SharedInv' /\ \A p \in Op : OpInv(p)'
<1>1. CallsOK /\ TypeOK
  BY CallFacts
<1>2. OwnStep(o, t)
  BY <1>1, FinishOwn
<1>3. Finish(o) /\ told' = told /\ pending' = pending
  BY DEF WriteReject, Abandon, tableVars
<1>4. pc'[o] = "idle" /\ req'[o] = NoReq
  BY <1>1, <1>3, FinishTypes
<1>5. \A k \in Reserved(o) : Own(t, k)' = Own(t, k)
  BY <1>3 DEF Own
<1> QED
  BY <1>2, <1>3, <1>4, <1>5, EndedInv, StillStep

\* The check of an insert establishes that its key has no row.
LEMMA InsertCheckKeeps ==
  ASSUME TableInv, NEW o \in Op, NEW t \in Txn, req[o].txn = t, InsertCheck(o)
  PROVE  SharedInv' /\ \A p \in Op : OpInv(p)'
<1>1. /\ CallsOK /\ TypeOK /\ ReqInv(o) /\ PlaceInv(o) /\ Reserved(o) \subseteq Key
      /\ \A k \in Reserved(o) : KeyInv(o, t, k)
  BY CallFacts
<1>2. OwnStep(o, t)
  BY <1>1, InsertCheckOwn
<1>3. /\ pc[o] = "check" /\ Goto(o, "lookup")
      /\ \A r \in left[o] : View(t)[r.key] = NoRow
      /\ UNCHANGED <<semVars, tableVars, left, told>>
  BY DEF InsertCheck
<1>4. pc'[o] = "lookup" /\ req' = req /\ was' = was
  BY <1>1, <1>3, GotoTypes
<1>5. \A k \in Key : Own(t, k)' = Own(t, k)
  BY <1>3 DEF Own, tableVars
<1>6. \A k \in Reserved(o) : View(t)[k] = NoRow
  <2>1. req[o].kind = "insert"
    BY <1>1, <1>3 DEF PlaceInv
  <2> QED
    BY <1>1, <1>3, <2>1, OneKey
<1>7. ASSUME NEW k \in Reserved(o) PROVE KeyInv(o, t, k)'
  <2>1. View(t)'[k] = View(t)[k] /\ Beneath(t)'[k] = Beneath(t)[k]
    BY <1>1, <1>2, <1>5, SameBeneath DEF OwnStep
  <2>2. Goal(o, k, was[o][k])' = Goal(o, k, was[o][k]) /\ Open(t)' = Open(t)
    BY <1>3, <1>4 DEF Goal, Reserved, Open, tableVars
  <2>3. KeyInv(o, t, k) /\ writes' = writes
    BY <1>1, <1>3 DEF semVars
  <2> QED
    BY <1>3, <1>4, <1>6, <2>1, <2>2, <2>3 DEF KeyInv, Early, Writing
<1>8. LeftInv(o)'
  BY <1>4 DEF LeftInv, Writing
<1> QED
  BY <1>1, <1>2, <1>3, <1>4, <1>5, <1>7, <1>8, GoesOn, StillStep

\* A row write that has its delta starts to write, or another call to look: nothing
\* that it relies on has changed.
LEMMA LookupMoves ==
  ASSUME TableInv, NEW o \in Op, NEW t \in Txn, req[o].txn = t, OwnStep(o, t),
         pc[o] \in {"lookup", "create"}, Open(t),
         NEW place \in {"create", "look", "leaveDeletes", "leaveInserts"},
         place \in {"leaveDeletes", "leaveInserts"} =>
           place = "leaveDeletes" /\ req[o].kind \in {"upsert", "insert"},
         Goto(o, place), left' = left, told' = told,
         \A k \in Key : Own(t, k)' = Own(t, k)
  PROVE  SharedInv' /\ \A p \in Op : OpInv(p)'
<1>1. /\ CallsOK /\ TypeOK /\ ReqInv(o) /\ Reserved(o) \subseteq Key
      /\ \A k \in Reserved(o) : KeyInv(o, t, k)
  BY CallFacts
<1>2. pc'[o] = place /\ req' = req /\ was' = was
  BY <1>1, GotoTypes
<1>3. place = "leaveDeletes" =>
        /\ \A k \in Reserved(o) : \E r \in left[o] : r.key = k
        /\ \A r \in left[o] : r.val = req[o].val /\ r.key \in Reserved(o)
        /\ req[o].kind \in {"upsert", "insert"}
  BY <1>1, OneKey
<1>4. ASSUME NEW k \in Reserved(o) PROVE KeyInv(o, t, k)'
  <2>1. View(t)'[k] = View(t)[k] /\ Beneath(t)'[k] = Beneath(t)[k]
    BY <1>1, SameBeneath DEF OwnStep
  <2>2. Goal(o, k, was[o][k])' = Goal(o, k, was[o][k]) /\ Open(t)' = Open(t)
    BY <1>2 DEF Goal, Reserved, Open, OwnStep
  <2>3. KeyInv(o, t, k) /\ writes' = writes
    BY <1>1 DEF semVars, OwnStep
  <2>4. place # "leaveInserts"
    OBVIOUS
  <2> QED
    BY <1>2, <1>3, <2>1, <2>2, <2>3, <2>4 DEF KeyInv, Early, Writing
<1>5. LeftInv(o)'
  <2>1. CASE place = "leaveDeletes"
    <3>1. \A r \in left[o] : Goal(o, r.key, was[o][r.key])' = req[o].val
      BY <1>2, <1>3, <2>1 DEF Goal, Reserved
    <3> QED
      BY <1>2, <1>3, <2>1, <3>1 DEF LeftInv
  <2>2. CASE place # "leaveDeletes"
    BY <1>2, <2>2 DEF LeftInv, Writing
  <2> QED
    BY <2>1, <2>2
<1> QED
  BY <1>1, <1>2, <1>4, <1>5, GoesOn, StillStep

\* The first look for the delta of the transaction.
LEMMA PendingLookupKeeps ==
  ASSUME TableInv, NEW o \in Op, NEW t \in Txn, req[o].txn = t, PendingLookup(o)
  PROVE  SharedInv' /\ \A p \in Op : OpInv(p)'
<1>1. CallsOK
  BY CallFacts
<1>2. PICK place : place = IF pending[t] = Absent THEN "create" ELSE AfterLookup(o)
  OBVIOUS
<1>3. /\ place \in {"create", "look", "leaveDeletes", "leaveInserts"}
      /\ place \in {"leaveDeletes", "leaveInserts"} =>
           place = "leaveDeletes" /\ req[o].kind \in {"upsert", "insert"}
  BY <1>2 DEF AfterLookup, FirstPlace, Puts
<1>4. /\ pc[o] = "lookup" /\ Open(t) /\ Goto(o, place)
      /\ UNCHANGED <<tableVars, left, told>>
  BY <1>2 DEF PendingLookup
<1>5. \A k \in Key : Own(t, k)' = Own(t, k)
  BY <1>4 DEF Own, tableVars
<1>6. OwnStep(o, t)
  BY <1>1, PendingLookupOwn
<1> QED
  BY <1>3, <1>4, <1>5, <1>6, LookupMoves

\* The second look: what another call of the transaction has installed and filled
\* meanwhile is kept.
LEMMA PendingInstallKeeps ==
  ASSUME TableInv, NEW o \in Op, NEW t \in Txn, req[o].txn = t, PendingInstall(o)
  PROVE  SharedInv' /\ \A p \in Op : OpInv(p)'
<1>1. CallsOK
  BY CallFacts
<1>2. PICK place : place = AfterLookup(o)
  OBVIOUS
<1>3. /\ place \in {"create", "look", "leaveDeletes", "leaveInserts"}
      /\ place \in {"leaveDeletes", "leaveInserts"} =>
           place = "leaveDeletes" /\ req[o].kind \in {"upsert", "insert"}
  BY <1>2 DEF AfterLookup, FirstPlace, Puts
<1>4. /\ pc[o] = "create" /\ Open(t) /\ Goto(o, place)
      /\ UNCHANGED <<left, told>>
  BY <1>2 DEF PendingInstall
<1>5. OwnStep(o, t) /\ \A k \in Key : Own(t, k)' = Own(t, k)
  BY <1>1, PendingInstallOwn
<1> QED
  BY <1>3, <1>4, <1>5, LookupMoves

\* A row that is deleted already is not seen; one that nobody sees leaves nothing to
\* write.
LEMMA LookDeleteKeeps ==
  ASSUME TableInv, NEW o \in Op, NEW t \in Txn, req[o].txn = t, LookDelete(o)
  PROVE  SharedInv' /\ \A p \in Op : OpInv(p)'
<1>1. /\ CallsOK /\ TypeOK /\ ReqInv(o) /\ OpenInv(o) /\ Reserved(o) \subseteq Key
      /\ \A x \in Reserved(o) : KeyInv(o, t, x)
      /\ \A x \in Key : NoRow \in {Own(t, x)[1], Own(t, x)[2]}
      /\ \A x \in Key : View(t)[x] \in Val \cup {NoRow}
  BY CallFacts
<1>2. /\ pc[o] = "look" /\ req[o].kind = "delete" /\ Open(t) /\ pending[t] # Absent
      /\ UNCHANGED <<semVars, tableVars>>
  BY <1>1 DEF LookDelete, OpenInv
<1>3. OwnStep(o, t)
  BY <1>1, LookDeleteOwn
<1>4. PICK k \in Key : Reserved(o) = {k}
  BY <1>1, <1>2, OneKey
<1>5. (CHOOSE x \in Key : x \in Reserved(o)) = k
  BY <1>4
<1>6. \A x \in Key : Own(t, x)' = Own(t, x)
  BY <1>2 DEF Own, tableVars
<1>7. View(t)'[k] = View(t)[k] /\ Beneath(t)'[k] = Beneath(t)[k]
  BY <1>1, <1>3, <1>6, SameBeneath DEF OwnStep
<1>8. req[o].val = NoRow /\ Goal(o, k, was[o][k]) = NoRow
  <2>1. req[o].val = NoRow
    BY <1>1, <1>2 DEF ReqInv
  <2> QED
    BY <1>2, <1>4, <2>1 DEF Goal
<1>9. CASE pending[t].deletes[k] # NoRow
  <2>1. Acknowledge(o)
    BY <1>5, <1>9 DEF LookDelete
  <2>2. Own(t, k)[2] # NoRow
    BY <1>2, <1>9 DEF Own
  <2>3. Own(t, k)[1] = NoRow
    BY <1>1, <2>2
  <2>4. View(t)[k] = NoRow
    BY <1>1, <2>2, <2>3, OwnRead DEF OwnIsRead
  <2> QED
    BY <1>1, <1>3, <1>4, <1>6, <1>7, <1>8, <2>1, <2>4, SuccessStep
<1>10. CASE pending[t].deletes[k] = NoRow
  <2>1. /\ left' = [left EXCEPT ![o] = {r \in RowsOf(k) : r.val = View(t)[k]}]
        /\ Goto(o, "leaveInserts")
        /\ told' = told
    BY <1>5, <1>10 DEF LookDelete
  <2>2. pc'[o] = "leaveInserts" /\ req' = req /\ was' = was
    BY <1>1, <2>1, GotoTypes
  <2>3. left'[o] = {r \in RowsOf(k) : r.val = View(t)[k]}
    BY <1>1, <2>1 DEF TypeOK
  <2>4. Goal(o, k, was[o][k])' = NoRow /\ Open(t)' = Open(t)
    BY <1>2, <1>8, <2>2 DEF Goal, Reserved, Open, tableVars
  <2>5. (\A r \in left'[o] : r.key # k) => View(t)[k] = NoRow
    <3>1. SUFFICES ASSUME View(t)[k] \in Val PROVE \E r \in left'[o] : r.key = k
      BY <1>1
    <3>2. [key |-> k, val |-> View(t)[k]] \in left'[o]
      BY <2>3, <3>1 DEF RowsOf, Row
    <3> QED
      BY <3>2
  <2>6. KeyInv(o, t, k)'
    <3>1. KeyInv(o, t, k) /\ writes' = writes /\ req[o].kind \notin Puts
      BY <1>1, <1>2, <1>4 DEF semVars, Puts
    <3>2. View(t)[k] = was[o][k]
      BY <1>2, <3>1 DEF KeyInv, Early
    <3> QED
      BY <1>2, <1>7, <2>2, <2>4, <2>5, <3>1, <3>2 DEF KeyInv, Early, Writing
  <2>7. LeftInv(o)'
    <3>1. \A r \in left'[o] : r.key = k
      BY <2>3 DEF RowsOf
    <3>2. \A r \in left'[o] : Goal(o, r.key, was[o][r.key])' = req[o].val
      BY <1>8, <2>4, <3>1
    <3>3. req[o].kind \notin Puts
      BY <1>2 DEF Puts
    <3> QED
      BY <2>2, <3>2, <3>3 DEF LeftInv
  <2>8. OpInv(o)'
    BY <1>4, <2>2, <2>6, <2>7, GoesOn
  <2> QED
    BY <1>1, <1>3, <1>6, <2>1, <2>8, StillStep
<1> QED
  BY <1>9, <1>10

\* The rows of a range are those that the transaction sees in it: each is to be
\* written, and no other.
LEMMA LookRangeKeeps ==
  ASSUME TableInv, NEW o \in Op, NEW t \in Txn, req[o].txn = t, LookRange(o)
  PROVE  SharedInv' /\ \A p \in Op : OpInv(p)'
<1>1. /\ CallsOK /\ TypeOK /\ ReqInv(o) /\ OpenInv(o) /\ Reserved(o) \subseteq Key
      /\ \A x \in Reserved(o) : KeyInv(o, t, x)
      /\ \A x \in Key : NoRow \in {Own(t, x)[1], Own(t, x)[2]}
      /\ \A x \in Key : View(t)[x] \in Val \cup {NoRow}
  BY CallFacts
<1>2. /\ pc[o] = "look" /\ req[o].kind \in {"update", "truncate"} /\ Open(t)
      /\ UNCHANGED <<semVars, tableVars>>
  BY <1>1 DEF LookRange, OpenInv
<1>3. OwnStep(o, t)
  BY <1>1, LookRangeOwn
<1>4. PICK range \in SUBSET Row : range = req[o].range /\ range \in Ranges
  BY <1>1, <1>2, TableAssumption DEF ReqInv, NoReq
<1>5. PICK rows \in SUBSET Row : rows = RangeRead(t, range)
  BY <1>1, RangeReadTypes
<1>6. Reserved(o) = Key
  BY <1>2 DEF Reserved
<1>7. \A x \in Key : Own(t, x)' = Own(t, x)
  BY <1>2 DEF Own, tableVars
<1>8. \A x \in Key : View(t)'[x] = View(t)[x] /\ Beneath(t)'[x] = Beneath(t)[x]
  BY <1>1, <1>3, <1>7, SameBeneath DEF OwnStep
<1>9. \A x \in Key : was[o][x] = View(t)[x]
  BY <1>1, <1>2, <1>6 DEF KeyInv, Early
<1>10. KeyRanges => \A r \in rows : /\ r.key \in Key /\ r \in range
                                    /\ View(t)[r.key] = r.val
  <2>1. SUFFICES ASSUME KeyRanges
                 PROVE  \A r \in rows : /\ r.key \in Key /\ r \in range
                                        /\ View(t)[r.key] = r.val
    OBVIOUS
  <2>2. KeyRange(range) /\ RowsDisjoint
    BY <1>4, <2>1 DEF KeyRanges, TableInv, SharedInv
  <2>3. rows = RowsIn(View(t), range)
    BY <1>1, <1>5, <2>2, RangeReadIsView
  <2> QED
    BY <2>3 DEF RowsIn, Row
<1>11. KeyRanges => \A x \in Key : (\A r \in rows : r.key # x) =>
                                     Goal(o, x, was[o][x]) = View(t)[x]
  <2>1. SUFFICES ASSUME KeyRanges, NEW x \in Key, \A r \in rows : r.key # x
                 PROVE  Goal(o, x, was[o][x]) = View(t)[x]
    OBVIOUS
  <2>2. KeyRange(range) /\ RowsDisjoint
    BY <1>4, <2>1 DEF KeyRanges, TableInv, SharedInv
  <2>3. rows = RowsIn(View(t), range)
    BY <1>1, <1>5, <2>2, RangeReadIsView
  <2>4. [key |-> x, val |-> View(t)[x]] \notin range
    <3>1. SUFFICES ASSUME [key |-> x, val |-> View(t)[x]] \in range PROVE FALSE
      OBVIOUS
    <3>2. [key |-> x, val |-> View(t)[x]] \in rows
      BY <2>3, <3>1 DEF RowsIn
    <3> QED
      BY <2>1, <3>2
  <2> QED
    BY <1>2, <1>4, <1>9, <2>4 DEF Goal
<1>12. CASE rows = {}
  <2>1. Acknowledge(o)
    BY <1>4, <1>5, <1>12 DEF LookRange
  <2>2. KeyRanges => \A x \in Reserved(o) : View(t)'[x] = Goal(o, x, was[o][x])
    BY <1>6, <1>8, <1>11, <1>12
  <2> QED
    BY <1>1, <1>3, <1>6, <1>7, <2>1, <2>2, SuccessStep
<1>13. CASE rows # {}
  <2>1. /\ left' = [left EXCEPT ![o] = IF req[o].kind = "truncate" THEN rows
                                       ELSE {[r EXCEPT !.val = req[o].val] : r \in rows}]
        /\ Goto(o, FirstPlace(o))
        /\ told' = told
    BY <1>4, <1>5, <1>13 DEF LookRange
  <2>2. PICK place \in {"leaveDeletes", "leaveInserts"} :
          place = FirstPlace(o) /\ (place = "leaveInserts" => req[o].kind \notin Puts)
    BY DEF FirstPlace
  <2>3. pc'[o] = place /\ req' = req /\ was' = was
    BY <1>1, <2>1, <2>2, GotoTypes
  <2>4. left'[o] = IF req[o].kind = "truncate" THEN rows
                   ELSE {[r EXCEPT !.val = req[o].val] : r \in rows}
    BY <1>1, <2>1 DEF TypeOK
  <2>5. /\ \A s \in left'[o] : \E r \in rows : s.key = r.key
        /\ \A r \in rows : \E s \in left'[o] : s.key = r.key
        /\ req[o].kind = "update" => \A s \in left'[o] : s.val = req[o].val
    <3>1. CASE req[o].kind = "truncate"
      BY <2>4, <3>1
    <3>2. CASE req[o].kind = "update"
      <4>1. \A r \in rows : /\ [r EXCEPT !.val = req[o].val].key = r.key
                            /\ [r EXCEPT !.val = req[o].val].val = req[o].val
        BY DEF Row
      <4>2. left'[o] = {[r EXCEPT !.val = req[o].val] : r \in rows}
        BY <2>4, <3>2
      <4>3. \A s \in left'[o] : \E r \in rows : s = [r EXCEPT !.val = req[o].val]
        BY <4>2
      <4>4. \A r \in rows : [r EXCEPT !.val = req[o].val] \in left'[o]
        BY <4>2
      <4>5. \A s \in left'[o] : (\E r \in rows : s.key = r.key) /\ s.val = req[o].val
        <5> TAKE s \in left'[o]
        <5>1. PICK r \in rows : s = [r EXCEPT !.val = req[o].val]
          BY <4>3
        <5>2. s.key = r.key /\ s.val = req[o].val
          BY <4>1, <5>1
        <5> QED
          BY <5>2
      <4>6. \A r \in rows : \E s \in left'[o] : s.key = r.key
        BY <4>1, <4>4
      <4> QED
        BY <4>5, <4>6
    <3> QED
      BY <1>2, <3>1, <3>2
  <2>6. \A x \in Key : Goal(o, x, was[o][x])' = Goal(o, x, was[o][x])
    BY <2>3 DEF Goal, Reserved
  <2>7. ASSUME NEW x \in Reserved(o) PROVE KeyInv(o, t, x)'
    <3>1. KeyInv(o, t, x) /\ writes' = writes /\ Open(t)' = Open(t)
      BY <1>1, <1>2 DEF semVars, Open, tableVars
    <3>2. KeyRanges /\ (\A s \in left'[o] : s.key # x) =>
            View(t)[x] = Goal(o, x, was[o][x])
      BY <1>6, <1>11, <2>5
    <3>3. req[o].kind # "insert"
      BY <1>2
    <3> QED
      BY <1>2, <1>6, <1>8, <2>2, <2>3, <2>6, <3>1, <3>2, <3>3 DEF KeyInv, Early, Writing
  <2>8. LeftInv(o)'
    <3>1. KeyRanges => \A r \in rows : Goal(o, r.key, was[o][r.key]) = req[o].val
      <4>1. \A r \in rows : r = [key |-> r.key, val |-> r.val]
        BY DEF Row
      <4> QED
        BY <1>4, <1>9, <1>10, <4>1 DEF Goal
    <3>2. KeyRanges => \A s \in left'[o] : Goal(o, s.key, was[o][s.key])' = req[o].val
      <4>1. KeyRanges => \A r \in rows : Goal(o, r.key, was[o][r.key])' = req[o].val
        BY <1>10, <2>6, <3>1
      <4> QED
        BY <2>5, <4>1
    <3>3. req[o].kind \in Puts => \A s \in left'[o] : s.val = req[o].val
      BY <1>2, <2>5 DEF Puts
    <3> QED
      BY <2>3, <3>2, <3>3 DEF LeftInv
  <2>9. OpInv(o)'
    BY <2>3, <2>7, <2>8, GoesOn
  <2> QED
    BY <1>1, <1>3, <1>6, <1>7, <2>1, <2>9, StillStep
<1> QED
  BY <1>12, <1>13

\* What a transaction reads after a step, from its own delta and from beneath it.
LEMMA ReadAfter ==
  ASSUME TypeOK, TypeOK', UNCHANGED <<persistent, committed>>, NEW t \in Txn, NEW k \in Key
  PROVE  /\ View(t)[k] = IF Own(t, k)[1] # NoRow THEN Own(t, k)[1]
                         ELSE IF Own(t, k)[2] # NoRow THEN NoRow ELSE Beneath(t)[k]
         /\ View(t)'[k] = IF Own(t, k)'[1] # NoRow THEN Own(t, k)'[1]
                          ELSE IF Own(t, k)'[2] # NoRow THEN NoRow ELSE Beneath(t)[k]
         /\ Beneath(t)'[k] = Beneath(t)[k]
<1>1. OwnIsRead /\ OwnIsRead'
  <2>1. TypeOK' => OwnIsRead'
    BY OwnRead, PTL
  <2> QED
    BY <2>1, OwnRead
<1>2. Beneath(t)'[k] = Beneath(t)[k]
  BY SameBeneath
<1>3. View(t)'[k] = IF Own(t, k)'[1] # NoRow THEN Own(t, k)'[1]
                    ELSE IF Own(t, k)'[2] # NoRow THEN NoRow ELSE Beneath(t)'[k]
  BY <1>1 DEF OwnIsRead
<1> QED
  BY <1>1, <1>2, <1>3 DEF OwnIsRead

\* The key that a call works on is that of a row that is left, if one is.
LEMMA CurrentIsLeft ==
  ASSUME NEW o \in Op, left[o] # {}
  PROVE  \E r \in left[o] : r.key = Current(o)
BY DEF Current

\* The first half of a put: the key shows what it did, or what lies beneath.
LEMMA LeaveDeletesKeeps ==
  ASSUME TableInv, NEW o \in Op, NEW t \in Txn, req[o].txn = t, LeaveDeletesStep(o)
  PROVE  SharedInv' /\ \A p \in Op : OpInv(p)'
<1>1. /\ CallsOK /\ TypeOK /\ PlaceInv(o) /\ LeftInv(o) /\ Reserved(o) \subseteq Key
      /\ \A x \in Reserved(o) : KeyInv(o, t, x)
      /\ \A x \in Key : NoRow \in {Own(t, x)[1], Own(t, x)[2]}
  BY CallFacts
<1>2. /\ pc[o] = "leaveDeletes" /\ told' = Forgotten(o) /\ Goto(o, "leaveInserts")
      /\ UNCHANGED <<semVars, persistent, committed, finalized, left>>
  BY DEF LeaveDeletesStep
<1>3. PICK c \in Key : c = Current(o)
  BY <1>1, <1>2, WritingFacts DEF Writing
<1>4. /\ c \in Reserved(o)
      /\ Own(t, c)' = <<Own(t, c)[1], NoRow>>
      /\ \A u \in Txn, x \in Key : u # t \/ x # c => Own(u, x)' = Own(u, x)
  BY <1>1, <1>3, LeaveDeletesEffect
<1>5. OwnStep(o, t)
  BY <1>1, LeaveDeletesOwn
<1>6. pc'[o] = "leaveInserts" /\ req' = req /\ was' = was
  BY <1>1, <1>2, GotoTypes
<1>7. \A x \in Reserved(o) : told'[t][x] = Unknown
  BY <1>1, <1>2, ForgottenTypes
<1>8. \E r \in left[o] : r.key = c
  BY <1>1, <1>2, <1>3, CurrentIsLeft DEF PlaceInv, Puts, Writing
<1>9. TypeOK'
  BY <1>5 DEF OwnStep
<1>10. ASSUME NEW x \in Reserved(o) PROVE KeyInv(o, t, x)'
  <2>1. Goal(o, x, was[o][x])' = Goal(o, x, was[o][x]) /\ Open(t)' = Open(t)
        /\ Current(o)' = Current(o)
    BY <1>2, <1>6 DEF Goal, Reserved, Open, Current
  <2>2. KeyInv(o, t, x) /\ writes' = writes
    BY <1>1, <1>2 DEF semVars
  <2>3. Beneath(t)'[x] = Beneath(t)[x] /\ View(t)'[x] \in {View(t)[x], Beneath(t)[x]}
        /\ (x # c => View(t)'[x] = View(t)[x])
    <3>1. /\ View(t)[x] = IF Own(t, x)[1] # NoRow THEN Own(t, x)[1]
                          ELSE IF Own(t, x)[2] # NoRow THEN NoRow ELSE Beneath(t)[x]
          /\ View(t)'[x] = IF Own(t, x)'[1] # NoRow THEN Own(t, x)'[1]
                           ELSE IF Own(t, x)'[2] # NoRow THEN NoRow ELSE Beneath(t)[x]
          /\ Beneath(t)'[x] = Beneath(t)[x]
      BY <1>1, <1>2, <1>9, ReadAfter
    <3> QED
      BY <1>1, <1>4, <3>1
  <2>4. x = c => Own(t, x)'[2] = NoRow
    BY <1>4
  <2> QED
    BY <1>2, <1>3, <1>6, <1>7, <1>8, <2>1, <2>2, <2>3, <2>4 DEF KeyInv, Early, Writing
<1>11. LeftInv(o)'
  <2>1. \A r \in left[o] : Goal(o, r.key, was[o][r.key])' = Goal(o, r.key, was[o][r.key])
    BY <1>6 DEF Goal, Reserved
  <2> QED
    BY <1>1, <1>2, <1>6, <2>1 DEF LeftInv, Writing
<1>12. OpInv(o)'
  BY <1>6, <1>10, <1>11, GoesOn
<1>13. \A x \in Reserved(o) : NoRow \in {Own(t, x)'[1], Own(t, x)'[2]}
  BY <1>1, <1>4
<1> QED
  BY <1>5, <1>7, <1>12, <1>13, OwnStepKeeps

\* The first half of a delete, the second of three steps of a put: the key shows
\* nothing of the delta, unless a deleted row that hides what lies beneath.
LEMMA LeaveInsertsKeeps ==
  ASSUME TableInv, NEW o \in Op, NEW t \in Txn, req[o].txn = t, LeaveInsertsStep(o)
  PROVE  SharedInv' /\ \A p \in Op : OpInv(p)'
<1>1. /\ CallsOK /\ TypeOK /\ ReqInv(o) /\ PlaceInv(o) /\ LeftInv(o) /\ Reserved(o) \subseteq Key
      /\ \A x \in Reserved(o) : KeyInv(o, t, x)
      /\ \A x \in Key : NoRow \in {Own(t, x)[1], Own(t, x)[2]}
  BY CallFacts
<1>2. /\ pc[o] = "leaveInserts"
      /\ UNCHANGED <<semVars, persistent, committed, finalized>>
  BY DEF LeaveInsertsStep
<1>3. PICK c \in Key : c = Current(o)
  BY <1>1, <1>2, WritingFacts DEF Writing
<1>4. /\ c \in Reserved(o) /\ Open(t)
      /\ Own(t, c)' = <<NoRow, Own(t, c)[2]>>
      /\ \A u \in Txn, x \in Key : u # t \/ x # c => Own(u, x)' = Own(u, x)
  BY <1>1, <1>3, LeaveInsertsEffect
<1>5. OwnStep(o, t)
  BY <1>1, LeaveInsertsOwn
<1>6. TypeOK'
  BY <1>5 DEF OwnStep
<1>7. \A x \in Reserved(o) : NoRow \in {Own(t, x)'[1], Own(t, x)'[2]}
  BY <1>1, <1>4
<1>8. \A x \in Key :
        /\ View(t)[x] = IF Own(t, x)[1] # NoRow THEN Own(t, x)[1]
                        ELSE IF Own(t, x)[2] # NoRow THEN NoRow ELSE Beneath(t)[x]
        /\ View(t)'[x] = IF Own(t, x)'[1] # NoRow THEN Own(t, x)'[1]
                         ELSE IF Own(t, x)'[2] # NoRow THEN NoRow ELSE Beneath(t)[x]
        /\ Beneath(t)'[x] = Beneath(t)[x]
  BY <1>1, <1>2, <1>6, ReadAfter
<1>9. CASE left[o] = {}
  <2>1. Acknowledge(o)
    BY <1>9 DEF LeaveInsertsStep
  <2>2. req[o].kind = "delete" /\ req[o].val = NoRow
    BY <1>1, <1>2, <1>9 DEF PlaceInv, Writing, ReqInv
  <2>3. Reserved(o) = {c}
    BY <1>1, <1>4, <2>2, OneKey
  <2>4. Goal(o, c, was[o][c]) = NoRow
    BY <1>4, <2>2 DEF Goal
  <2>5. KeyRanges => View(t)[c] = NoRow
    BY <1>1, <1>2, <1>4, <1>9, <2>4 DEF KeyInv, Writing
  <2>6. KeyRanges => View(t)'[c] = NoRow
    BY <1>1, <1>4, <1>8, <2>5
  <2>7. KeyRanges => \A x \in Reserved(o) : View(t)'[x] = Goal(o, x, was[o][x])
    BY <2>3, <2>4, <2>6
  <2> QED
    BY <1>5, <1>7, <2>1, <2>7, SuccessStep
<1>10. CASE left[o] # {}
  <2>1. told' = Forgotten(o) /\ Goto(o, "join") /\ left' = left
    BY <1>10 DEF LeaveInsertsStep
  <2>2. pc'[o] = "join" /\ req' = req /\ was' = was
    BY <1>1, <2>1, GotoTypes
  <2>3. \A x \in Reserved(o) : told'[t][x] = Unknown
    BY <1>1, <2>1, ForgottenTypes
  <2>4. PICK r \in left[o] : r.key = c
    BY <1>3, <1>10, CurrentIsLeft
  <2>5. req[o].kind \notin Puts => req[o].val = NoRow
    BY <1>1, <1>2 DEF ReqInv, Puts
  <2>6. KeyRanges => Goal(o, c, was[o][c]) = req[o].val
    BY <1>1, <1>2, <2>4 DEF LeftInv, Writing
  <2>7. req[o].kind \in Puts => Own(t, c)[2] = NoRow
    BY <1>1, <1>2, <1>3, <1>4 DEF KeyInv
  <2>8. ASSUME NEW x \in Reserved(o) PROVE KeyInv(o, t, x)'
    <3>1. Goal(o, x, was[o][x])' = Goal(o, x, was[o][x]) /\ Open(t)' = Open(t)
          /\ Current(o)' = Current(o)
      BY <1>2, <2>1, <2>2 DEF Goal, Reserved, Open, Current
    <3>2. KeyInv(o, t, x) /\ writes' = writes
      BY <1>1, <1>2 DEF semVars
    <3>3. CASE x # c
      <4>1. View(t)'[x] = View(t)[x] /\ Beneath(t)'[x] = Beneath(t)[x]
        BY <1>1, <1>4, <1>8, <3>3
      <4> QED
        BY <1>2, <1>3, <2>1, <2>2, <2>3, <3>1, <3>2, <3>3, <4>1 DEF KeyInv, Early, Writing
    <3>4. CASE x = c
      <4>1. View(t)'[c] \in {NoRow, Beneath(t)[c]} /\ Beneath(t)'[c] = Beneath(t)[c]
            /\ (req[o].kind \in Puts => View(t)'[c] = Beneath(t)[c])
        BY <1>4, <1>8, <2>7
      <4>2. Own(t, c)'[1] = NoRow /\ (req[o].kind \in Puts => Own(t, c)'[2] = NoRow)
        BY <1>4, <2>7
      <4>3. KeyRanges => View(t)'[c] \in {Goal(o, c, was[o][c]), Beneath(t)[c]}
        BY <2>5, <2>6, <4>1
      <4> QED
        BY <1>2, <2>1, <2>2, <2>3, <2>4, <3>1, <3>2, <3>4, <4>1, <4>2, <4>3
           DEF KeyInv, Early, Writing
    <3> QED
      BY <3>3, <3>4
  <2>9. LeftInv(o)'
    <3>1. \A s \in left[o] : Goal(o, s.key, was[o][s.key])' = Goal(o, s.key, was[o][s.key])
      BY <2>2 DEF Goal, Reserved
    <3> QED
      BY <1>1, <1>2, <2>1, <2>2, <3>1 DEF LeftInv, Writing
  <2>10. OpInv(o)'
    BY <2>2, <2>8, <2>9, GoesOn
  <2> QED
    BY <1>5, <1>7, <2>3, <2>10, OwnStepKeeps
<1> QED
  BY <1>9, <1>10

\* The last step of a row makes its key what it was to be.
LEMMA JoinKeeps ==
  ASSUME TableInv, NEW o \in Op, NEW t \in Txn, req[o].txn = t, JoinStep(o)
  PROVE  SharedInv' /\ \A p \in Op : OpInv(p)'
<1>1. /\ CallsOK /\ TypeOK /\ ReqInv(o) /\ PlaceInv(o) /\ LeftInv(o) /\ Reserved(o) \subseteq Key
      /\ \A x \in Reserved(o) : KeyInv(o, t, x)
      /\ \A x \in Key : NoRow \in {Own(t, x)[1], Own(t, x)[2]}
  BY CallFacts
<1>2. pc[o] = "join" /\ UNCHANGED <<semVars, persistent, committed, finalized>>
  BY DEF JoinStep
<1>3. PICK c \in Key : c = Current(o)
  BY <1>1, <1>2, WritingFacts DEF Writing
<1>4. PICK r \in left[o] : /\ r = CHOOSE s \in left[o] : s.key = Current(o)
                           /\ r.key = Current(o) /\ r \in Row
  BY <1>1, <1>2, JoinRow
<1>5. /\ c \in Reserved(o) /\ Open(t)
      /\ Own(t, c)' = IF req[o].kind \in Puts THEN <<r.val, Own(t, c)[2]>>
                                              ELSE <<Own(t, c)[1], r.val>>
      /\ \A u \in Txn, x \in Key : u # t \/ x # c => Own(u, x)' = Own(u, x)
  BY <1>1, <1>3, <1>4, JoinEffect
<1>6. OwnStep(o, t)
  BY <1>1, JoinOwn
<1>7. TypeOK'
  BY <1>6 DEF OwnStep
<1>8. Own(t, c)[1] = NoRow /\ (req[o].kind \in Puts => Own(t, c)[2] = NoRow)
  BY <1>1, <1>2, <1>3, <1>5 DEF KeyInv
<1>9. \A x \in Reserved(o) : NoRow \in {Own(t, x)'[1], Own(t, x)'[2]}
  BY <1>1, <1>5, <1>8
<1>10. \A x \in Key :
        /\ View(t)[x] = IF Own(t, x)[1] # NoRow THEN Own(t, x)[1]
                        ELSE IF Own(t, x)[2] # NoRow THEN NoRow ELSE Beneath(t)[x]
        /\ View(t)'[x] = IF Own(t, x)'[1] # NoRow THEN Own(t, x)'[1]
                         ELSE IF Own(t, x)'[2] # NoRow THEN NoRow ELSE Beneath(t)[x]
        /\ Beneath(t)'[x] = Beneath(t)[x]
  BY <1>1, <1>2, <1>7, ReadAfter
<1>11. View(t)'[c] = req[o].val
  <2>1. r.val # NoRow
    BY <1>4, NoRowAssumption DEF Row
  <2>2. CASE req[o].kind \in Puts
    <3>1. r.val = req[o].val
      BY <1>1, <1>2, <2>2 DEF LeftInv, Writing
    <3> QED
      BY <1>5, <1>10, <2>1, <2>2, <3>1
  <2>3. CASE req[o].kind \notin Puts
    <3>1. req[o].val = NoRow
      BY <1>1, <1>2, <2>3 DEF ReqInv, Puts
    <3>2. Own(t, c)'[1] = NoRow /\ Own(t, c)'[2] = r.val
      BY <1>5, <1>8, <2>3
    <3> QED
      BY <1>10, <2>1, <3>1, <3>2
  <2> QED
    BY <2>2, <2>3
<1>12. KeyRanges => View(t)'[c] = Goal(o, c, was[o][c])
  BY <1>1, <1>2, <1>3, <1>4, <1>11 DEF LeftInv, Writing
<1>13. \A x \in Reserved(o) : x # c => View(t)'[x] = View(t)[x]
  BY <1>1, <1>5, <1>10
<1>14. CASE left[o] = {r}
  <2>1. Acknowledge(o)
    BY <1>4, <1>14 DEF JoinStep
  <2>2. ASSUME KeyRanges, NEW x \in Reserved(o) PROVE View(t)'[x] = Goal(o, x, was[o][x])
    <3>1. CASE x # c
      <4>1. \A s \in left[o] : s.key # x
        BY <1>3, <1>4, <1>14, <3>1
      <4> QED
        BY <1>1, <1>2, <1>13, <2>2, <3>1, <4>1 DEF KeyInv, Writing
    <3> QED
      BY <1>12, <2>2, <3>1
  <2> QED
    BY <1>6, <1>9, <2>1, <2>2, SuccessStep
<1>15. CASE left[o] # {r}
  <2>1. /\ left' = [left EXCEPT ![o] = left[o] \ {r}] /\ Goto(o, FirstPlace(o))
        /\ told' = told
    BY <1>4, <1>15 DEF JoinStep
  <2>2. PICK place \in {"leaveDeletes", "leaveInserts"} :
          place = FirstPlace(o) /\ (place = "leaveInserts" => req[o].kind \notin Puts)
    BY DEF FirstPlace
  <2>3. pc'[o] = place /\ req' = req /\ was' = was
    BY <1>1, <2>1, <2>2, GotoTypes
  <2>4. left'[o] = left[o] \ {r}
    BY <1>1, <2>1 DEF TypeOK
  <2>5. req[o].kind # "insert"
    BY <1>1, <1>2, <1>4, <1>15 DEF ReqInv
  <2>6. \A x \in Reserved(o) : told'[t][x] = Unknown
    BY <1>1, <1>2, <2>1 DEF KeyInv
  <2>7. ASSUME NEW x \in Reserved(o) PROVE KeyInv(o, t, x)'
    <3>1. Goal(o, x, was[o][x])' = Goal(o, x, was[o][x]) /\ Open(t)' = Open(t)
      BY <1>2, <2>3 DEF Goal, Reserved, Open
    <3>2. KeyInv(o, t, x) /\ writes' = writes
      BY <1>1, <1>2 DEF semVars
    <3>3. Beneath(t)'[x] = Beneath(t)[x]
      BY <1>1, <1>10
    <3>4. x # c => ((\A s \in left'[o] : s.key # x) => \A s \in left[o] : s.key # x)
      BY <1>3, <1>4, <2>4
    <3>5. CASE x # c
      BY <1>2, <1>13, <2>2, <2>3, <2>5, <2>6, <3>1, <3>2, <3>3, <3>4, <3>5
         DEF KeyInv, Early, Writing
    <3>6. CASE x = c
      BY <1>2, <1>12, <2>2, <2>3, <2>5, <2>6, <3>1, <3>2, <3>3, <3>6
         DEF KeyInv, Early, Writing
    <3> QED
      BY <3>5, <3>6
  <2>8. LeftInv(o)'
    <3>1. \A s \in left[o] : Goal(o, s.key, was[o][s.key])' = Goal(o, s.key, was[o][s.key])
      BY <2>3 DEF Goal, Reserved
    <3> QED
      BY <1>1, <1>2, <2>3, <2>4, <3>1 DEF LeftInv, Writing
  <2>9. OpInv(o)'
    BY <2>3, <2>7, <2>8, GoesOn
  <2> QED
    BY <1>6, <1>9, <2>6, <2>9, OwnStepKeeps
<1> QED
  BY <1>14, <1>15

-----------------------------------------------------------------------------
(* A call that starts, the reads and the lifecycle keep the invariant.     *)

\* A new permit covers no key of another, nor a key that another transaction relies
\* on or has written.
LEMMA StartKeeps ==
  ASSUME TableInv, NEW o \in Op, NEW t \in Txn, NEW keys \in SUBSET Key, StartStep(o, t, keys)
  PROVE  SharedInv' /\ \A p \in Op : OpInv(p)'
<1>1. /\ TypeOK /\ TypeOK' /\ SharedInv /\ \A p \in Op : OpInv(p)
      /\ Txn \subseteq Nat
  BY TxnAssumption DEF TableInv, CallsOK, StartStep
<1>2. /\ pc[o] = "idle" /\ pc'[o] \in {"check", "lookup"}
      /\ pc'[o] = "lookup" => req'[o].kind # "insert"
      /\ CanWrite(t, keys, HeldFor(t)) /\ ReserveWrite(t, keys)
      /\ req'[o].txn = t /\ Reserved(o)' = keys
      /\ was'[o] = View(t)
      /\ UNCHANGED <<persistent, committed, pending, finalized, told>>
      /\ \A p \in Op \ {o} : /\ pc'[p] = pc[p] /\ req'[p] = req[p]
                             /\ left'[p] = left[p] /\ was'[p] = was[p]
  BY DEF StartStep, tableVars
<1>3. /\ reads' = reads
      /\ writes'[t] = writes[t] \cup keys
      /\ \A u \in Txn : u # t => writes'[u] = writes[u]
  BY <1>1, <1>2 DEF ReserveWrite, TypeOK, SemTypeOK
<1>4. \A u \in Txn, k \in Key : Own(u, k)' = Own(u, k)
  BY <1>2 DEF Own
<1>5. \A u \in Txn, k \in Key :
        View(u)'[k] = View(u)[k] /\ Beneath(u)'[k] = Beneath(u)[k]
  BY <1>1, <1>2, <1>4, SameBeneath
<1>6. \A u \in Txn : Open(u)' = Open(u)
  BY <1>2 DEF Open
<1>7. RowsDisjoint'
  BY <1>1, <1>2 DEF SharedInv, RowsDisjoint, HasDelta
<1>8. SemOrder'
  <2>1. \A u \in Txn : u < t => writes[u] \cap keys = {}
    BY <1>2 DEF CanWrite, EarlierWrite
  <2>2. \A u \in Txn : t < u => keys \cap (reads[u] \cup writes[u]) = {}
    BY <1>1, <1>2 DEF CanWrite, LaterUse
  <2>3. ASSUME NEW u \in Txn, NEW v \in Txn, u < v
        PROVE  writes'[u] \cap (reads'[v] \cup writes'[v]) = {}
    <3>1. u # v /\ writes[u] \cap (reads[v] \cup writes[v]) = {}
      BY <1>1, <2>3 DEF SharedInv, SemOrder
    <3> QED
      BY <1>3, <2>1, <2>2, <2>3, <3>1
  <2> QED
    BY <2>3 DEF SemOrder
<1>9. DeltaReserved'
  BY <1>1, <1>3, <1>4 DEF SharedInv, DeltaReserved
<1>10. ToldReserved'
  BY <1>1, <1>2, <1>3 DEF SharedInv, ToldReserved
<1>11. Permits'
  <2>1. \A p \in Op \ {o} : Reserved(p)' = Reserved(p)
    BY <1>2 DEF Reserved
  <2>2. \A p \in Op : req[p].txn = t => Reserved(p) \cap keys = {}
    BY <1>2 DEF CanWrite, HeldFor
  <2> QED
    BY <1>1, <1>2, <2>1, <2>2 DEF SharedInv, Permits
<1>12. KeyRanges => TellsTruth'
  BY <1>1, <1>2, <1>5 DEF SharedInv, TellsTruth
<1>13. ASSUME NEW p \in Op \ {o} PROVE OpInv(p)'
  <2>1. LeftInv(p)'
    BY <1>1, <1>2, LeftStays DEF OpInv
  <2>2. ASSUME NEW u \in Txn, req'[p].txn = u, NEW k \in Key, k \in Reserved(p)'
        PROVE  KeyInv(p, u, k)'
    <3>1. req[p].txn = u /\ k \in Reserved(p)
      BY <1>2, <2>2 DEF Reserved
    <3>2. KeyInv(p, u, k)
      BY <1>1, <3>1 DEF OpInv
    <3>3. k \in writes'[u]
      BY <1>3, <3>2 DEF KeyInv
    <3>4. told[u][k] = Unknown => told'[u][k] = Unknown
      BY <1>2
    <3> QED
      BY <1>2, <1>4, <1>5, <1>6, <3>2, <3>3, <3>4, KeyStays
  <2>3. Reserved(p)' \subseteq Key
    BY <1>1, <1>2, ReservedKeys DEF Reserved
  <2> QED
    BY <2>1, <2>2, <2>3 DEF OpInv
<1>14. OpInv(o)'
  <2>1. LeftInv(o)'
    BY <1>2 DEF LeftInv, Writing
  <2>2. ASSUME NEW k \in keys PROVE KeyInv(o, t, k)'
    BY <1>2, <1>3, <1>5, <2>2 DEF KeyInv, Early, Writing
  <2> QED
    BY <1>2, <2>1, <2>2 DEF OpInv
<1> QED
  BY <1>7, <1>8, <1>9, <1>10, <1>11, <1>12, <1>13, <1>14 DEF SharedInv

\* A read tells a transaction what it sees, of keys that no write in flight covers.
ReadStep(t, keys) ==
  /\ UNCHANGED <<tableVars, pc, req, left, was>>
  /\ CanRead(t, keys, HeldFor(t)) /\ ReserveRead(t, keys)
  /\ \A u \in Txn, k \in Key : u # t \/ k \notin keys => told'[u][k] = told[u][k]
  /\ \A k \in Key : told'[t][k] \in {told[t][k], View(t)[k]}

\* read_row and a read of the whole table are such steps.
LEMMA ReadIsStep ==
  ASSUME TableInv, NEW t \in Txn, (\E k \in Key : ReadRow(t, k)) \/ ReadAll(t)
  PROVE  \E keys \in SUBSET Key : ReadStep(t, keys)
<1>1. TypeOK /\ RowsDisjoint
  BY DEF TableInv, CallsOK, SharedInv
<1>2. CASE \E k \in Key : ReadRow(t, k)
  <2>1. PICK k \in Key : ReadRow(t, k)
    BY <1>2
  <2>2. \A u \in Txn, x \in Key :
          told'[u][x] = IF u = t /\ x = k /\ Open(t) THEN View(t)[k] ELSE told[u][x]
    BY <1>1, <2>1 DEF ReadRow, TypeOK
  <2>3. ReadStep(t, {k})
    BY <2>1, <2>2 DEF ReadRow, ReadStep
  <2> QED
    BY <2>3
<1>3. CASE ReadAll(t)
  <2> DEFINE rows == RangeRead(t, Row)
             new == [k \in Key |-> IF rows \cap RowsOf(k) = {} THEN NoRow
                                   ELSE (CHOOSE r \in rows : r.key = k).val]
  <2>1. rows = RowsIn(View(t), Row) /\ View(t) \in Native
    <3>1. KeyRange(Row)
      BY DEF KeyRange, Row
    <3>2. PICK range \in SUBSET Row : range = Row
      OBVIOUS
    <3> QED
      BY <1>1, <3>1, <3>2, RangeReadIsView, ViewTypes
  <2>2. told' = IF Open(t) THEN [told EXCEPT ![t] = new] ELSE told
    BY <1>3 DEF ReadAll
  <2>3. ASSUME NEW k \in Key PROVE new[k] = View(t)[k]
    <3>1. new[k] = IF rows \cap RowsOf(k) = {} THEN NoRow
                   ELSE (CHOOSE r \in rows : r.key = k).val
      OBVIOUS
    <3>2. View(t)[k] \in Val \cup {NoRow}
      BY <2>1 DEF Native
    <3> HIDE DEF rows, new
    <3>3. \A r \in rows : r.key = k => r.val = View(t)[k]
      BY <2>1 DEF RowsIn
    <3>4. CASE rows \cap RowsOf(k) = {}
      <4>1. SUFFICES ASSUME View(t)[k] \in Val PROVE FALSE
        BY <3>1, <3>2, <3>4
      <4>2. [key |-> k, val |-> View(t)[k]] \in rows \cap RowsOf(k)
        BY <2>1, <4>1 DEF RowsIn, RowsOf, Row
      <4> QED
        BY <3>4, <4>2
    <3>5. CASE rows \cap RowsOf(k) # {}
      <4>1. PICK r \in rows : r.key = k
        BY <3>5 DEF RowsOf
      <4>2. PICK s : s = CHOOSE x \in rows : x.key = k
        OBVIOUS
      <4>3. s \in rows /\ s.key = k
        BY <4>1, <4>2
      <4> QED
        BY <3>1, <3>3, <3>5, <4>2, <4>3
    <3> QED
      BY <3>4, <3>5
  <2> HIDE DEF new
  <2>4. \A u \in Txn, k \in Key :
          told'[u][k] = IF u = t /\ Open(t) THEN View(t)[k] ELSE told[u][k]
    BY <1>1, <2>2, <2>3 DEF TypeOK
  <2>5. ReadStep(t, Key)
    BY <1>3, <2>4 DEF ReadAll, ReadStep
  <2> QED
    BY <2>5
<1> QED
  BY <1>2, <1>3

\* What a read is told is what its transaction sees, and no write in flight can
\* change it.
LEMMA ReadKeeps ==
  ASSUME TableInv, TypeOK', NEW t \in Txn, NEW keys \in SUBSET Key, ReadStep(t, keys)
  PROVE  SharedInv' /\ \A p \in Op : OpInv(p)'
<1>1. /\ TypeOK /\ SharedInv /\ \A p \in Op : OpInv(p)
      /\ Txn \subseteq Nat
  BY TxnAssumption DEF TableInv, CallsOK
<1>2. /\ UNCHANGED <<persistent, committed, pending, finalized, pc, req, left, was>>
      /\ CanRead(t, keys, HeldFor(t)) /\ ReserveRead(t, keys)
      /\ \A u \in Txn, k \in Key : u # t \/ k \notin keys => told'[u][k] = told[u][k]
      /\ \A k \in Key : told'[t][k] \in {told[t][k], View(t)[k]}
  BY DEF ReadStep, tableVars
<1>3. /\ writes' = writes
      /\ reads'[t] = reads[t] \cup keys
      /\ \A u \in Txn : u # t => reads'[u] = reads[u]
  BY <1>1, <1>2 DEF ReserveRead, TypeOK, SemTypeOK
<1>4. \A u \in Txn, k \in Key : Own(u, k)' = Own(u, k)
  BY <1>2 DEF Own
<1>5. \A u \in Txn, k \in Key :
        View(u)'[k] = View(u)[k] /\ Beneath(u)'[k] = Beneath(u)[k]
  BY <1>1, <1>2, <1>4, SameBeneath
<1>6. \A u \in Txn : Open(u)' = Open(u)
  BY <1>2 DEF Open
<1>7. RowsDisjoint'
  BY <1>1, <1>2 DEF SharedInv, RowsDisjoint, HasDelta
<1>8. SemOrder'
  <2>1. \A u \in Txn : u < t => writes[u] \cap keys = {}
    BY <1>2 DEF CanRead, EarlierWrite
  <2> SUFFICES ASSUME NEW u \in Txn, NEW w \in Txn, u < w
               PROVE  writes'[u] \cap (reads'[w] \cup writes'[w]) = {}
    BY DEF SemOrder
  <2>2. writes[u] \cap (reads[w] \cup writes[w]) = {}
    BY <1>1 DEF SharedInv, SemOrder
  <2>3. reads'[w] \subseteq reads[w] \cup (IF w = t THEN keys ELSE {})
    BY <1>3
  <2> QED
    BY <1>3, <2>1, <2>2, <2>3
<1>9. DeltaReserved'
  BY <1>1, <1>3, <1>4 DEF SharedInv, DeltaReserved
<1>10. ToldReserved'
  BY <1>1, <1>2, <1>3 DEF SharedInv, ToldReserved
<1>11. Permits'
  BY <1>1, <1>2 DEF SharedInv, Permits, Reserved
<1>12. KeyRanges => TellsTruth'
  BY <1>1, <1>2, <1>5 DEF SharedInv, TellsTruth
<1>13. ASSUME NEW p \in Op PROVE OpInv(p)'
  <2>1. LeftInv(p)'
    BY <1>1, <1>2, LeftStays DEF OpInv
  <2>2. ASSUME NEW u \in Txn, req'[p].txn = u, NEW k \in Key, k \in Reserved(p)'
        PROVE  KeyInv(p, u, k)'
    <3>1. req[p].txn = u /\ k \in Reserved(p)
      BY <1>2, <2>2 DEF Reserved
    <3>2. KeyInv(p, u, k)
      BY <1>1, <3>1 DEF OpInv
    <3>3. k \in writes'[u]
      BY <1>3, <3>2 DEF KeyInv
    <3>4. u # t \/ k \notin keys
      BY <1>2, <3>1 DEF CanRead, HeldFor
    <3>5. told[u][k] = Unknown => told'[u][k] = Unknown
      BY <1>2, <3>4
    <3> QED
      BY <1>2, <1>4, <1>5, <1>6, <3>2, <3>3, <3>5, KeyStays
  <2>3. Reserved(p)' \subseteq Key
    BY <1>1, <1>2, ReservedKeys DEF Reserved
  <2> QED
    BY <2>1, <2>2, <2>3 DEF OpInv
<1> QED
  BY <1>7, <1>8, <1>9, <1>10, <1>11, <1>12, <1>13 DEF SharedInv

\* The transactions in S go on as they were, and read what they read at the keys that
\* they reserved; the others have ended.
LifecycleStep(S) ==
  /\ UNCHANGED <<pc, req, left, was>>
  /\ RowsDisjoint'
  /\ \A u \in S : /\ told'[u] = told[u] /\ pending'[u] = pending[u]
                  /\ reads'[u] = reads[u] /\ writes'[u] = writes[u]
                  /\ Open(u)' => Open(u)
  /\ \A u \in S : \A k \in reads[u] \cup writes[u] : Beneath(u)'[k] = Beneath(u)[k]
  /\ \A u \in Txn \ S : /\ Quiet(u) /\ pending'[u] = Absent
                        /\ reads'[u] = {} /\ writes'[u] = {}
                        /\ \A k \in Key : told'[u][k] = Unknown

\* What a commit merges in lies in what the transaction reserved to write, where no
\* later transaction has read or written.
LEMMA CommitIsStep ==
  ASSUME TableInv, TypeOK', NEW t \in Txn, Commit(t)
  PROVE  LifecycleStep(Txn \ {t})
<1>1. /\ TypeOK /\ RowsDisjoint /\ SemOrder /\ DeltaReserved /\ Txn \subseteq Nat
  BY TxnAssumption DEF TableInv, CallsOK, SharedInv
<1>2. /\ Quiet(t) /\ Open(t)
      /\ persistent' = persistent /\ finalized' = finalized
      /\ committed'[t] = (IF pending[t] = Absent THEN NoDelta ELSE pending[t])
      /\ pending'[t] = Absent
      /\ \A u \in Txn \ {t} : committed'[u] = committed[u] /\ pending'[u] = pending[u]
  BY <1>1 DEF Commit, TypeOK
<1>3. /\ reads'[t] = {} /\ writes'[t] = {}
      /\ \A u \in Txn \ {t} : reads'[u] = reads[u] /\ writes'[u] = writes[u]
  BY <1>1 DEF Commit, SemRelease, TypeOK, SemTypeOK
<1>4. /\ \A k \in Key : told'[t][k] = Unknown
      /\ \A u \in Txn \ {t} : told'[u] = told[u]
  BY DEF Commit, Forget
<1>5. \A u \in Txn \ {t} : Open(u)' => Open(u)
  BY <1>2 DEF Open
<1>6. RowsDisjoint'
  <2>1. \A u \in Txn \ {t}, k \in Key :
          /\ pending'[u] # Absent => NoRow \in {pending'[u].inserts[k], pending'[u].deletes[k]}
          /\ HasDelta(u)' => NoRow \in {committed'[u].inserts[k], committed'[u].deletes[k]}
    BY <1>1, <1>2 DEF RowsDisjoint, HasDelta
  <2>2. \A k \in Key : HasDelta(t)' =>
          NoRow \in {committed'[t].inserts[k], committed'[t].deletes[k]}
    BY <1>1, <1>2 DEF RowsDisjoint, HasDelta
  <2> QED
    BY <1>2, <2>1, <2>2 DEF RowsDisjoint
<1>7. ASSUME NEW u \in Txn \ {t}, NEW k \in reads[u] \cup writes[u]
      PROVE  Beneath(u)'[k] = Beneath(u)[k]
  <2>1. u \in Nat /\ t \in Nat /\ k \in Key /\ persistent'[k] = persistent[k]
    BY <1>1, <1>2, <1>7 DEF TypeOK, SemTypeOK
  <2>2. t <= u => ~Touches(t, k) /\ ~Touches(t, k)'
    <3>1. SUFFICES ASSUME t <= u PROVE ~Touches(t, k) /\ ~Touches(t, k)'
      OBVIOUS
    <3>2. t < u
      BY <1>7, <2>1, <3>1
    <3>3. k \notin writes[t]
      BY <1>1, <1>7, <3>2 DEF SemOrder
    <3>4. Own(t, k) = <<NoRow, NoRow>>
      BY <1>1, <2>1, <3>3 DEF DeltaReserved
    <3>5. ~Touches(t, k)
      BY <1>2 DEF Open, Touches, HasDelta
    <3>6. ~Touches(t, k)'
      BY <1>2, <3>4 DEF Touches, HasDelta, Own
    <3> QED
      BY <3>5, <3>6
  <2>3. \A v \in Txn : v <= u => \/ committed'[v] = committed[v]
                                 \/ ~Touches(v, k) /\ ~Touches(v, k)'
    BY <1>2, <2>2
  <2> QED
    BY <1>1, <2>1, <2>3, BeneathStays
<1> QED
  BY <1>2, <1>3, <1>4, <1>5, <1>6, <1>7 DEF LifecycleStep, Commit

\* A rollback drops a delta that only its own transaction read.
LEMMA RollbackIsStep ==
  ASSUME TableInv, TypeOK', NEW t \in Txn, Rollback(t)
  PROVE  LifecycleStep(Txn \ {t})
<1>1. TypeOK /\ RowsDisjoint
  BY DEF TableInv, CallsOK, SharedInv
<1>2. /\ Quiet(t)
      /\ persistent' = persistent /\ committed' = committed /\ finalized' = finalized
      /\ pending'[t] = Absent
      /\ \A u \in Txn \ {t} : pending'[u] = pending[u]
  BY <1>1 DEF Rollback, TypeOK
<1>3. /\ reads'[t] = {} /\ writes'[t] = {}
      /\ \A u \in Txn \ {t} : reads'[u] = reads[u] /\ writes'[u] = writes[u]
  BY <1>1 DEF Rollback, SemRelease, TypeOK, SemTypeOK
<1>4. /\ \A k \in Key : told'[t][k] = Unknown
      /\ \A u \in Txn \ {t} : told'[u] = told[u]
  BY DEF Rollback, Forget
<1>5. \A u \in Txn : Open(u)' => Open(u)
  BY <1>2 DEF Open
<1>6. RowsDisjoint'
  BY <1>1, <1>2 DEF RowsDisjoint, HasDelta
<1>7. ASSUME NEW u \in Txn, NEW k \in reads[u] \cup writes[u]
      PROVE  Beneath(u)'[k] = Beneath(u)[k]
  <2>1. k \in Key
    BY <1>1, <1>7 DEF TypeOK, SemTypeOK
  <2> QED
    BY <1>1, <1>2, <2>1, SameBeneath
<1> QED
  BY <1>2, <1>3, <1>4, <1>5, <1>6, <1>7 DEF LifecycleStep, Rollback

\* Canonical storage becomes what the transactions that are left read beneath them.
LEMMA FinalizeIsStep ==
  ASSUME TableInv, TypeOK', NEW t \in Txn, Finalize(t)
  PROVE  LifecycleStep({u \in Txn : u > t})
<1>1. /\ TypeOK /\ RowsDisjoint /\ Txn \subseteq Nat /\ CommittedDisjoint /\ finalized \in Nat
  BY TxnAssumption DEF TableInv, CallsOK, SharedInv, TypeOK, RowsDisjoint, CommittedDisjoint,
                       Disjoint
<1>2. /\ \A u \in Txn : u <= t => Quiet(u)
      /\ t > finalized /\ finalized' = t
      /\ \A u \in Txn : /\ committed'[u] = IF u > t THEN committed[u] ELSE Absent
                        /\ pending'[u] = IF u > t THEN pending[u] ELSE Absent
  BY DEF Finalize
<1>3. \A u \in Txn : /\ reads'[u] = IF u <= t THEN {} ELSE reads[u]
                     /\ writes'[u] = IF u <= t THEN {} ELSE writes[u]
  BY DEF Finalize, SemReleaseThrough
<1>4. \A u \in Txn : told'[u] = IF u <= t THEN [k \in Key |-> Unknown] ELSE told[u]
  BY DEF Finalize, Forget
<1>5. \A u \in Txn : u > t => (Open(u)' => Open(u))
  BY <1>1, <1>2 DEF Open
<1>6. RowsDisjoint'
  BY <1>1, <1>2 DEF RowsDisjoint, HasDelta
<1>7. ASSUME NEW u \in Txn, u > t, NEW k \in reads[u] \cup writes[u]
      PROVE  Beneath(u)'[k] = Beneath(u)[k]
  <2>1. k \in Key /\ u \in Nat /\ t <= u
    BY <1>1, <1>7 DEF TypeOK, SemTypeOK
  <2> QED
    BY <1>1, <2>1, FinalizeStays
<1>8. \A u \in Txn : u > t \/ u <= t
  BY <1>1
<1> QED
  BY <1>1, <1>2, <1>3, <1>4, <1>5, <1>6, <1>7, <1>8 DEF LifecycleStep, Finalize

\* The end of some transactions changes nothing for the others.
LEMMA LifecycleKeeps ==
  ASSUME TableInv, TypeOK', NEW S \in SUBSET Txn, LifecycleStep(S)
  PROVE  SharedInv' /\ \A p \in Op : OpInv(p)'
<1>1. /\ TypeOK /\ SharedInv /\ \A p \in Op : OpInv(p)
  BY DEF TableInv, CallsOK
<1>2. /\ UNCHANGED <<pc, req, left, was>>
      /\ \A u \in S : /\ told'[u] = told[u] /\ pending'[u] = pending[u]
                      /\ reads'[u] = reads[u] /\ writes'[u] = writes[u]
                      /\ Open(u)' => Open(u)
      /\ \A u \in S : \A k \in reads[u] \cup writes[u] : Beneath(u)'[k] = Beneath(u)[k]
      /\ \A u \in Txn \ S : /\ Quiet(u) /\ pending'[u] = Absent
                            /\ reads'[u] = {} /\ writes'[u] = {}
                            /\ \A k \in Key : told'[u][k] = Unknown
  BY DEF LifecycleStep
<1>3. /\ \A u \in S, k \in Key : Own(u, k)' = Own(u, k)
      /\ \A u \in Txn \ S, k \in Key : Own(u, k)' = <<NoRow, NoRow>>
  BY <1>2 DEF Own
<1>4. \A u \in S, k \in Key : k \in reads[u] \cup writes[u] =>
        View(u)'[k] = View(u)[k] /\ Beneath(u)'[k] = Beneath(u)[k]
  BY <1>1, <1>2, <1>3, ViewStays
<1>5. RowsDisjoint'
  BY DEF LifecycleStep
<1>6. SemOrder'
  BY <1>1, <1>2 DEF SharedInv, SemOrder
<1>7. DeltaReserved'
  BY <1>1, <1>2, <1>3 DEF SharedInv, DeltaReserved
<1>8. ToldReserved'
  BY <1>1, <1>2 DEF SharedInv, ToldReserved
<1>9. Permits'
  BY <1>1, <1>2 DEF SharedInv, Permits, Reserved
<1>10. KeyRanges => TellsTruth'
  <2>1. ASSUME KeyRanges, NEW u \in Txn, NEW k \in Key, told'[u][k] # Unknown
        PROVE  View(u)'[k] = told'[u][k]
    <3>1. u \in S /\ told'[u][k] = told[u][k]
      BY <1>2, <2>1
    <3>2. k \in reads[u] \cup writes[u] /\ View(u)[k] = told[u][k]
      BY <1>1, <2>1, <3>1 DEF SharedInv, ToldReserved, TellsTruth
    <3> QED
      BY <1>4, <3>1, <3>2
  <2> QED
    BY <2>1 DEF TellsTruth
<1>11. ASSUME NEW p \in Op PROVE OpInv(p)'
  <2>1. LeftInv(p)'
    BY <1>1, <1>2, LeftStays DEF OpInv
  <2>2. Reserved(p)' \subseteq Key
    BY <1>1, <1>2, ReservedKeys DEF Reserved
  <2>3. ASSUME NEW u \in Txn, req'[p].txn = u, NEW k \in Key, k \in Reserved(p)'
        PROVE  KeyInv(p, u, k)'
    <3>1. req[p].txn = u /\ k \in Reserved(p)
      BY <1>2, <2>3 DEF Reserved
    <3>2. KeyInv(p, u, k) /\ k \in writes[u]
      BY <1>1, <3>1 DEF OpInv, KeyInv
    <3>3. u \in S
      BY <1>2, <3>1, CallIsHeard
    <3>4. /\ k \in writes'[u] /\ (Open(u)' => Open(u)) /\ told'[u][k] = told[u][k]
          /\ View(u)'[k] = View(u)[k] /\ Beneath(u)'[k] = Beneath(u)[k]
          /\ Own(u, k)' = Own(u, k)
      BY <1>2, <1>3, <1>4, <3>2, <3>3
    <3> QED
      BY <1>2, <3>2, <3>4, KeyStays
  <2> QED
    BY <2>1, <2>2, <2>3 DEF OpInv
<1> QED
  BY <1>5, <1>6, <1>7, <1>8, <1>9, <1>10, <1>11 DEF SharedInv

-----------------------------------------------------------------------------
(* The theorems.                                                           *)

\* The invariant holds at first.
LEMMA TableInit == Init => TableInv
<1> SUFFICES ASSUME Init PROVE TableInv
  OBVIOUS
<1>1. CallsOK
  BY CallsInit
<1>2. NoReq.txn \notin Txn /\ NoReq.range = {} /\ NoReq.kind = "none"
  BY TxnAssumption DEF NoReq
<1>3. \A o \in Op : Reserved(o) = {}
  BY <1>2 DEF Init, Reserved
<1>4. \A t \in Txn, k \in Key : Own(t, k) = <<NoRow, NoRow>>
  BY DEF Init, Own
<1>5. SharedInv
  BY <1>3, <1>4 DEF Init, SemInit, SharedInv, RowsDisjoint, HasDelta, SemOrder, DeltaReserved,
                    ToldReserved, Permits, TellsTruth
<1>6. \A o \in Op : OpInv(o)
  BY <1>3 DEF Init, OpInv, LeftInv, Writing
<1> QED
  BY <1>1, <1>5, <1>6 DEF TableInv

\* Every step keeps it.
LEMMA TableNext == TableInv /\ [Next]_vars => TableInv'
<1> SUFFICES ASSUME TableInv, [Next]_vars PROVE TableInv'
  OBVIOUS
<1>1. CallsOK' /\ TypeOK'
  BY CallsNext DEF TableInv, CallsOK
<1>2. SUFFICES SharedInv' /\ \A p \in Op : OpInv(p)'
  BY <1>1 DEF TableInv
<1>3. ASSUME NEW o \in Op, WriteNext(o) PROVE SharedInv' /\ \A p \in Op : OpInv(p)'
  <2>1. PICK t \in Txn : req[o].txn = t
    BY <1>3, WriteOwn DEF TableInv
  <2> QED
    BY <1>3, <2>1, FinishKeeps, InsertCheckKeeps, PendingLookupKeeps, PendingInstallKeeps,
       LookDeleteKeeps, LookRangeKeeps, LeaveDeletesKeeps, LeaveInsertsKeeps, JoinKeeps
       DEF WriteNext
<1>4. ASSUME NEW o \in Op, NEW t \in Txn, StartWrite(o, t)
      PROVE  SharedInv' /\ \A p \in Op : OpInv(p)'
  BY <1>4, StartOwn, StartKeeps DEF TableInv
<1>5. ASSUME NEW t \in Txn, (\E k \in Key : ReadRow(t, k)) \/ ReadAll(t)
      PROVE  SharedInv' /\ \A p \in Op : OpInv(p)'
  BY <1>1, <1>5, ReadIsStep, ReadKeeps
<1>6. ASSUME NEW t \in Txn, Commit(t) \/ Rollback(t) \/ Finalize(t)
      PROVE  SharedInv' /\ \A p \in Op : OpInv(p)'
  <2>1. \E S \in SUBSET Txn : LifecycleStep(S)
    BY <1>1, <1>6, CommitIsStep, RollbackIsStep, FinalizeIsStep
  <2> QED
    BY <1>1, <2>1, LifecycleKeeps
<1>7. CASE UNCHANGED vars
  <2>1. LifecycleStep(Txn)
    <3>1. TypeOK /\ RowsDisjoint
      BY DEF TableInv, CallsOK, SharedInv
    <3>2. UNCHANGED <<persistent, committed, pending, finalized, reads, writes, told>>
      BY <1>7 DEF vars, tableVars, semVars
    <3>3. \A u \in Txn, k \in Key : Beneath(u)'[k] = Beneath(u)[k]
      BY <1>1, <3>1, <3>2, SameBeneath
    <3>4. \A u \in Txn : reads[u] \cup writes[u] \subseteq Key
      BY <3>1 DEF TypeOK, SemTypeOK
    <3>5. RowsDisjoint'
      BY <3>1, <3>2 DEF RowsDisjoint, HasDelta
    <3> QED
      BY <1>7, <3>2, <3>3, <3>4, <3>5 DEF LifecycleStep, Open, vars
  <2> QED
    BY <1>1, <2>1, LifecycleKeeps
<1> QED
  BY <1>3, <1>4, <1>5, <1>6, <1>7 DEF Next

\* The invariant holds in every state.
THEOREM TableInvariant == Spec => []TableInv
BY TableInit, TableNext, PTL DEF Spec

\* No delta, pending or committed, ever inserts and deletes rows of one key: upsert
\* and delete_row take a row out of one side before they put one in the other, and
\* are dropped or fail in between with the row on neither.
THEOREM RowsAreDisjoint == Spec => []RowsDisjoint
<1>1. TableInv => RowsDisjoint
  BY DEF TableInv, SharedInv
<1> QED
  BY <1>1, TableInvariant, PTL

\* insert_row finds no row of its key until it has written its own.
THEOREM InsertsAreNew == Spec => []InsertFindsNoRow
<1>1. TableInv => InsertFindsNoRow
  <2> SUFFICES ASSUME TableInv, NEW o \in Op, req[o].kind = "insert",
                      pc[o] \in {"lookup", "create", "leaveDeletes"}, Open(req[o].txn),
                      NEW k \in Reserved(o)
               PROVE  View(req[o].txn)[k] = NoRow
    BY DEF InsertFindsNoRow
  <2>1. PICK t \in Txn : req[o].txn = t
    BY DEF TableInv, CallsOK, ReqInv
  <2>2. KeyInv(o, t, k)
    BY <2>1 DEF TableInv, OpInv
  <2> QED
    BY <2>1, <2>2 DEF KeyInv
<1> QED
  BY <1>1, TableInvariant, PTL

\* With ranges over the key columns, what a transaction was told it reads until it is
\* decided, whatever else is decided, materialized, dropped or rejected meanwhile.
THEOREM TransactionsReadWhatTheyWereTold == KeyRanges => (Spec => []TellsTruth)
<1> SUFFICES ASSUME KeyRanges PROVE Spec => []TellsTruth
  OBVIOUS
<1>1. TableInv => TellsTruth
  BY DEF TableInv, SharedInv
<1> QED
  BY <1>1, TableInvariant, PTL

\* With ranges over the key columns, a write that is dropped leaves each of its keys
\* as it was, as it was to be, or as it is beneath the delta.
THEOREM DroppedWritesAreBounded == KeyRanges => (Spec => []DroppedWriteIsBounded)
<1> SUFFICES ASSUME KeyRanges PROVE Spec => []DroppedWriteIsBounded
  OBVIOUS
<1>1. TableInv => DroppedWriteIsBounded
  <2> SUFFICES ASSUME TableInv, NEW o \in Op, NEW k \in Reserved(o), Open(req[o].txn)
               PROVE  View(req[o].txn)[k] \in {was[o][k], Goal(o, k, was[o][k]),
                                               Beneath(req[o].txn)[k]}
    BY DEF DroppedWriteIsBounded
  <2>1. pc[o] # "idle"
    BY DEF TableInv, CallsOK, ReqInv, NoReq, Reserved
  <2>2. PICK t \in Txn : req[o].txn = t
    BY <2>1 DEF TableInv, CallsOK, ReqInv
  <2>3. KeyInv(o, t, k)
    BY <2>2 DEF TableInv, OpInv
  <2> QED
    BY <2>2, <2>3 DEF KeyInv
<1> QED
  BY <1>1, TableInvariant, PTL

\* With ranges over the key columns, what merge_into makes of a range, one layer
\* after the other, are the rows of the snapshot in it; with a range over a value
\* column that is false.
THEOREM RangeReadsAreOfTheSnapshot == KeyRanges => (Spec => []RangeReadsAgree)
<1> SUFFICES ASSUME KeyRanges PROVE Spec => []RangeReadsAgree
  OBVIOUS
<1>1. TableInv => RangeReadsAgree
  <2> SUFFICES ASSUME TableInv, NEW t \in Txn, NEW range \in Ranges
               PROVE  RangeRead(t, range) = RowsIn(View(t), range)
    BY DEF RangeReadsAgree
  <2> QED
    BY TableAssumption, RangeReadIsView DEF KeyRanges, TableInv, CallsOK, SharedInv
<1> QED
  BY <1>1, TableInvariant, PTL

\* Reads of the whole table -- rows, for_each_row_in_order, count -- see the snapshot,
\* whatever the ranges of the bulk writes are.
THEOREM WholeReadsAreOfTheSnapshot ==
  Spec => [](\A t \in Txn : RangeRead(t, Row) = RowsIn(View(t), Row))
<1>1. TableInv => \A t \in Txn : RangeRead(t, Row) = RowsIn(View(t), Row)
  <2> SUFFICES ASSUME TableInv, NEW t \in Txn
               PROVE  RangeRead(t, Row) = RowsIn(View(t), Row)
    OBVIOUS
  <2>1. PICK range \in SUBSET Row : range = Row
    OBVIOUS
  <2>2. KeyRange(range)
    BY <2>1 DEF KeyRange
  <2> QED
    BY <2>1, <2>2, RangeReadIsView DEF TableInv, CallsOK, SharedInv
<1> QED
  BY <1>1, TableInvariant, PTL

\* Materialization lets the deletes of a delta win and row reads its inserts; since no
\* delta has both, finalize stores exactly what the decided transactions read.
THEOREM FinalizeStoresWhatIsRead == Spec => [](\A t \in Txn : Materialized(t) = Beneath(t))
<1>1. TableInv => \A t \in Txn : Materialized(t) = Beneath(t)
  <2> SUFFICES ASSUME TableInv, NEW t \in Txn PROVE Materialized(t) = Beneath(t)
    OBVIOUS
  <2>1. TypeOK /\ CommittedDisjoint /\ t \in Nat
    BY TxnAssumption DEF TableInv, CallsOK, SharedInv, RowsDisjoint, CommittedDisjoint, Disjoint
  <2> QED
    BY <2>1, MaterializedIsRead
<1> QED
  BY <1>1, TableInvariant, PTL
=============================================================================
