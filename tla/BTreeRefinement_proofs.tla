------------------------- MODULE BTreeRefinement_proofs -------------------------
(***************************************************************************)
(* The BTree implements the TransactionalSet, and the StoredSet, for any   *)
(* transactions, keys and concurrent calls.                                *)
(*                                                                         *)
(* The proof of the first says what the mapped variables are in terms of   *)
(* the BTree (the frontier, canonical storage as finalize will leave it,   *)
(* the change of each transaction), and that a mapped view is the view.    *)
(* Then each step is a step of the set or leaves the mapped variables      *)
(* alone.  The second maps storage and deltas as they are.                 *)
(***************************************************************************)
EXTENDS BTreeRefinement, BTree_proofs

Inv == BTreeInv /\ OrderInv /\ ReadInv

\* What is read at k of canonical storage and the committed deltas through c.
Through(c, k) ==
  \/ k \in persistent /\ \A u \in Txn : u <= c => ~Covers(u, k)
  \/ \E u \in Txn : LastThrough(u, k, c) /\ k \in committed[u].inserts

-----------------------------------------------------------------------------
(* The mapped variables.                                                   *)

LEMMA FrontierBarIs ==
  ASSUME Inv
  PROVE  /\ FrontierBar \in Nat
         /\ finalized <= FrontierBar
         /\ life.phase \in {"apply", "failed"} => FrontierBar = life.txn
         /\ life.phase \notin {"apply", "failed"} => FrontierBar = finalized
<1>1. finalized \in Nat
  BY TxnAssumption DEF Inv, BTreeInv, TypeOK, OwnerTypeOK
<1>2. life.txn \in Nat
  BY LifeType DEF Inv, BTreeInv
<1> QED
  BY <1>1, <1>2 DEF FrontierBar, Inv, OrderInv, LifeShape

\* Canonical storage, with what finalize has still to apply, is what is read through
\* the mapped frontier.
CanonIsThrough == \A k \in Key : k \in CanonBar <=> Through(FrontierBar, k)

LEMMA CanonBarIs == Inv => CanonIsThrough
<1> SUFFICES ASSUME Inv, NEW k \in Key
             PROVE  k \in CanonBar <=> Through(FrontierBar, k)
  BY DEF CanonIsThrough
<1> DEFINE on == {s \in todo : s.key = k}
<1>1. k \in CanonBar <=> \/ on = {} /\ k \in persistent
                         \/ \E s \in on : /\ \A r \in on : ~AppliedBefore(s, r)
                                          /\ s.kind = "insert"
  BY DEF CanonBar
<1>2. CASE life.phase \notin {"apply", "failed"}
  <2>1. todo = {} /\ FrontierBar = finalized
    BY <1>2, FrontierBarIs DEF Inv, ReadInv, ApplyInv
  <2>2. \A u \in Txn : u <= finalized => ~Covers(u, k)
    BY FrontierBarIs, TxnNat DEF Inv, OrderInv, DeltasAreOpen, Covers, HasDelta, BTreeInv, TypeOK,
                                 OwnerTypeOK
  <2> QED
    BY <1>1, <2>1, <2>2 DEF Through, LastThrough
<1>3. CASE life.phase \in {"apply", "failed"}
  <2> DEFINE c == life.txn
  <2>1. FrontierBar = c
    BY <1>3, FrontierBarIs
  <2>2. todo \subseteq ApplyThrough(c)
    BY <1>3 DEF Inv, ReadInv, ApplyInv
  <2>3. \A r \in on : /\ r.txn \in Txn /\ r.txn <= c /\ Covers(r.txn, k)
                      /\ r.kind \in {"insert", "delete"}
                      /\ r.kind = "insert" <=> k \in committed[r.txn].inserts
                      /\ r = [txn |-> r.txn, key |-> k, kind |-> r.kind]
    <3> SUFFICES ASSUME NEW r \in on
                 PROVE  /\ r.txn \in Txn /\ r.txn <= c /\ Covers(r.txn, k)
                        /\ r.kind \in {"insert", "delete"}
                        /\ r.kind = "insert" <=> k \in committed[r.txn].inserts
                        /\ r = [txn |-> r.txn, key |-> k, kind |-> r.kind]
      OBVIOUS
    <3>1. r \in KeyOp /\ r.key = k /\ r.txn <= c /\ HasDelta(r.txn)
          /\ k \in IF r.kind = "insert" THEN committed[r.txn].inserts ELSE committed[r.txn].deletes
      BY <2>2 DEF ApplyThrough
    <3>2. committed[r.txn].inserts \cap committed[r.txn].deletes = {}
      BY <3>1 DEF KeyOp, Inv, BTreeInv, DeltaDisjoint
    <3> QED
      BY <3>1, <3>2 DEF KeyOp, Covers, Mentions
  <2>4. CASE \A u \in Txn : u <= c => ~Covers(u, k)
    <3>1. on = {}
      BY <2>3, <2>4
    <3> QED
      BY <1>1, <2>1, <2>4, <3>1 DEF Through, LastThrough
  <2>5. ASSUME NEW w \in Txn, w <= c, Covers(w, k)
        PROVE  k \in CanonBar <=> Through(c, k)
    <3>1. PICK u \in Txn : LastThrough(u, k, c)
      BY <2>5, LastDelta DEF Inv, ReadInv
    <3>2. Through(c, k) <=> k \in committed[u].inserts
      <4>1. \A v \in Txn : LastThrough(v, k, c) => v = u
        BY <3>1, TxnNat DEF LastThrough
      <4> QED
        BY <2>5, <3>1, <4>1 DEF Through
    <3> DEFINE last == Deciding(u, k)
    <3>3. \/ last \in todo
          \/ on = {} /\ (k \in persistent <=> k \in committed[u].inserts)
      BY <1>3, <3>1 DEF Inv, ReadInv, ApplyInv
    <3>4. CASE last \in todo
      <4>1. last \in on /\ last.txn = u /\ (last.kind = "insert" <=> k \in committed[u].inserts)
        BY <3>4 DEF Deciding
      <4>2. \A r \in on : r.txn <= u /\ (r.txn = u => r = last)
        BY <2>3, <3>1 DEF LastThrough, Deciding
      <4>3. \A r \in on : ~AppliedBefore(last, r)
        BY <2>3, <4>1, <4>2, TxnNat DEF AppliedBefore
      <4>4. \A s \in on : ~AppliedBefore(s, last) => s = last
        BY <2>3, <4>1, <4>2, TxnNat DEF AppliedBefore
      <4> HIDE DEF on, last
      <4> QED
        BY <1>1, <3>2, <4>1, <4>3, <4>4
    <3>5. CASE on = {} /\ (k \in persistent <=> k \in committed[u].inserts)
      BY <1>1, <3>2, <3>5
    <3> QED
      BY <3>3, <3>4, <3>5
  <2> QED
    BY <2>1, <2>4, <2>5
<1> QED
  BY <1>2, <1>3

\* The change of a transaction beyond the frontier is what its delta says, pending or
\* committed.
ChangeIs ==
  /\ \A u \in Txn, k \in Key : u > FrontierBar /\ committed[u] # Absent =>
       /\ ChangeBar[u][k] # "same" <=> Covers(u, k)
       /\ ChangeBar[u][k] = "in" <=> Covers(u, k) /\ k \in committed[u].inserts
  /\ \A u \in Txn, k \in Key : u > FrontierBar /\ committed[u] = Absent =>
       /\ ChangeBar[u][k] # "same" <=> OwnIn(u, k) \/ OwnOut(u, k)
       /\ ChangeBar[u][k] = "in" <=> OwnIn(u, k)

LEMMA ChangeBarIs == Inv => ChangeIs
<1> SUFFICES ASSUME Inv PROVE ChangeIs
  OBVIOUS
<1>1. ASSUME NEW u \in Txn, NEW k \in Key, u > FrontierBar, committed[u] # Absent
      PROVE  /\ ChangeBar[u][k] # "same" <=> Covers(u, k)
             /\ ChangeBar[u][k] = "in" <=> Covers(u, k) /\ k \in committed[u].inserts
  <2>1. ~(u <= FrontierBar) /\ pending[u] = Absent
    BY <1>1, FrontierBarIs, TxnNat DEF Inv, OrderInv, DeltasAreOpen
  <2>2. ChangeBar[u][k] = IF HasDelta(u) THEN DeltaBar(committed[u])[k] ELSE "same"
    BY <2>1 DEF ChangeBar
  <2> QED
    BY <2>2 DEF Covers, Mentions, DeltaBar
<1>2. ASSUME NEW u \in Txn, NEW k \in Key, u > FrontierBar, committed[u] = Absent
      PROVE  /\ ChangeBar[u][k] # "same" <=> OwnIn(u, k) \/ OwnOut(u, k)
             /\ ChangeBar[u][k] = "in" <=> OwnIn(u, k)
  <2>1. ~(u <= FrontierBar)
    BY <1>2, FrontierBarIs, TxnNat
  <2>2. ChangeBar[u][k] = IF pending[u] # Absent THEN DeltaBar(pending[u])[k] ELSE "same"
    BY <1>2, <2>1 DEF ChangeBar, HasDelta
  <2> QED
    BY <2>2 DEF OwnIn, OwnOut, DeltaBar
<1> QED
  BY <1>1, <1>2 DEF ChangeIs


-----------------------------------------------------------------------------
(* Mapped views.                                                           *)

\* What the set has committed through c.
Merged(c) == {u \in CommittedBar : u <= c}

\* The committed versions of the set, over its canonical contents, are the committed
\* deltas over what is read through the mapped frontier.
LEMMA MergedChangers ==
  ASSUME Inv, NEW c \in Nat, NEW k \in Key
  PROVE  Abstract!Changers(Merged(c), k) = {u \in Txn : FrontierBar < u /\ u <= c /\ Covers(u, k)}
<1>1. ChangeIs /\ FrontierBar \in Nat
  BY ChangeBarIs, FrontierBarIs
<1>2. \A u : u \in Merged(c) <=> u \in Txn /\ u > FrontierBar /\ committed[u] # Absent /\ u <= c
  BY DEF Merged, CommittedBar
<1>3. \A u \in Txn : Covers(u, k) => committed[u] # Absent
  BY DEF Covers, HasDelta
<1> QED
  BY <1>1, <1>2, <1>3, TxnNat DEF ChangeIs, Abstract!Changers

AfterIsThrough == \A c \in Txn, k \in Key :
  c > FrontierBar => (Abstract!After(Merged(c), k) <=> Through(c, k))

LEMMA AfterBarIs == Inv => AfterIsThrough
<1> SUFFICES ASSUME Inv, NEW c \in Txn, NEW k \in Key, c > FrontierBar
             PROVE  Abstract!After(Merged(c), k) <=> Through(c, k)
  BY DEF AfterIsThrough
<1> DEFINE F == FrontierBar
           S == Abstract!Changers(Merged(c), k)
<1>1. c \in Nat /\ F \in Nat /\ \A u \in Txn : u \in Nat
  BY FrontierBarIs, TxnNat
<1>2. S = {u \in Txn : F < u /\ u <= c /\ Covers(u, k)}
  BY <1>1, MergedChangers
<1>3. \A u \in S : ChangeBar[u][k] = "in" <=> k \in committed[u].inserts
  BY <1>2, ChangeBarIs DEF ChangeIs, Covers, HasDelta
<1>4. Abstract!After(Merged(c), k) <=>
        \/ S = {} /\ k \in CanonBar
        \/ \E u \in S : (\A v \in S : v <= u) /\ ChangeBar[u][k] = "in"
  BY DEF Abstract!After
<1> HIDE DEF S, F
<1>5. CASE S = {}
  <2>1. k \in CanonBar <=> Through(F, k)
    BY CanonBarIs DEF CanonIsThrough, F
  <2>2. \A u \in Txn : Covers(u, k) => (u <= c <=> u <= F)
    BY <1>1, <1>2, <1>5 DEF F
  <2>3. Through(c, k) <=> Through(F, k)
    BY <2>2 DEF Through, LastThrough
  <2> QED
    BY <1>4, <1>5, <2>1, <2>3
<1>6. CASE S # {}
  <2>1. ~(k \in persistent /\ \A u \in Txn : u <= c => ~Covers(u, k))
    BY <1>2, <1>6
  <2>2. \A u \in Txn : LastThrough(u, k, c) <=> u \in S /\ \A v \in S : v <= u
    <3> SUFFICES ASSUME NEW u \in Txn
                 PROVE  LastThrough(u, k, c) <=> u \in S /\ \A v \in S : v <= u
      OBVIOUS
    <3>1. PICK w \in S : TRUE
      BY <1>6
    <3>2. LastThrough(u, k, c) => F < u
      BY <1>1, <1>2, <3>1 DEF LastThrough
    <3>3. u \in S => \A v \in Txn : ~(F < v) => v <= u
      BY <1>1, <1>2 DEF F
    <3> QED
      BY <1>2, <3>2, <3>3 DEF LastThrough
  <2>3. S \subseteq Txn
    BY <1>2
  <2>4. Through(c, k) <=> \E u \in S : (\A v \in S : v <= u) /\ k \in committed[u].inserts
    BY <2>1, <2>2, <2>3 DEF Through
  <2> QED
    BY <1>3, <1>4, <1>6, <2>4
<1> QED
  BY <1>5, <1>6

\* A transaction beyond the mapped frontier reads of the set what it reads of the
\* BTree.
ViewsAgree == \A t \in Txn, k \in Key :
  t > FrontierBar => (k \in Abstract!SetView(t) <=> k \in View(t))

LEMMA BarViews == Inv => ViewsAgree
<1> SUFFICES ASSUME Inv, NEW t \in Txn, NEW k \in Key, t > FrontierBar
             PROVE  k \in Abstract!SetView(t) <=> k \in View(t)
  BY DEF ViewsAgree
<1> DEFINE S == Abstract!Changers(Merged(t), k)
           B == Abstract!Changers(Abstract!Basis(t), k)
<1>1. t \in Nat /\ FrontierBar \in Nat /\ \A u \in Txn : u \in Nat
  BY FrontierBarIs, TxnNat
<1>2. S = {u \in Txn : FrontierBar < u /\ u <= t /\ Covers(u, k)}
  BY <1>1, MergedChangers
<1>3. B = S \cup {u \in {t} : ChangeBar[t][k] # "same"}
  BY DEF Abstract!Changers, Abstract!Basis, Merged
<1>4. k \in View(t) <=> OwnIn(t, k) \/ (Through(t, k) /\ ~OwnOut(t, k))
  <2>1. Beneath(t, k) <=> Through(t, k)
    BY DEF Beneath, Through, LastThrough
  <2> QED
    BY <2>1, ViewLayers DEF ViewsAreLayered, Inv, BTreeInv
<1>5. k \in Abstract!SetView(t) <=>
        \/ B = {} /\ k \in CanonBar
        \/ \E u \in B : (\A v \in B : v <= u) /\ ChangeBar[u][k] = "in"
  BY DEF Abstract!SetView, Abstract!After
<1>6. Through(t, k) <=>
        \/ S = {} /\ k \in CanonBar
        \/ \E u \in S : (\A v \in S : v <= u) /\ ChangeBar[u][k] = "in"
  BY AfterBarIs DEF AfterIsThrough, Abstract!After
<1>7. ChangeIs
  BY ChangeBarIs
<1> HIDE DEF S, B
<1>8. CASE committed[t] = Absent /\ (OwnIn(t, k) \/ OwnOut(t, k))
  <2>1. t \in B /\ \A v \in B : v <= t
    BY <1>1, <1>2, <1>3, <1>7, <1>8 DEF ChangeIs
  <2>2. \A u \in B : (\A v \in B : v <= u) => u = t
    BY <1>1, <1>2, <1>3, <2>1
  <2>3. k \in Abstract!SetView(t) <=> OwnIn(t, k)
    BY <1>5, <1>7, <1>8, <2>1, <2>2 DEF ChangeIs
  <2> QED
    BY <1>4, <1>8, <2>3
<1>9. CASE ~(committed[t] = Absent /\ (OwnIn(t, k) \/ OwnOut(t, k)))
  <2>1. ~OwnIn(t, k) /\ ~OwnOut(t, k)
    BY <1>9 DEF OwnIn, OwnOut, Inv, OrderInv, DeltasAreOpen
  <2>2. B = S
    BY <1>1, <1>2, <1>3, <1>7, <2>1 DEF ChangeIs
  <2> QED
    BY <1>4, <1>5, <1>6, <2>1, <2>2
<1> QED
  BY <1>8, <1>9

-----------------------------------------------------------------------------
(* Accesses.                                                               *)

\* A reserved key is settled, and a written one undisturbed: no other open transaction
\* of the set has a change, or a promise, in the way.
LEMMA ReservedIsSettled ==
  ASSUME Inv, NEW t \in Txn, NEW k \in Key, k \in reads[t] \cup writes[t]
  PROVE  Abstract!Settled(t, k)
<1> SUFFICES ASSUME NEW u \in Txn, Abstract!Open(u), u < t
             PROVE  ChangeBar[u][k] = "same"
  BY DEF Abstract!Settled
<1>1. u > FrontierBar /\ committed[u] = Absent
  BY DEF Abstract!Open, CommittedBar
<1>2. k \notin writes[u]
  BY DEF Inv, OrderInv, ReservationsAreOrdered
<1>3. ~OwnIn(u, k) /\ ~OwnOut(u, k)
  BY <1>2 DEF OwnIn, OwnOut, Inv, OrderInv, DeltasAreReserved
<1> QED
  BY <1>1, <1>3, ChangeBarIs DEF ChangeIs

LEMMA WrittenIsUndisturbed ==
  ASSUME Inv, NEW t \in Txn, NEW k \in Key, k \in writes[t]
  PROVE  Abstract!Undisturbed(t, k)
<1> SUFFICES ASSUME NEW u \in Txn, Abstract!Open(u), u > t
             PROVE  ChangeBar[u][k] = "same" /\ told[u][k] = "unknown"
  BY DEF Abstract!Undisturbed
<1>1. u > FrontierBar /\ committed[u] = Absent
  BY DEF Abstract!Open, CommittedBar
<1>2. k \notin reads[u] \cup writes[u]
  BY TxnNat DEF Inv, OrderInv, ReservationsAreOrdered
<1>3. ~OwnIn(u, k) /\ ~OwnOut(u, k)
  BY <1>2 DEF OwnIn, OwnOut, Inv, OrderInv, DeltasAreReserved
<1> QED
  BY <1>1, <1>2, <1>3, ChangeBarIs DEF ChangeIs, Inv, OrderInv, ToldIsReserved

\* A call that works on an undecided transaction works beyond any running finalize.
LEMMA UndecidedIsOpen ==
  ASSUME Inv, NEW o \in Op, NEW t \in Txn, t = req[o].txn, Undecided(t)
  PROVE  t > FrontierBar /\ Abstract!Open(t)
<1>1. t # 0
  BY TxnAssumption
<1>2. t > FrontierBar
  BY <1>1 DEF FrontierBar, Undecided, Inv, BTreeInv, FinalizeAlone
<1> QED
  BY <1>2 DEF Abstract!Open, CommittedBar, Undecided


-----------------------------------------------------------------------------
(* Steps of calls.                                                         *)

LEMMA BarInit == Init => Abstract!SetInit
<1> SUFFICES ASSUME Init PROVE Abstract!SetInit
  OBVIOUS
<1> USE DEF Init, OwnerInit, NoCall
<1>1. FrontierBar = 0 /\ CommittedBar = {}
  BY DEF FrontierBar, CommittedBar
<1>2. CanonBar = persistent
  BY DEF CanonBar
<1>3. ChangeBar = [t \in Txn |-> [k \in Key |-> "same"]]
  BY DEF ChangeBar, HasDelta
<1> QED
  BY <1>1, <1>2, <1>3 DEF Abstract!SetInit

\* Steps that the set does not see.
LEMMA Unseen ==
  ASSUME UNCHANGED <<persistent, committed, pending, todo, told>>, FrontierBar' = FrontierBar
  PROVE  UNCHANGED Abstract!setVars
<1>1. CanonBar' = CanonBar
  BY DEF CanonBar
<1>2. ChangeBar' = ChangeBar
  BY DEF ChangeBar, HasDelta
<1>3. CommittedBar' = CommittedBar
  BY DEF CommittedBar
<1> QED
  BY <1>1, <1>2, <1>3 DEF Abstract!setVars

LEMMA UnseenCall ==
  ASSUME UNCHANGED <<ownerVars, told>>
  PROVE  UNCHANGED Abstract!setVars
<1>1. FrontierBar' = FrontierBar
  BY DEF FrontierBar, ownerVars
<1> QED
  BY <1>1, Unseen DEF ownerVars

\* A delta without keys changes nothing, like no delta.
LEMMA PendingInstallUnseen ==
  ASSUME Inv, NEW o \in Op, PendingInstall(o)
  PROVE  UNCHANGED Abstract!setVars
<1> DEFINE t == req[o].txn
<1>1. /\ UNCHANGED <<persistent, committed, finalized, life, todo, told>>
      /\ committed[t] = Absent /\ t \in Txn
      /\ \A u \in Txn : pending'[u] = IF u = t /\ pending[t] = Absent THEN EmptyDelta ELSE pending[u]
  BY DEF PendingInstall, AssertWritable, Inv, BTreeInv, TypeOK, OwnerTypeOK, Started
<1>2. FrontierBar' = FrontierBar
  BY <1>1 DEF FrontierBar
<1>3. CanonBar' = CanonBar /\ CommittedBar' = CommittedBar
  BY <1>1, <1>2 DEF CanonBar, CommittedBar
<1>4. EmptyDelta \in Delta /\ DeltaBar(EmptyDelta) = [k \in Key |-> "same"]
  BY DEF EmptyDelta, DeltaBar, Delta, DeltaOver
<1>5. ChangeBar' = ChangeBar
  <2>1. \A u \in Txn : ChangeBar'[u] = ChangeBar[u]
    BY <1>1, <1>2, <1>4, AbsentAssumption DEF ChangeBar, HasDelta
  <2> QED
    BY <2>1 DEF ChangeBar
<1> QED
  BY <1>1, <1>2, <1>3, <1>5 DEF Abstract!setVars

\* The two native steps of a write change the set's version of its key.
LEMMA StepsOfDeltaBar ==
  ASSUME NEW o \in Op, NEW d \in Delta, NEW k \in Key, TheKey(o) = k,
         d.inserts \cap d.deletes = {}
  PROVE  /\ DeltaBar(FirstStep(o, d)) \in {DeltaBar(d), [DeltaBar(d) EXCEPT ![k] = "same"]}
         /\ k \notin (IF req[o].kind = "insert" THEN d.deletes ELSE d.inserts) =>
              DeltaBar(SecondStep(o, d)) =
                [DeltaBar(d) EXCEPT ![k] = IF req[o].kind = "insert" THEN "in" ELSE "out"]
<1> USE DEF DeltaBar, Delta, DeltaOver
<1>1. CASE req[o].kind = "insert"
  BY <1>1, ZenonT(40) DEF FirstStep, SecondStep, InsertFirst, InsertSecond
<1>2. CASE req[o].kind # "insert"
  BY <1>2, ZenonT(40) DEF FirstStep, SecondStep, DeleteFirst, DeleteSecond
<1> QED
  BY <1>1, <1>2

\* What the native steps of a write do: to the delta d of its transaction t, to t's
\* change c of its key k, and to what t reads of k.
WriteStarts(o, t, k, c, d) ==
  /\ t = req[o].txn /\ k = TheKey(o) /\ pc[o] = "first"
  /\ \A u \in Txn : pending'[u] = IF u = t THEN d ELSE pending[u]
  /\ DeltaBar(d) \in {DeltaBar(pending[t]), [DeltaBar(pending[t]) EXCEPT ![k] = "same"]}
  /\ told' = [told EXCEPT ![t][k] = "unknown"]
  /\ \/ (k \in View(t))' <=> k \in View(t)
     \/ (k \in View(t))' <=> c = "in"
  /\ UNCHANGED <<persistent, committed, finalized, life, todo>>

WriteEnds(o, t, k, c, d) ==
  /\ t = req[o].txn /\ k = TheKey(o) /\ pc[o] = "second"
  /\ \A u \in Txn : pending'[u] = IF u = t THEN d ELSE pending[u]
  /\ DeltaBar(d) = [DeltaBar(pending[t]) EXCEPT ![k] = c]
  /\ told' = [told EXCEPT ![t][k] = IF c = "in" THEN "present" ELSE "absent"]
  /\ UNCHANGED <<persistent, committed, finalized, life, todo>>

LEMMA SecondStepSets ==
  ASSUME Inv, NEW o \in Op, WriteSecond(o)
  PROVE  \E t \in Txn, k \in Key, c \in {"in", "out"}, d \in Delta  : WriteEnds(o, t, k, c, d)
<1>1. pc[o] = "second" /\ Writing(o)
  BY DEF WriteSecond, Writing, WriteHeld
<1>2. PICK k \in Key : k = TheKey(o) /\ req[o].range = {k}
  BY <1>1, KeyOfWrite DEF Inv, BTreeInv
<1>3. PICK t \in Txn : t = req[o].txn
  BY <1>1 DEF Inv, BTreeInv, Started
<1> DEFINE c == IF req[o].kind = "insert" THEN "in" ELSE "out"
           d == SecondStep(o, pending[t])
<1>4. pending[t] \in Delta /\ d \in Delta /\ pending[t].inserts \cap pending[t].deletes = {}
  BY <1>1, <1>2, <1>3, SecondStepKeeps DEF Inv, BTreeInv, TypeOK, OwnerTypeOK, DeltaInPlace, DeltaDisjoint
<1>5. /\ pending' = [pending EXCEPT ![t] = d]
      /\ told' = [told EXCEPT ![t][k] = IF req[o].kind = "insert" THEN "present" ELSE "absent"]
      /\ UNCHANGED <<persistent, committed, finalized, life, todo>>
  BY <1>2, <1>3, <1>4 DEF WriteSecond, Inv, BTreeInv, TypeOK, OwnerTypeOK
<1>6. k \notin (IF req[o].kind = "insert" THEN pending[t].deletes ELSE pending[t].inserts)
  BY <1>1, <1>2, <1>3 DEF Inv, BTreeInv, HalfWritten
<1>7. DeltaBar(d) = [DeltaBar(pending[t]) EXCEPT ![k] = c]
  BY <1>2, <1>4, <1>6, StepsOfDeltaBar
<1>8. c \in {"in", "out"} /\ (req[o].kind = "insert" <=> c = "in")
  OBVIOUS
<1>9. \A u \in Txn : pending'[u] = IF u = t THEN d ELSE pending[u]
  BY <1>5 DEF Inv, BTreeInv, TypeOK, OwnerTypeOK
<1>10. d \in Delta
  BY <1>4
<1> HIDE DEF c, d
<1>11. told' = [told EXCEPT ![t][k] = IF c = "in" THEN "present" ELSE "absent"]
  BY <1>5, <1>8
<1>12. c \in {"in", "out"}
  BY <1>8
<1>13. WriteEnds(o, t, k, c, d)
  BY <1>1, <1>2, <1>3, <1>5, <1>7, <1>9, <1>11 DEF WriteEnds
<1> QED
  BY <1>10, <1>12, <1>13

\* While a write is between its two steps the key is as before, or its own change is
\* gone, which is the only thing that can make it be as it will be.
LEMMA FirstStepSets ==
  ASSUME Inv, Inv', NEW o \in Op, WriteFirst(o)
  PROVE  \E t \in Txn, k \in Key, c \in {"in", "out"}, d \in Delta  : WriteStarts(o, t, k, c, d)
<1>1. pc[o] = "first" /\ Writing(o)
  BY DEF WriteFirst, Writing, WriteHeld
<1>2. PICK k \in Key : k = TheKey(o) /\ req[o].range = {k}
  BY <1>1, KeyOfWrite DEF Inv, BTreeInv
<1>3. PICK t \in Txn : t = req[o].txn
  BY <1>1 DEF Inv, BTreeInv, Started
<1> DEFINE c == IF req[o].kind = "insert" THEN "in" ELSE "out"
           d == FirstStep(o, pending[t])
<1>4. pending[t] \in Delta /\ d \in Delta /\ pending[t].inserts \cap pending[t].deletes = {}
  BY <1>1, <1>2, <1>3, FirstStepKeeps DEF Inv, BTreeInv, TypeOK, OwnerTypeOK, DeltaInPlace, DeltaDisjoint
<1>5. /\ pending' = [pending EXCEPT ![t] = d]
      /\ told' = [told EXCEPT ![t][k] = "unknown"]
      /\ UNCHANGED <<persistent, committed, finalized, life, todo>>
  BY <1>2, <1>3, <1>4 DEF WriteFirst, Inv, BTreeInv, TypeOK, OwnerTypeOK
<1>6. DeltaBar(d) \in {DeltaBar(pending[t]), [DeltaBar(pending[t]) EXCEPT ![k] = "same"]}
  BY <1>2, <1>4, StepsOfDeltaBar
<1>7. \/ (k \in View(t))' <=> k \in View(t)
      \/ (k \in View(t))' <=> c = "in"
  <2>1. ViewsAreLayered /\ ViewsAreLayered'
    BY ViewLayers, PTL DEF Inv, BTreeInv
  <2>2. /\ pending[t] # Absent /\ pending'[t] = d /\ pending'[t] # Absent
    BY <1>1, <1>3, <1>4, <1>5, AbsentAssumption DEF Inv, BTreeInv, TypeOK, OwnerTypeOK, DeltaInPlace
  <2>3. CASE req[o].kind = "insert"
    <3>1. CASE OwnOut(t, k) /\ ~OwnIn(t, k)
      BY <2>1, <2>3, <3>1 DEF ViewsAreLayered
    <3>2. CASE ~(OwnOut(t, k) /\ ~OwnIn(t, k))
      <4>1. /\ d.inserts = pending[t].inserts /\ k \notin d.deletes
            /\ k \in pending[t].deletes => k \in pending[t].inserts
        BY <1>2, <1>4, <2>2, <2>3, <3>2 DEF FirstStep, InsertFirst, Delta, DeltaOver, OwnIn, OwnOut
      <4>2. (OwnIn(t, k)' <=> OwnIn(t, k)) /\ (OwnOut(t, k)' <=> OwnOut(t, k))
        BY <1>4, <2>2, <4>1 DEF OwnIn, OwnOut
      <4> QED
        BY <1>5, <4>2, SameViewOwn DEF Inv, BTreeInv
    <3> QED
      BY <3>1, <3>2
  <2>4. CASE req[o].kind # "insert"
    <3>1. CASE OwnIn(t, k)
      BY <2>1, <2>4, <3>1 DEF ViewsAreLayered
    <3>2. CASE ~OwnIn(t, k)
      <4>1. d.deletes = pending[t].deletes /\ k \notin d.inserts /\ k \notin pending[t].inserts
        BY <1>2, <1>4, <2>2, <2>4, <3>2 DEF FirstStep, DeleteFirst, Delta, DeltaOver, OwnIn
      <4>2. (OwnIn(t, k)' <=> OwnIn(t, k)) /\ (OwnOut(t, k)' <=> OwnOut(t, k))
        BY <1>4, <2>2, <4>1 DEF OwnIn, OwnOut
      <4> QED
        BY <1>5, <4>2, SameViewOwn DEF Inv, BTreeInv
    <3> QED
      BY <3>1, <3>2
  <2> QED
    BY <2>3, <2>4
<1>8. c \in {"in", "out"}
  OBVIOUS
<1>9. \A u \in Txn : pending'[u] = IF u = t THEN d ELSE pending[u]
  BY <1>5 DEF Inv, BTreeInv, TypeOK, OwnerTypeOK
<1>10. d \in Delta
  BY <1>4
<1> HIDE DEF c, d
<1>11. WriteStarts(o, t, k, c, d)
  BY <1>1, <1>2, <1>3, <1>5, <1>6, <1>7, <1>9 DEF WriteStarts
<1> QED
  BY <1>8, <1>10, <1>11

\* What both steps of a write have in common.
LEMMA WriteBar ==
  ASSUME Inv, NEW o \in Op, NEW t \in Txn, t = req[o].txn, NEW k \in Key, k = TheKey(o),
         NEW d \in Delta,
         pc[o] \in {"first", "second"},
         \A u \in Txn : pending'[u] = IF u = t THEN d ELSE pending[u],
         UNCHANGED <<persistent, committed, finalized, life, todo>>
  PROVE  /\ Abstract!Open(t) /\ Abstract!Settled(t, k) /\ Abstract!Undisturbed(t, k)
         /\ pending[t] \in Delta
         /\ ChangeBar[t] = DeltaBar(pending[t])
         /\ ChangeBar' = [ChangeBar EXCEPT ![t] = DeltaBar(d)]
         /\ UNCHANGED <<CanonBar, CommittedBar, FrontierBar>>
<1>1. Undecided(t)
  BY WriterIsUndecided DEF Inv, OrderInv
<1>2. t > FrontierBar /\ Abstract!Open(t)
  BY <1>1, UndecidedIsOpen
<1>3. k \in writes[t]
  BY KeyOfWrite DEF Inv, BTreeInv, OrderInv, PermitsAreReserved, Writing, WriteHeld
<1>4. pending[t] \in Delta /\ pending[t] # Absent /\ ~(t <= FrontierBar)
  BY <1>2, FrontierBarIs, TxnNat DEF Inv, BTreeInv, TypeOK, OwnerTypeOK, DeltaInPlace
<1>5. FrontierBar' = FrontierBar
  BY DEF FrontierBar
<1>6. CanonBar' = CanonBar /\ CommittedBar' = CommittedBar
  BY <1>5 DEF CanonBar, CommittedBar
<1>7. ChangeBar[t] = DeltaBar(pending[t])
  BY <1>4 DEF ChangeBar
<1>8. \A u \in Txn : ChangeBar'[u] = IF u = t THEN DeltaBar(d) ELSE ChangeBar[u]
  BY <1>4, <1>5, AbsentAssumption DEF ChangeBar, HasDelta
<1>9. ChangeBar' = [ChangeBar EXCEPT ![t] = DeltaBar(d)]
  <2>1. ChangeBar' = [u \in Txn |-> ChangeBar'[u]] /\ DOMAIN ChangeBar = Txn
    BY DEF ChangeBar
  <2> QED
    BY <1>8, <2>1
<1> QED
  BY <1>2, <1>3, <1>4, <1>5, <1>6, <1>7, <1>9, ReservedIsSettled, WrittenIsUndisturbed

LEMMA WriteSecondIsWrite ==
  ASSUME Inv, NEW o \in Op, WriteSecond(o)
  PROVE  Abstract!SetNext
<1>1. PICK t \in Txn, k \in Key, c \in {"in", "out"}, d \in Delta  : WriteEnds(o, t, k, c, d)
  BY SecondStepSets
<1>2. /\ Abstract!Open(t) /\ Abstract!Settled(t, k) /\ Abstract!Undisturbed(t, k)
      /\ ChangeBar[t] = DeltaBar(pending[t])
      /\ ChangeBar' = [ChangeBar EXCEPT ![t] = DeltaBar(d)]
      /\ UNCHANGED <<CanonBar, CommittedBar, FrontierBar>>
  BY <1>1, WriteBar DEF WriteEnds
<1>3. ChangeBar' = [ChangeBar EXCEPT ![t][k] = c]
  BY <1>1, <1>2 DEF WriteEnds
<1>4. Abstract!Write(t, k, c)
  BY <1>1, <1>2, <1>3 DEF WriteEnds, Abstract!Write
<1> QED
  BY <1>4 DEF Abstract!SetNext

LEMMA WriteFirstBegins ==
  ASSUME Inv, Inv', NEW o \in Op, WriteFirst(o)
  PROVE  Abstract!SetNext
<1>1. PICK t \in Txn, k \in Key, c \in {"in", "out"}, d \in Delta  : WriteStarts(o, t, k, c, d)
  BY FirstStepSets
<1>2. /\ Abstract!Open(t) /\ Abstract!Settled(t, k) /\ Abstract!Undisturbed(t, k)
      /\ ChangeBar[t] = DeltaBar(pending[t])
      /\ ChangeBar' = [ChangeBar EXCEPT ![t] = DeltaBar(d)]
      /\ UNCHANGED <<CanonBar, CommittedBar, FrontierBar>>
  BY <1>1, WriteBar DEF WriteStarts
<1>3. ChangeBar' \in {ChangeBar, [ChangeBar EXCEPT ![t][k] = "same"]}
  <2>1. ChangeBar = [ChangeBar EXCEPT ![t] = ChangeBar[t]]
    BY DEF ChangeBar
  <2> QED
    BY <1>1, <1>2, <2>1 DEF WriteStarts
<1>4. \/ (k \in Abstract!SetView(t))' <=> k \in Abstract!SetView(t)
      \/ (k \in Abstract!SetView(t))' <=> c = "in"
  <2>1. t > FrontierBar /\ t > FrontierBar'
    BY <1>2 DEF Abstract!Open
  <2>2. ViewsAgree /\ ViewsAgree'
    BY BarViews, PTL
  <2>3. /\ k \in Abstract!SetView(t) <=> k \in View(t)
        /\ (k \in Abstract!SetView(t))' <=> (k \in View(t))'
    BY <2>1, <2>2 DEF ViewsAgree
  <2> QED
    BY <1>1, <2>3 DEF WriteStarts
<1>5. Abstract!WriteBegins(t, k, c)
  BY <1>1, <1>2, <1>3, <1>4 DEF WriteStarts, Abstract!WriteBegins
<1> QED
  BY <1>5 DEF Abstract!SetNext

LEMMA ReadReturnIsRead ==
  ASSUME Inv, NEW o \in Op, ReadReturn(o)
  PROVE  Abstract!SetNext \/ UNCHANGED Abstract!setVars
<1>1. PICK t \in Txn : t = req[o].txn
  BY DEF ReadReturn, Inv, BTreeInv, Started
<1>2. CASE ~(Undecided(t) /\ req[o].kind # "isEmpty")
  BY <1>1, <1>2, UnseenCall DEF ReadReturn
<1>3. CASE Undecided(t) /\ req[o].kind # "isEmpty"
  <2> DEFINE range == req[o].range
  <2>1. /\ pc[o] = "reading" /\ unread[o] = {} /\ Reading(o) /\ UNCHANGED ownerVars
        /\ told' = [told EXCEPT ![t] = [k \in Key |->
                      IF k \notin range THEN @[k]
                      ELSE IF k \in Result(o) THEN "present" ELSE "absent"]]
    BY <1>1, <1>3 DEF ReadReturn, Reading, ReadHeld
  <2>2. t > FrontierBar /\ Abstract!Open(t)
    BY <1>1, <1>3, UndecidedIsOpen
  <2>3. range \in SUBSET Key /\ range \subseteq reads[t]
    BY <1>1, <2>1 DEF Inv, BTreeInv, TypeOK, OrderInv, PermitsAreReserved
  <2>4. \A k \in range : Abstract!Settled(t, k)
    BY <2>3, ReservedIsSettled
  <2>5. \A k \in range : k \in Result(o) <=> k \in Abstract!SetView(t)
    BY <1>1, <2>1, <2>2, <2>3, ResultIsView, BarViews DEF ViewsAgree, Inv
  <2>6. told' = [told EXCEPT ![t] = [k \in Key |->
                   IF k \notin range THEN @[k]
                   ELSE IF k \in Abstract!SetView(t) THEN "present" ELSE "absent"]]
    BY <2>1, <2>5
  <2>7. UNCHANGED <<CanonBar, ChangeBar, CommittedBar, FrontierBar>>
    BY <2>1 DEF ownerVars, CanonBar, ChangeBar, CommittedBar, FrontierBar, HasDelta
  <2>8. Abstract!Read(t, range)
    BY <2>2, <2>4, <2>6, <2>7 DEF Abstract!Read
  <2> QED
    BY <2>3, <2>8 DEF Abstract!SetNext
<1> QED
  BY <1>2, <1>3


-----------------------------------------------------------------------------
(* Lifecycle steps.                                                        *)

LEMMA CommitIsSetCommit ==
  ASSUME Inv, NEW t \in Txn, Commit(t)
  PROVE  Abstract!SetCommit(t)
<1>1. /\ life.phase = "idle" /\ t > finalized /\ committed[t] = Absent
      /\ life' = Decided("commit", t)
      /\ \A u \in Txn : committed'[u] = IF u # t THEN committed[u]
                                        ELSE IF pending[t] = Absent THEN NoDelta ELSE pending[t]
      /\ \A u \in Txn : pending'[u] = IF u = t THEN Absent ELSE pending[u]
      /\ UNCHANGED <<persistent, finalized, todo>>
      /\ told' = Forget({t})
  BY DEF Commit, CommitDecide, Inv, BTreeInv, TypeOK, OwnerTypeOK
<1>2. FrontierBar = finalized /\ FrontierBar' = finalized
  BY <1>1, FrontierBarIs DEF FrontierBar, Decided
<1>3. CanonBar' = CanonBar
  BY <1>1 DEF CanonBar
<1>4. pending[t] \in Delta \cup {Absent}
  BY DEF Inv, BTreeInv, TypeOK, OwnerTypeOK
<1>5. ChangeBar' = ChangeBar
  <2>1. \A u \in Txn : ChangeBar'[u] = ChangeBar[u]
    BY <1>1, <1>2, <1>4, AbsentAssumption DEF ChangeBar, HasDelta
  <2> QED
    BY <2>1 DEF ChangeBar
<1>6. CommittedBar' = CommittedBar \cup {t}
  BY <1>1, <1>2, <1>4, AbsentAssumption DEF CommittedBar
<1>7. told' = [told EXCEPT ![t] = Abstract!Unknown]
  BY <1>1 DEF Forget, Abstract!Unknown, Inv, BTreeInv, TypeOK
<1>8. Abstract!Open(t)
  BY <1>1, <1>2 DEF Abstract!Open, CommittedBar
<1> QED
  BY <1>2, <1>3, <1>5, <1>6, <1>7, <1>8 DEF Abstract!SetCommit

LEMMA RollbackIsSetRollback ==
  ASSUME Inv, NEW t \in Txn, Rollback(t)
  PROVE  Abstract!SetRollback(t)
<1>1. /\ life.phase = "idle" /\ t > finalized /\ committed[t] = Absent
      /\ life' = Decided("rollback", t)
      /\ \A u \in Txn : pending'[u] = IF u = t THEN Absent ELSE pending[u]
      /\ UNCHANGED <<persistent, committed, finalized, todo>>
      /\ told' = Forget({t})
  BY DEF Rollback, RollbackDecide, Inv, BTreeInv, TypeOK, OwnerTypeOK
<1>2. FrontierBar = finalized /\ FrontierBar' = finalized
  BY <1>1, FrontierBarIs DEF FrontierBar, Decided
<1>3. CanonBar' = CanonBar /\ CommittedBar' = CommittedBar
  BY <1>1, <1>2 DEF CanonBar, CommittedBar
<1>4. ChangeBar' = [ChangeBar EXCEPT ![t] = [k \in Key |-> "same"]]
  <2>1. \A u \in Txn : ChangeBar'[u] = IF u = t THEN [k \in Key |-> "same"] ELSE ChangeBar[u]
    BY <1>1, <1>2 DEF ChangeBar, HasDelta
  <2>2. ChangeBar' = [u \in Txn |-> ChangeBar'[u]] /\ DOMAIN ChangeBar = Txn
    BY DEF ChangeBar
  <2> QED
    BY <2>1, <2>2
<1>5. told' = [told EXCEPT ![t] = Abstract!Unknown]
  BY <1>1 DEF Forget, Abstract!Unknown, Inv, BTreeInv, TypeOK
<1>6. Abstract!Open(t)
  BY <1>1, <1>2 DEF Abstract!Open, CommittedBar
<1> QED
  BY <1>2, <1>3, <1>4, <1>5, <1>6 DEF Abstract!SetRollback

\* Finalize takes effect when it begins.
LEMMA FinalizeIsSetFinalize ==
  ASSUME Inv, Inv', NEW t \in Txn, Finalize(t)
  PROVE  Abstract!SetFinalize(t)
<1>1. /\ life.phase = "idle" /\ t > finalized
      /\ life' = [call |-> "finalize", txn |-> t, phase |-> "apply"]
      /\ UNCHANGED <<persistent, committed, pending, finalized>>
      /\ told' = Forget({u \in Txn : u <= t})
  BY DEF Finalize, FinalizeBegin
<1>2. FrontierBar = finalized /\ FrontierBar' = t /\ t \in Nat /\ finalized \in Nat
  BY <1>1, FrontierBarIs, TxnNat DEF FrontierBar
<1>3. CanonBar' = {k \in Key : Abstract!After({u \in CommittedBar : u <= t}, k)}
  <2>1. \A k \in Key : Through(t, k)' <=> Through(t, k)
    BY <1>1 DEF Through, LastThrough, Covers, HasDelta
  <2>2. CanonIsThrough'
    BY CanonBarIs, PTL
  <2>3. \A k \in Key : k \in CanonBar' <=> Through(t, k)'
    BY <1>2, <2>2 DEF CanonIsThrough, Through, LastThrough
  <2>4. \A k \in Key : Abstract!After({u \in CommittedBar : u <= t}, k) <=> Through(t, k)
    BY <1>1, <1>2, AfterBarIs DEF AfterIsThrough, Merged
  <2>5. CanonBar' \subseteq Key
    BY DEF CanonBar
  <2> QED
    BY <2>1, <2>3, <2>4, <2>5
<1>4. ChangeBar' = [u \in Txn |-> IF u <= t THEN [k \in Key |-> "same"] ELSE ChangeBar[u]]
  <2>1. \A u \in Txn : ~(u <= t) => ~(u <= finalized)
    BY <1>1, <1>2, TxnNat
  <2> QED
    BY <1>1, <1>2, <2>1 DEF ChangeBar, HasDelta
<1>5. CommittedBar' = {u \in CommittedBar : u > t}
  <2>1. \A u \in Txn : u > t => u > finalized
    BY <1>1, <1>2, TxnNat
  <2>2. CommittedBar' = {u \in Txn : u > t /\ committed[u] # Absent}
    BY <1>1, <1>2 DEF CommittedBar
  <2> QED
    BY <1>2, <2>1, <2>2 DEF CommittedBar
<1>6. told' = [u \in Txn |-> IF u <= t THEN Abstract!Unknown ELSE told[u]]
  BY <1>1 DEF Forget, Abstract!Unknown
<1> QED
  BY <1>1, <1>2, <1>3, <1>4, <1>5, <1>6 DEF Abstract!SetFinalize

\* Each key that finalize applies counted as applied from the beginning.
LEMMA ApplyKeyUnseen ==
  ASSUME Inv, Inv', NEW s \in todo, ApplyKey(s), UNCHANGED told
  PROVE  UNCHANGED Abstract!setVars
<1>1. /\ life.phase = "apply"
      /\ UNCHANGED <<committed, pending, finalized, life>>
      /\ s \in KeyOp /\ s.txn <= life.txn /\ Covers(s.txn, s.key)
      /\ \A k : k # s.key => (k \in persistent' <=> k \in persistent)
  BY DEF ApplyKey, Inv, ReadInv, ApplyInv, ApplyThrough, Covers, Mentions
<1>2. FrontierBar' = FrontierBar /\ FrontierBar = life.txn
  BY <1>1, FrontierBarIs DEF FrontierBar
<1>3. CanonBar' = CanonBar
  <2>1. \A k \in Key : Through(FrontierBar, k)' <=> Through(FrontierBar, k)
    <3> SUFFICES ASSUME NEW k \in Key
                 PROVE  Through(FrontierBar, k)' <=> Through(FrontierBar, k)
      OBVIOUS
    <3>1. \A u \in Txn : /\ Covers(u, k)' <=> Covers(u, k)
                         /\ LastThrough(u, k, FrontierBar)' <=> LastThrough(u, k, FrontierBar)
      BY <1>1, <1>2 DEF Covers, HasDelta, LastThrough
    <3>2. k = s.key => \E u \in Txn : u <= FrontierBar /\ Covers(u, k)
      BY <1>1, <1>2 DEF KeyOp
    <3> QED
      BY <1>1, <1>2, <3>1, <3>2 DEF Through
  <2>2. CanonIsThrough /\ CanonIsThrough'
    BY CanonBarIs, PTL
  <2>3. CanonBar \subseteq Key /\ CanonBar' \subseteq Key
    BY DEF CanonBar
  <2> QED
    BY <2>1, <2>2, <2>3 DEF CanonIsThrough
<1>4. ChangeBar' = ChangeBar /\ CommittedBar' = CommittedBar
  BY <1>1, <1>2 DEF ChangeBar, CommittedBar, HasDelta
<1> QED
  BY <1>2, <1>3, <1>4 DEF Abstract!setVars

\* What finalize prunes counted as pruned.
LEMMA FinalizePublishUnseen ==
  ASSUME Inv, FinalizePublish, UNCHANGED told
  PROVE  UNCHANGED Abstract!setVars
<1>1. /\ life.phase = "apply" /\ life'.phase = "release" /\ finalized' = life.txn
      /\ UNCHANGED <<persistent, todo>>
      /\ \A u \in Txn : /\ committed'[u] = IF u > life.txn THEN committed[u] ELSE Absent
                        /\ pending'[u] = IF u > life.txn THEN pending[u] ELSE Absent
  BY DEF FinalizePublish, Inv, BTreeInv, TypeOK, OwnerTypeOK
<1>2. FrontierBar' = FrontierBar /\ FrontierBar = life.txn /\ life.txn \in Nat
  BY <1>1, FrontierBarIs DEF FrontierBar
<1>3. \A u \in Txn : u > life.txn <=> ~(u <= life.txn)
  BY <1>2, TxnNat
<1>4. CanonBar' = CanonBar
  BY <1>1 DEF CanonBar
<1>5. CommittedBar' = CommittedBar
  BY <1>1, <1>2 DEF CommittedBar
<1>6. ChangeBar' = ChangeBar
  <2>1. \A u \in Txn : ChangeBar'[u] = ChangeBar[u]
    BY <1>1, <1>2, <1>3 DEF ChangeBar, HasDelta
  <2> QED
    BY <2>1 DEF ChangeBar
<1> QED
  BY <1>2, <1>4, <1>5, <1>6 DEF Abstract!setVars

LEMMA LifecycleUnseen ==
  ASSUME Inv, Inv', LifeStep \/ LifeFail
  PROVE  UNCHANGED Abstract!setVars
<1>1. CASE \E s \in todo : ApplyKey(s)
  BY <1>1, ApplyKeyUnseen DEF LifeStep, LifeFail
<1>2. CASE FinalizePublish
  BY <1>2, FinalizePublishUnseen DEF LifeStep, LifeFail
<1>3. CASE LifeRelease \/ LifeReturn \/ FinalizeFail
  <2>1. UNCHANGED <<persistent, committed, pending, finalized, todo, told>>
    BY <1>3 DEF LifeRelease, LifeReturn, FinalizeFail, LifeStep, LifeFail
  <2>2. FrontierBar' = FrontierBar
    BY <1>3, <2>1 DEF FrontierBar, LifeRelease, LifeReturn, FinalizeFail, NoCall, Inv, BTreeInv,
                       TypeOK, OwnerTypeOK
  <2> QED
    BY <2>1, <2>2, Unseen
<1> QED
  BY <1>1, <1>2, <1>3 DEF LifeStep, LifeFail

-----------------------------------------------------------------------------
LEMMA SetStep ==
  ASSUME Inv, Inv', [Next]_vars
  PROVE  [Abstract!SetNext]_(Abstract!setVars)
<1>1. ASSUME NEW o \in Op, NEW t \in Txn, Start(o, t) PROVE UNCHANGED Abstract!setVars
  BY <1>1, UnseenCall DEF Start, WriteReserve, ReadStart
<1>2. ASSUME NEW o \in Op, WriteNext(o) PROVE Abstract!SetNext \/ UNCHANGED Abstract!setVars
  <2>1. CASE WriteReject(o) \/ PendingLookup(o)
    BY <2>1, UnseenCall DEF WriteReject, PendingLookup
  <2> QED
    BY <1>2, <2>1, PendingInstallUnseen, WriteFirstBegins, WriteSecondIsWrite DEF WriteNext
<1>3. ASSUME NEW o \in Op, ReadNext(o) \/ Abandon(o)
      PROVE  Abstract!SetNext \/ UNCHANGED Abstract!setVars
  <2>1. CASE ReadReturn(o)
    BY <2>1, ReadReturnIsRead
  <2>2. CASE ~ReadReturn(o)
    BY <1>3, <2>2, UnseenCall DEF ReadNext, ReadAcquire, ReadSnapshot, ReadKey, Abandon
  <2> QED
    BY <2>1, <2>2
<1>4. ASSUME NEW t \in Txn, Commit(t) \/ Rollback(t) \/ Finalize(t)
      PROVE  Abstract!SetNext
  BY <1>4, CommitIsSetCommit, RollbackIsSetRollback, FinalizeIsSetFinalize DEF Abstract!SetNext
<1>5. ASSUME NEW t \in Txn, CloseTxn(t) \/ CommitAgain(t) \/ FinalizeNoop(t)
      PROVE  UNCHANGED Abstract!setVars
  <2>1. CASE CloseTxn(t)
    BY <2>1, UnseenCall DEF CloseTxn
  <2>2. CASE CommitAgain(t) \/ FinalizeNoop(t)
    <3>1. UNCHANGED <<persistent, committed, pending, finalized, todo, told>>
      BY <2>2 DEF CommitAgain, CommitDuplicate, FinalizeNoop, FinalizeStale
    <3>2. FrontierBar' = FrontierBar
      BY <2>2, <3>1 DEF FrontierBar, CommitAgain, CommitDuplicate, FinalizeNoop, FinalizeStale
    <3> QED
      BY <3>1, <3>2, Unseen
  <2> QED
    BY <1>5, <2>1, <2>2
<1>6. CASE LifeStep \/ LifeFail
  BY <1>6, LifecycleUnseen
<1>7. CASE UNCHANGED vars
  BY <1>7, UnseenCall DEF vars
<1> QED
  BY <1>1, <1>2, <1>3, <1>4, <1>5, <1>6, <1>7 DEF Next, Decide

\* The BTree, with reads and writes of many steps and a finalize that rewrites
\* canonical storage in place, implements the set of atomic operations.
THEOREM BTreeImplementsSet == Spec => ImplementsTransactionalSet
<1>1. Init => Abstract!SetInit
  BY BarInit
<1>2. Inv /\ Inv' /\ [Next]_vars => [Abstract!SetNext]_(Abstract!setVars)
  BY SetStep
<1>3. Spec => []Inv
  BY ReadInvariance DEF Inv
<1> QED
  BY <1>1, <1>2, <1>3, PTL DEF Spec, Abstract!SetSpec, ImplementsTransactionalSet

-----------------------------------------------------------------------------
(***************************************************************************)
(* The BTree implements the StoredSet.  Storage and the listed deltas are  *)
(* mapped as they are, so that a mapped view is the view of the BTree      *)
(* whether or not a finalize is under way, and what is to be shown of each *)
(* step is what it does.                                                   *)
(***************************************************************************)

ListedIs ==
  /\ \A u \in Txn, k \in Key : committed[u] # Absent =>
       /\ ListedChange[u][k] # "same" <=> Covers(u, k)
       /\ ListedChange[u][k] = "in" <=> Covers(u, k) /\ k \in committed[u].inserts
  /\ \A u \in Txn, k \in Key : committed[u] = Absent =>
       /\ ListedChange[u][k] # "same" <=> OwnIn(u, k) \/ OwnOut(u, k)
       /\ ListedChange[u][k] = "in" <=> OwnIn(u, k)

LEMMA ListedChangeIs == Inv => ListedIs
<1> SUFFICES ASSUME Inv PROVE ListedIs
  OBVIOUS
<1>1. ASSUME NEW u \in Txn, NEW k \in Key, committed[u] # Absent
      PROVE  /\ ListedChange[u][k] # "same" <=> Covers(u, k)
             /\ ListedChange[u][k] = "in" <=> Covers(u, k) /\ k \in committed[u].inserts
  <2>1. pending[u] = Absent
    BY <1>1 DEF Inv, OrderInv, DeltasAreOpen
  <2>2. ListedChange[u][k] = IF HasDelta(u) THEN DeltaBar(committed[u])[k] ELSE "same"
    BY <2>1 DEF ListedChange
  <2> QED
    BY <2>2 DEF Covers, Mentions, DeltaBar
<1>2. ASSUME NEW u \in Txn, NEW k \in Key, committed[u] = Absent
      PROVE  /\ ListedChange[u][k] # "same" <=> OwnIn(u, k) \/ OwnOut(u, k)
             /\ ListedChange[u][k] = "in" <=> OwnIn(u, k)
  <2>1. ListedChange[u][k] = IF pending[u] # Absent THEN DeltaBar(pending[u])[k] ELSE "same"
    BY <1>2 DEF ListedChange, HasDelta
  <2> QED
    BY <2>1 DEF OwnIn, OwnOut, DeltaBar
<1> QED
  BY <1>1, <1>2 DEF ListedIs

\* A transaction reads of the set what it reads of the BTree, also while storage is
\* being rewritten.
StoredViewsAgree == \A t \in Txn, k \in Key : k \in Stored!SetView(t) <=> k \in View(t)

LEMMA StoredViews == Inv => StoredViewsAgree
<1> SUFFICES ASSUME Inv, NEW t \in Txn, NEW k \in Key
             PROVE  k \in Stored!SetView(t) <=> k \in View(t)
  BY DEF StoredViewsAgree
<1> DEFINE S == {u \in Txn : u <= t /\ Covers(u, k)}
           B == Stored!Changers(Stored!Basis(t), k)
<1>1. t \in Nat /\ \A u \in Txn : u \in Nat
  BY TxnNat
<1>2. ListedIs
  BY ListedChangeIs
<1>3. \A u \in Txn : Covers(u, k) => committed[u] # Absent
  BY DEF Covers, HasDelta
<1>4. B = S \cup {u \in {t} : ListedChange[t][k] # "same"}
  BY <1>2, <1>3 DEF Stored!Changers, Stored!Basis, ListedCommitted, ListedIs
<1>5. k \in View(t) <=> OwnIn(t, k) \/ (Beneath(t, k) /\ ~OwnOut(t, k))
  BY ViewLayers DEF ViewsAreLayered, Inv, BTreeInv
<1>6. Beneath(t, k) <=> \/ S = {} /\ k \in persistent
                        \/ \E u \in S : (\A v \in S : v <= u) /\ ListedChange[u][k] = "in"
  <2>1. \A u \in S : ListedChange[u][k] = "in" <=> k \in committed[u].inserts
    BY <1>2, <1>3 DEF ListedIs
  <2> QED
    BY <2>1 DEF Beneath
<1>7. k \in Stored!SetView(t) <=>
        \/ B = {} /\ k \in persistent
        \/ \E u \in B : (\A v \in B : v <= u) /\ ListedChange[u][k] = "in"
  BY DEF Stored!SetView, Stored!After
<1>8. S \subseteq Txn /\ \A u \in S : u <= t
  OBVIOUS
<1>9. t \in S <=> Covers(t, k)
  BY <1>1
<1> HIDE DEF S, B
<1>10. CASE committed[t] = Absent /\ (OwnIn(t, k) \/ OwnOut(t, k))
  <2>1. t \in B /\ \A v \in B : v <= t
    BY <1>1, <1>2, <1>4, <1>8, <1>10 DEF ListedIs
  <2>2. \A u \in B : (\A v \in B : v <= u) => u = t
    BY <1>1, <1>4, <1>8, <2>1
  <2>3. k \in Stored!SetView(t) <=> OwnIn(t, k)
    BY <1>2, <1>7, <1>10, <2>1, <2>2 DEF ListedIs
  <2> QED
    BY <1>5, <1>10, <2>3
<1>11. CASE ~(committed[t] = Absent /\ (OwnIn(t, k) \/ OwnOut(t, k)))
  <2>1. ~OwnIn(t, k) /\ ~OwnOut(t, k)
    BY <1>11 DEF OwnIn, OwnOut, Inv, OrderInv, DeltasAreOpen
  <2>2. B = S
    BY <1>2, <1>4, <1>9, <2>1 DEF ListedIs
  <2> QED
    BY <1>5, <1>6, <1>7, <2>1, <2>2
<1> QED
  BY <1>10, <1>11

LEMMA StoredBarInit == Init => Stored!StoredInit
<1> SUFFICES ASSUME Init PROVE Stored!StoredInit
  OBVIOUS
<1> USE DEF Init, OwnerInit, NoCall
<1>1. ListedCommitted = {} /\ MergeBar = Stored!NoMerge
  BY DEF ListedCommitted, MergeBar, Stored!NoMerge
<1>2. ListedChange = [t \in Txn |-> [k \in Key |-> "same"]]
  BY DEF ListedChange, HasDelta
<1> QED
  BY <1>1, <1>2 DEF Stored!StoredInit, Stored!SetInit

-----------------------------------------------------------------------------
(* Accesses.                                                               *)

LEMMA ReservedIsStoredSettled ==
  ASSUME Inv, NEW t \in Txn, NEW k \in Key, k \in reads[t] \cup writes[t]
  PROVE  Stored!Settled(t, k)
<1> SUFFICES ASSUME NEW u \in Txn, Stored!Open(u), u < t
             PROVE  ListedChange[u][k] = "same"
  BY DEF Stored!Settled
<1>1. committed[u] = Absent
  BY DEF Stored!Open, ListedCommitted
<1>2. k \notin writes[u]
  BY DEF Inv, OrderInv, ReservationsAreOrdered
<1>3. ~OwnIn(u, k) /\ ~OwnOut(u, k)
  BY <1>2 DEF OwnIn, OwnOut, Inv, OrderInv, DeltasAreReserved
<1> QED
  BY <1>1, <1>3, ListedChangeIs DEF ListedIs

LEMMA WrittenIsStoredUndisturbed ==
  ASSUME Inv, NEW t \in Txn, NEW k \in Key, k \in writes[t]
  PROVE  Stored!Undisturbed(t, k)
<1> SUFFICES ASSUME NEW u \in Txn, Stored!Open(u), u > t
             PROVE  ListedChange[u][k] = "same" /\ told[u][k] = "unknown"
  BY DEF Stored!Undisturbed
<1>1. committed[u] = Absent
  BY DEF Stored!Open, ListedCommitted
<1>2. k \notin reads[u] \cup writes[u]
  BY TxnNat DEF Inv, OrderInv, ReservationsAreOrdered
<1>3. ~OwnIn(u, k) /\ ~OwnOut(u, k)
  BY <1>2 DEF OwnIn, OwnOut, Inv, OrderInv, DeltasAreReserved
<1> QED
  BY <1>1, <1>2, <1>3, ListedChangeIs DEF ListedIs, Inv, OrderInv, ToldIsReserved

\* A call on an undecided transaction works beyond what is being finalized.
LEMMA UndecidedIsWorking ==
  ASSUME Inv, NEW o \in Op, NEW t \in Txn, t = req[o].txn, Undecided(t)
  PROVE  Stored!Open(t) /\ Stored!Working(t)
<1>1. t # 0 /\ t > 0
  BY TxnAssumption
<1>2. Stored!Working(t)
  BY <1>1 DEF Stored!Working, MergeBar, Inv, BTreeInv, FinalizeAlone
<1> QED
  BY <1>2 DEF Stored!Open, ListedCommitted, Undecided

-----------------------------------------------------------------------------
(* Steps of calls.                                                         *)

LEMMA StoredUnseen ==
  ASSUME UNCHANGED <<persistent, committed, pending, finalized, told>>, MergeBar' = MergeBar
  PROVE  UNCHANGED Stored!storedVars
<1>1. ListedChange' = ListedChange /\ ListedCommitted' = ListedCommitted
  BY DEF ListedChange, ListedCommitted, HasDelta
<1> QED
  BY <1>1 DEF Stored!storedVars, Stored!setVars

LEMMA StoredUnseenCall ==
  ASSUME UNCHANGED <<ownerVars, told>>
  PROVE  UNCHANGED Stored!storedVars
<1>1. MergeBar' = MergeBar
  BY DEF MergeBar, ownerVars
<1> QED
  BY <1>1, StoredUnseen DEF ownerVars

LEMMA PendingInstallStoredUnseen ==
  ASSUME Inv, NEW o \in Op, PendingInstall(o)
  PROVE  UNCHANGED Stored!storedVars
<1> DEFINE t == req[o].txn
<1>1. /\ UNCHANGED <<persistent, committed, finalized, life, todo, told>>
      /\ committed[t] = Absent /\ t \in Txn
      /\ \A u \in Txn : pending'[u] = IF u = t /\ pending[t] = Absent THEN EmptyDelta ELSE pending[u]
  BY DEF PendingInstall, AssertWritable, Inv, BTreeInv, TypeOK, OwnerTypeOK, Started
<1>2. MergeBar' = MergeBar /\ ListedCommitted' = ListedCommitted
  BY <1>1 DEF MergeBar, ListedCommitted
<1>3. EmptyDelta \in Delta /\ DeltaBar(EmptyDelta) = [k \in Key |-> "same"]
  BY DEF EmptyDelta, DeltaBar, Delta, DeltaOver
<1>4. ListedChange' = ListedChange
  <2>1. \A u \in Txn : ListedChange'[u] = ListedChange[u]
    BY <1>1, <1>3, AbsentAssumption DEF ListedChange, HasDelta
  <2> QED
    BY <2>1 DEF ListedChange
<1> QED
  BY <1>1, <1>2, <1>4 DEF Stored!storedVars, Stored!setVars

LEMMA WriteListed ==
  ASSUME Inv, NEW o \in Op, NEW t \in Txn, t = req[o].txn, NEW k \in Key, k = TheKey(o),
         NEW d \in Delta,
         pc[o] \in {"first", "second"},
         \A u \in Txn : pending'[u] = IF u = t THEN d ELSE pending[u],
         UNCHANGED <<persistent, committed, finalized, life, todo>>
  PROVE  /\ Stored!Open(t) /\ Stored!Working(t)
         /\ Stored!Settled(t, k) /\ Stored!Undisturbed(t, k)
         /\ ListedChange[t] = DeltaBar(pending[t])
         /\ ListedChange' = [ListedChange EXCEPT ![t] = DeltaBar(d)]
         /\ UNCHANGED <<ListedCommitted, MergeBar>>
<1>1. Stored!Open(t) /\ Stored!Working(t)
  BY WriterIsUndecided, UndecidedIsWorking DEF Inv, OrderInv
<1>2. k \in writes[t]
  BY KeyOfWrite DEF Inv, BTreeInv, OrderInv, PermitsAreReserved, Writing, WriteHeld
<1>3. pending[t] \in Delta /\ pending[t] # Absent
  BY DEF Inv, BTreeInv, TypeOK, OwnerTypeOK, DeltaInPlace
<1>4. ListedCommitted' = ListedCommitted /\ MergeBar' = MergeBar
  BY DEF ListedCommitted, MergeBar
<1>5. ListedChange[t] = DeltaBar(pending[t])
  BY <1>3 DEF ListedChange
<1>6. \A u \in Txn : ListedChange'[u] = IF u = t THEN DeltaBar(d) ELSE ListedChange[u]
  BY <1>3, AbsentAssumption DEF ListedChange, HasDelta
<1>7. ListedChange' = [ListedChange EXCEPT ![t] = DeltaBar(d)]
  <2>1. ListedChange' = [u \in Txn |-> ListedChange'[u]] /\ DOMAIN ListedChange = Txn
    BY DEF ListedChange
  <2> QED
    BY <1>6, <2>1
<1> QED
  BY <1>1, <1>2, <1>4, <1>5, <1>7, ReservedIsStoredSettled, WrittenIsStoredUndisturbed

LEMMA WriteIsStoredWrite ==
  ASSUME Inv, Inv', NEW o \in Op, WriteFirst(o) \/ WriteSecond(o)
  PROVE  \E t \in Txn : Stored!StoredWrite(t)
<1>1. CASE WriteFirst(o)
  <2>1. PICK t \in Txn, k \in Key, c \in {"in", "out"}, d \in Delta : WriteStarts(o, t, k, c, d)
    BY <1>1, FirstStepSets
  <2>2. /\ Stored!Open(t) /\ Stored!Working(t)
        /\ Stored!Settled(t, k) /\ Stored!Undisturbed(t, k)
        /\ ListedChange[t] = DeltaBar(pending[t])
        /\ ListedChange' = [ListedChange EXCEPT ![t] = DeltaBar(d)]
        /\ UNCHANGED <<ListedCommitted, MergeBar>>
    BY <2>1, WriteListed DEF WriteStarts
  <2>3. ListedChange' \in {ListedChange, [ListedChange EXCEPT ![t][k] = "same"]}
    <3>1. ListedChange = [ListedChange EXCEPT ![t] = ListedChange[t]]
      BY DEF ListedChange
    <3> QED
      BY <2>1, <2>2, <3>1 DEF WriteStarts
  <2>4. \/ (k \in Stored!SetView(t))' <=> k \in Stored!SetView(t)
        \/ (k \in Stored!SetView(t))' <=> c = "in"
    <3>1. StoredViewsAgree /\ StoredViewsAgree'
      BY StoredViews, PTL
    <3>2. /\ k \in Stored!SetView(t) <=> k \in View(t)
          /\ (k \in Stored!SetView(t))' <=> (k \in View(t))'
      BY <3>1 DEF StoredViewsAgree
    <3> QED
      BY <2>1, <3>2 DEF WriteStarts
  <2>5. Stored!WriteBegins(t, k, c)
    BY <2>1, <2>2, <2>3, <2>4 DEF WriteStarts, Stored!WriteBegins
  <2> QED
    BY <2>2, <2>5 DEF Stored!StoredWrite
<1>2. CASE WriteSecond(o)
  <2>1. PICK t \in Txn, k \in Key, c \in {"in", "out"}, d \in Delta : WriteEnds(o, t, k, c, d)
    BY <1>2, SecondStepSets
  <2>2. /\ Stored!Open(t) /\ Stored!Working(t)
        /\ Stored!Settled(t, k) /\ Stored!Undisturbed(t, k)
        /\ ListedChange[t] = DeltaBar(pending[t])
        /\ ListedChange' = [ListedChange EXCEPT ![t] = DeltaBar(d)]
        /\ UNCHANGED <<ListedCommitted, MergeBar>>
    BY <2>1, WriteListed DEF WriteEnds
  <2>3. ListedChange' = [ListedChange EXCEPT ![t][k] = c]
    BY <2>1, <2>2 DEF WriteEnds
  <2>4. Stored!Write(t, k, c)
    BY <2>1, <2>2, <2>3 DEF WriteEnds, Stored!Write
  <2> QED
    BY <2>2, <2>4 DEF Stored!StoredWrite
<1> QED
  BY <1>1, <1>2

LEMMA ReadReturnIsStoredRead ==
  ASSUME Inv, NEW o \in Op, ReadReturn(o)
  PROVE  (\E t \in Txn : Stored!StoredRead(t)) \/ UNCHANGED Stored!storedVars
<1>1. PICK t \in Txn : t = req[o].txn
  BY DEF ReadReturn, Inv, BTreeInv, Started
<1>2. CASE ~(Undecided(t) /\ req[o].kind # "isEmpty")
  BY <1>1, <1>2, StoredUnseenCall DEF ReadReturn
<1>3. CASE Undecided(t) /\ req[o].kind # "isEmpty"
  <2> DEFINE range == req[o].range
  <2>1. /\ pc[o] = "reading" /\ unread[o] = {} /\ Reading(o) /\ UNCHANGED ownerVars
        /\ told' = [told EXCEPT ![t] = [k \in Key |->
                      IF k \notin range THEN @[k]
                      ELSE IF k \in Result(o) THEN "present" ELSE "absent"]]
    BY <1>1, <1>3 DEF ReadReturn, Reading, ReadHeld
  <2>2. Stored!Open(t) /\ Stored!Working(t)
    BY <1>1, <1>3, UndecidedIsWorking
  <2>3. range \in SUBSET Key /\ range \subseteq reads[t]
    BY <1>1, <2>1 DEF Inv, BTreeInv, TypeOK, OrderInv, PermitsAreReserved
  <2>4. \A k \in range : Stored!Settled(t, k)
    BY <2>3, ReservedIsStoredSettled
  <2>5. \A k \in range : k \in Result(o) <=> k \in Stored!SetView(t)
    BY <1>1, <2>1, <2>3, ResultIsView, StoredViews DEF StoredViewsAgree, Inv
  <2>6. told' = [told EXCEPT ![t] = [k \in Key |->
                   IF k \notin range THEN @[k]
                   ELSE IF k \in Stored!SetView(t) THEN "present" ELSE "absent"]]
    BY <2>1, <2>5
  <2>7. UNCHANGED <<persistent, ListedChange, ListedCommitted, finalized, MergeBar>>
    BY <2>1 DEF ownerVars, ListedChange, ListedCommitted, MergeBar, HasDelta
  <2>8. Stored!Read(t, range)
    BY <2>2, <2>4, <2>6, <2>7 DEF Stored!Read
  <2> QED
    BY <2>2, <2>3, <2>7, <2>8 DEF Stored!StoredRead
<1> QED
  BY <1>2, <1>3

-----------------------------------------------------------------------------
(* Lifecycle steps.                                                        *)

LEMMA CommitIsStoredCommit ==
  ASSUME Inv, NEW t \in Txn, Commit(t)
  PROVE  Stored!StoredCommit(t)
<1>1. /\ life.phase = "idle" /\ t > finalized /\ committed[t] = Absent
      /\ life' = Decided("commit", t)
      /\ \A u \in Txn : committed'[u] = IF u # t THEN committed[u]
                                        ELSE IF pending[t] = Absent THEN NoDelta ELSE pending[t]
      /\ \A u \in Txn : pending'[u] = IF u = t THEN Absent ELSE pending[u]
      /\ UNCHANGED <<persistent, finalized, todo>>
      /\ told' = Forget({t})
  BY DEF Commit, CommitDecide, Inv, BTreeInv, TypeOK, OwnerTypeOK
<1>2. MergeBar = Stored!NoMerge /\ MergeBar' = MergeBar
  BY <1>1 DEF MergeBar, Decided, Stored!NoMerge
<1>3. pending[t] \in Delta \cup {Absent}
  BY DEF Inv, BTreeInv, TypeOK, OwnerTypeOK
<1>4. ListedChange' = ListedChange
  <2>1. \A u \in Txn : ListedChange'[u] = ListedChange[u]
    BY <1>1, <1>3, AbsentAssumption DEF ListedChange, HasDelta
  <2> QED
    BY <2>1 DEF ListedChange
<1>5. ListedCommitted' = ListedCommitted \cup {t}
  BY <1>1, <1>3, AbsentAssumption DEF ListedCommitted
<1>6. told' = [told EXCEPT ![t] = Stored!Unknown]
  BY <1>1 DEF Forget, Stored!Unknown, Inv, BTreeInv, TypeOK
<1>7. Stored!Open(t)
  BY <1>1 DEF Stored!Open, ListedCommitted
<1>8. Stored!SetCommit(t)
  BY <1>1, <1>4, <1>5, <1>6, <1>7 DEF Stored!SetCommit
<1> QED
  BY <1>2, <1>8 DEF Stored!StoredCommit, Stored!NoMerge

LEMMA RollbackIsStoredRollback ==
  ASSUME Inv, NEW t \in Txn, Rollback(t)
  PROVE  Stored!StoredRollback(t)
<1>1. /\ life.phase = "idle" /\ t > finalized /\ committed[t] = Absent
      /\ life' = Decided("rollback", t)
      /\ \A u \in Txn : pending'[u] = IF u = t THEN Absent ELSE pending[u]
      /\ UNCHANGED <<persistent, committed, finalized, todo>>
      /\ told' = Forget({t})
  BY DEF Rollback, RollbackDecide, Inv, BTreeInv, TypeOK, OwnerTypeOK
<1>2. MergeBar = Stored!NoMerge /\ MergeBar' = MergeBar
  BY <1>1 DEF MergeBar, Decided, Stored!NoMerge
<1>3. ListedCommitted' = ListedCommitted
  BY <1>1 DEF ListedCommitted
<1>4. ListedChange' = [ListedChange EXCEPT ![t] = [k \in Key |-> "same"]]
  <2>1. \A u \in Txn : ListedChange'[u] = IF u = t THEN [k \in Key |-> "same"] ELSE ListedChange[u]
    BY <1>1 DEF ListedChange, HasDelta
  <2>2. ListedChange' = [u \in Txn |-> ListedChange'[u]] /\ DOMAIN ListedChange = Txn
    BY DEF ListedChange
  <2> QED
    BY <2>1, <2>2
<1>5. told' = [told EXCEPT ![t] = Stored!Unknown]
  BY <1>1 DEF Forget, Stored!Unknown, Inv, BTreeInv, TypeOK
<1>6. Stored!Open(t)
  BY <1>1 DEF Stored!Open, ListedCommitted
<1>7. Stored!SetRollback(t)
  BY <1>1, <1>3, <1>4, <1>5, <1>6 DEF Stored!SetRollback
<1> QED
  BY <1>2, <1>7 DEF Stored!StoredRollback, Stored!NoMerge

\* The key operations of finalize are the changes of the versions it merges.
LEMMA ApplyThroughIsUnmerged ==
  ASSUME Inv, NEW t \in Txn
  PROVE  {<<s.txn, s.key>> : s \in ApplyThrough(t)} = Stored!Unmerged(t)
<1>1. ASSUME NEW s \in ApplyThrough(t)
      PROVE  <<s.txn, s.key>> \in Stored!Unmerged(t)
  <2>1. s.txn \in Txn /\ s.key \in Key /\ s.txn <= t /\ Covers(s.txn, s.key)
    BY <1>1 DEF ApplyThrough, KeyOp, Covers, Mentions
  <2>2. committed[s.txn] # Absent
    BY <2>1 DEF Covers, HasDelta
  <2>3. ListedChange[s.txn][s.key] # "same"
    BY <2>1, <2>2, ListedChangeIs DEF ListedIs
  <2> QED
    BY <2>1, <2>2, <2>3 DEF Stored!Unmerged, ListedCommitted
<1>2. ASSUME NEW u \in Txn, NEW k \in Key, <<u, k>> \in Stored!Unmerged(t)
      PROVE  \E s \in ApplyThrough(t) : s.txn = u /\ s.key = k
  <2>1. committed[u] # Absent /\ u <= t /\ ListedChange[u][k] # "same"
    BY <1>2 DEF Stored!Unmerged, ListedCommitted
  <2>2. Covers(u, k)
    BY <2>1, ListedChangeIs DEF ListedIs
  <2>3. Deciding(u, k) \in ApplyThrough(t)
    BY <2>1, <2>2 DEF Deciding, ApplyThrough, KeyOp, Covers, Mentions
  <2> QED
    BY <2>3 DEF Deciding
<1>3. \A p \in Stored!Unmerged(t) : \E u \in Txn, k \in Key : p = <<u, k>>
  BY DEF Stored!Unmerged, ListedCommitted
<1> QED
  BY <1>1, <1>2, <1>3

LEMMA FinalizeIsMergeBegin ==
  ASSUME Inv, NEW t \in Txn, Finalize(t)
  PROVE  Stored!MergeBegin(t)
<1>1. /\ life.phase = "idle" /\ t > finalized /\ todo' = ApplyThrough(t)
      /\ life' = [call |-> "finalize", txn |-> t, phase |-> "apply"]
      /\ UNCHANGED <<persistent, committed, pending, finalized>>
      /\ told' = Forget({u \in Txn : u <= t})
  BY DEF Finalize, FinalizeBegin
<1>2. MergeBar = Stored!NoMerge
  BY <1>1 DEF MergeBar, Stored!NoMerge
<1>3. MergeBar' = [phase |-> "apply", through |-> t, todo |-> Stored!Unmerged(t)]
  BY <1>1, ApplyThroughIsUnmerged DEF MergeBar
<1>4. ListedChange' = ListedChange /\ ListedCommitted' = ListedCommitted
  BY <1>1 DEF ListedChange, ListedCommitted, HasDelta
<1>5. told' = [u \in Txn |-> IF u <= t THEN Stored!Unknown ELSE told[u]]
  BY <1>1 DEF Forget, Stored!Unknown
<1> QED
  BY <1>1, <1>2, <1>3, <1>4, <1>5 DEF Stored!MergeBegin, Stored!NoMerge

LEMMA ApplyKeyIsMergeKey ==
  ASSUME Inv, NEW s \in todo, ApplyKey(s), UNCHANGED told
  PROVE  s.txn \in Txn /\ s.key \in Key /\ Stored!MergeKey(s.txn, s.key)
<1>1. /\ life.phase = "apply" /\ life.call = "finalize"
      /\ UNCHANGED <<committed, pending, finalized, life>>
      /\ \A r \in todo : ~AppliedBefore(r, s)
      /\ persistent' = IF s.kind = "insert" THEN persistent \cup {s.key}
                                            ELSE persistent \ {s.key}
      /\ todo' = todo \ {s}
      /\ todo \subseteq ApplyThrough(life.txn)
  BY DEF ApplyKey, Inv, ReadInv, ApplyInv, BTreeInv, FinalizeAlone
<1>2. \A r \in todo : /\ r \in KeyOp /\ Covers(r.txn, r.key)
                      /\ r.kind = "insert" <=> r.key \in committed[r.txn].inserts
  <2> SUFFICES ASSUME NEW r \in todo
               PROVE  /\ r \in KeyOp /\ Covers(r.txn, r.key)
                      /\ r.kind = "insert" <=> r.key \in committed[r.txn].inserts
    OBVIOUS
  <2>1. r \in KeyOp /\ HasDelta(r.txn)
        /\ r.key \in IF r.kind = "insert" THEN committed[r.txn].inserts ELSE committed[r.txn].deletes
    BY <1>1 DEF ApplyThrough
  <2>2. committed[r.txn].inserts \cap committed[r.txn].deletes = {}
    BY <2>1 DEF KeyOp, Inv, BTreeInv, DeltaDisjoint
  <2> QED
    BY <2>1, <2>2 DEF KeyOp, Covers, Mentions
<1>3. s.txn \in Txn /\ s.key \in Key /\ committed[s.txn] # Absent
  BY <1>2 DEF KeyOp, Covers, HasDelta
<1>4. \A r \in todo : r.txn = s.txn /\ r.key = s.key => r = s
  <2> SUFFICES ASSUME NEW r \in todo, r.txn = s.txn, r.key = s.key PROVE r = s
    OBVIOUS
  <2>1. r.kind = s.kind
    BY <1>2 DEF KeyOp
  <2> QED
    BY <1>2, <2>1 DEF KeyOp
<1>5. \A r \in todo : s.txn <= r.txn
  BY <1>1, <1>2, <1>3, TxnNat DEF AppliedBefore, KeyOp
<1> DEFINE before == {<<r.txn, r.key>> : r \in todo}
           after == {<<r.txn, r.key>> : r \in todo'}
<1>6. MergeBar = [phase |-> "apply", through |-> life.txn, todo |-> before]
  BY <1>1 DEF MergeBar
<1>7. MergeBar' = [phase |-> "apply", through |-> life.txn, todo |-> after]
  BY <1>1 DEF MergeBar
<1>8. after = before \ {<<s.txn, s.key>>}
  BY <1>1, <1>4
<1>9. ListedChange' = ListedChange /\ ListedCommitted' = ListedCommitted
  BY <1>1 DEF ListedChange, ListedCommitted, HasDelta
<1>10. ListedChange[s.txn][s.key] = "in" <=> s.kind = "insert"
  BY <1>2, <1>3, ListedChangeIs DEF ListedIs
<1>11. /\ <<s.txn, s.key>> \in MergeBar.todo
       /\ \A r \in MergeBar.todo : s.txn <= r[1]
  BY <1>5, <1>6
<1> HIDE DEF before, after
<1>12. MergeBar' = [MergeBar EXCEPT !.todo = @ \ {<<s.txn, s.key>>}]
  BY <1>6, <1>7, <1>8
<1>13. MergeBar.phase = "apply"
  BY <1>6
<1> QED
  BY <1>1, <1>3, <1>9, <1>10, <1>11, <1>12, <1>13 DEF Stored!MergeKey

LEMMA FinalizePublishIsMergePublish ==
  ASSUME Inv, FinalizePublish, UNCHANGED told
  PROVE  Stored!MergePublish
<1>1. /\ life.phase = "apply" /\ life.call = "finalize" /\ todo = {}
      /\ life'.phase = "release" /\ finalized' = life.txn
      /\ UNCHANGED <<persistent, todo>>
      /\ \A u \in Txn : /\ committed'[u] = IF u > life.txn THEN committed[u] ELSE Absent
                        /\ pending'[u] = IF u > life.txn THEN pending[u] ELSE Absent
  BY DEF FinalizePublish, Inv, BTreeInv, TypeOK, OwnerTypeOK, FinalizeAlone
<1>2. \A u \in Txn : u > life.txn <=> ~(u <= life.txn)
  BY TxnNat, LifeType DEF Inv, BTreeInv
<1>3. MergeBar = [phase |-> "apply", through |-> life.txn, todo |-> {}]
  BY <1>1 DEF MergeBar
<1>4. MergeBar' = Stored!NoMerge
  BY <1>1 DEF MergeBar, Stored!NoMerge
<1>5. ListedCommitted' = {u \in ListedCommitted : u > MergeBar.through}
  BY <1>1, <1>3 DEF ListedCommitted
<1>6. ListedChange' = [u \in Txn |-> IF u <= MergeBar.through THEN [k \in Key |-> "same"]
                                                             ELSE ListedChange[u]]
  <2>1. \A u \in Txn : ListedChange'[u] = IF u <= MergeBar.through THEN [k \in Key |-> "same"]
                                                                  ELSE ListedChange[u]
    BY <1>1, <1>2, <1>3 DEF ListedChange, HasDelta
  <2> QED
    BY <2>1 DEF ListedChange
<1> QED
  BY <1>1, <1>3, <1>4, <1>5, <1>6 DEF Stored!MergePublish

LEMMA LifecycleIsMaterialize ==
  ASSUME Inv, LifeStep \/ LifeFail
  PROVE  Stored!Materialize \/ UNCHANGED Stored!storedVars
<1>1. CASE \E s \in todo : ApplyKey(s)
  BY <1>1, ApplyKeyIsMergeKey DEF LifeStep, LifeFail, Stored!Materialize
<1>2. CASE FinalizePublish
  BY <1>2, FinalizePublishIsMergePublish DEF LifeStep, LifeFail, Stored!Materialize
<1>3. CASE FinalizeFail
  <2>1. /\ life.phase = "apply" /\ life.call = "finalize" /\ todo # {}
        /\ life' = [life EXCEPT !.phase = "failed"]
        /\ UNCHANGED <<persistent, committed, pending, finalized, todo, told>>
    BY <1>3 DEF FinalizeFail, LifeStep, LifeFail, Inv, BTreeInv, FinalizeAlone
  <2>2. /\ life'.phase = "failed" /\ life'.call = "finalize" /\ life'.txn = life.txn
    BY <2>1 DEF Inv, BTreeInv, TypeOK, OwnerTypeOK
  <2> DEFINE left == {<<s.txn, s.key>> : s \in todo}
  <2>3. MergeBar = [phase |-> "apply", through |-> life.txn, todo |-> left]
    BY <2>1 DEF MergeBar
  <2>4. MergeBar' = [phase |-> "failed", through |-> life.txn, todo |-> left]
    BY <2>1, <2>2 DEF MergeBar
  <2>5. left # {}
    BY <2>1
  <2> HIDE DEF left
  <2>6. UNCHANGED Stored!setVars
    BY <2>1 DEF Stored!setVars, ListedChange, ListedCommitted, HasDelta
  <2>7. /\ MergeBar' = [MergeBar EXCEPT !.phase = "failed"]
        /\ MergeBar.phase = "apply" /\ MergeBar.todo # {}
    BY <2>3, <2>4, <2>5
  <2>8. Stored!MergeFail
    BY <2>6, <2>7 DEF Stored!MergeFail
  <2> QED
    BY <2>8 DEF Stored!Materialize
<1>4. CASE LifeRelease \/ LifeReturn
  <2>1. UNCHANGED <<persistent, committed, pending, finalized, todo, told>>
    BY <1>4 DEF LifeRelease, LifeReturn, LifeStep, LifeFail
  <2>2. life.phase \notin {"apply", "failed"} /\ life'.phase \notin {"apply", "failed"}
    BY <1>4 DEF LifeRelease, LifeReturn, NoCall, Inv, BTreeInv, TypeOK, OwnerTypeOK
  <2>3. MergeBar' = MergeBar
    BY <2>2 DEF MergeBar
  <2> QED
    BY <2>1, <2>3, StoredUnseen
<1> QED
  BY <1>1, <1>2, <1>3, <1>4 DEF LifeStep, LifeFail

-----------------------------------------------------------------------------
LEMMA StoredSetStep ==
  ASSUME Inv, Inv', [Next]_vars
  PROVE  [Stored!StoredNext]_(Stored!storedVars)
<1>1. ASSUME NEW o \in Op, NEW t \in Txn, Start(o, t) PROVE UNCHANGED Stored!storedVars
  BY <1>1, StoredUnseenCall DEF Start, WriteReserve, ReadStart
<1>2. ASSUME NEW o \in Op, WriteNext(o)
      PROVE  (\E t \in Txn : Stored!StoredWrite(t)) \/ UNCHANGED Stored!storedVars
  <2>1. CASE WriteReject(o) \/ PendingLookup(o)
    BY <2>1, StoredUnseenCall DEF WriteReject, PendingLookup
  <2> QED
    BY <1>2, <2>1, PendingInstallStoredUnseen, WriteIsStoredWrite DEF WriteNext
<1>3. ASSUME NEW o \in Op, ReadNext(o) \/ Abandon(o)
      PROVE  (\E t \in Txn : Stored!StoredRead(t)) \/ UNCHANGED Stored!storedVars
  <2>1. CASE ReadReturn(o)
    BY <2>1, ReadReturnIsStoredRead
  <2>2. CASE ~ReadReturn(o)
    BY <1>3, <2>2, StoredUnseenCall DEF ReadNext, ReadAcquire, ReadSnapshot, ReadKey, Abandon
  <2> QED
    BY <2>1, <2>2
<1>4. ASSUME NEW t \in Txn, Commit(t) \/ Rollback(t) \/ Finalize(t)
      PROVE  Stored!StoredCommit(t) \/ Stored!StoredRollback(t) \/ Stored!MergeBegin(t)
  BY <1>4, CommitIsStoredCommit, RollbackIsStoredRollback, FinalizeIsMergeBegin
<1>5. ASSUME NEW t \in Txn, CloseTxn(t) \/ CommitAgain(t) \/ FinalizeNoop(t)
      PROVE  UNCHANGED Stored!storedVars
  <2>1. CASE CloseTxn(t)
    BY <2>1, StoredUnseenCall DEF CloseTxn
  <2>2. CASE CommitAgain(t) \/ FinalizeNoop(t)
    <3>1. /\ UNCHANGED <<persistent, committed, pending, finalized, todo, told>>
          /\ life.phase = "idle" /\ life'.phase = "ok"
      BY <2>2 DEF CommitAgain, CommitDuplicate, FinalizeNoop, FinalizeStale
    <3>2. MergeBar' = MergeBar
      BY <3>1 DEF MergeBar
    <3> QED
      BY <3>1, <3>2, StoredUnseen
  <2> QED
    BY <1>5, <2>1, <2>2
<1>6. CASE LifeStep \/ LifeFail
  BY <1>6, LifecycleIsMaterialize DEF Stored!StoredNext
<1>7. CASE UNCHANGED vars
  BY <1>7, StoredUnseenCall DEF vars
<1> QED
  BY <1>1, <1>2, <1>3, <1>4, <1>5, <1>6, <1>7 DEF Next, Decide, Stored!StoredNext

\* The BTree implements the set whose storage a finalize rewrites key by key and delta
\* by delta before it prunes what it has merged: whoever reads that storage and the
\* listed deltas of a BTree meets no other states than those of the StoredSet.
THEOREM BTreeImplementsStoredSet == Spec => ImplementsStoredSet
<1>1. Init => Stored!StoredInit
  BY StoredBarInit
<1>2. Inv /\ Inv' /\ [Next]_vars => [Stored!StoredNext]_(Stored!storedVars)
  BY StoredSetStep
<1>3. Spec => []Inv
  BY ReadInvariance DEF Inv
<1> QED
  BY <1>1, <1>2, <1>3, PTL DEF Spec, Stored!StoredSpec, ImplementsStoredSet
=============================================================================
