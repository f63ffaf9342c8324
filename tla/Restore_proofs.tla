----------------------------- MODULE Restore_proofs -----------------------------
(***************************************************************************)
(* A restoration keeps every promise of the set, for any transactions and  *)
(* keys, whatever others decide, and a finalize in flight writes to        *)
(* storage, while it is built.                                             *)
(*                                                                         *)
(* StoredInv speaks of the set and its storage alone.  While a finalize    *)
(* rewrites storage, whoever reads reads the same: each key it has touched *)
(* is decided by a delta that is still listed.  MergeInv says that when    *)
(* nothing is left to apply storage holds what the deltas say, so that to  *)
(* prune them is the atomic SetFinalize.                                   *)
(*                                                                         *)
(* The delta that is installed is as good as the workspace it was built    *)
(* in, a copy of storage before, within and after such a rewriting, with   *)
(* deltas that are applied to the copy a second time.  BuiltInv says why   *)
(* it is right all the same: a key that no delta touches is the same in    *)
(* storage before and after, and of any other the last delta decides.      *)
(***************************************************************************)
EXTENDS Restore, TransactionalSet_proofs

-----------------------------------------------------------------------------
(* The set with its storage.                                               *)

\* The versions that a finalize in flight merges, and the keys it has still to write.
Low == {u \in committed : u <= merge.through}
Left(k) == {u \in Txn : <<u, k>> \in merge.todo}

\* A key with nothing left to apply is in storage what the merged versions make it; of
\* any other the last version is left.
MergedAt(k) ==
  IF Left(k) = {} THEN k \in canon <=> After(Low, k)
                  ELSE \A v \in Changers(Low, k) : \E u \in Left(k) : v <= u

MergeInv ==
  /\ merge \in [phase : {"idle", "apply", "failed"}, through : Txn \cup {0},
                todo : SUBSET (Txn \X Key)]
  /\ IF merge.phase = "idle" THEN merge.through = 0
                             ELSE merge.through \in Txn /\ merge.through > frontier
  /\ \A u \in Txn, k \in Key :
       <<u, k>> \in merge.todo => u \in Changers(Low, k)
  /\ \A u \in Txn : u <= merge.through => told[u] = Unknown
  /\ merge.phase = "apply" => \A k \in Key : MergedAt(k)

StoredInv == PromiseInv /\ MergeInv

LEMMA ThroughNat ==
  ASSUME StoredInv
  PROVE  merge.through \in Nat /\ committed \subseteq Txn /\ Txn \subseteq Nat
<1>1. merge.through = 0 \/ merge.through \in Txn
  BY DEF StoredInv, MergeInv
<1>2. committed \subseteq Txn
  BY DEF StoredInv, PromiseInv, SetTypeOK
<1>3. Txn \subseteq Nat
  BY OrderAssumption
<1>4. CASE merge.through \in Txn
  BY <1>2, <1>3, <1>4
<1>5. CASE merge.through = 0
  <2>1. merge.through \in Nat
    BY <1>5
  <2> QED
    BY <1>2, <1>3, <2>1
<1> QED
  BY <1>1, <1>4, <1>5

LEMMA NoMergeIsFine ==
  ASSUME merge' = NoMerge
  PROVE  MergeInv'
<1>1. \A u \in Txn : ~(u <= 0)
  BY OrderAssumption
<1> QED
  BY <1>1 DEF NoMerge, MergeInv

\* Steps of transactions beyond the cutoff.
LEMMA MergeStays ==
  ASSUME StoredInv, UNCHANGED <<canon, committed, frontier, merge>>,
         \A u \in committed : change'[u] = change[u],
         \A u \in Txn : u <= merge.through => told'[u] = told[u]
  PROVE  MergeInv'
<1>1. Low' = Low
  BY DEF Low
<1>2. \A k \in Key : /\ Left(k)' = Left(k)
                      /\ Changers(Low, k)' = Changers(Low, k)
                      /\ \A u \in Changers(Low, k) : change'[u] = change[u]
  BY <1>1 DEF Left, Changers, Low
<1>3. \A k \in Key : MergedAt(k)' <=> MergedAt(k)
  BY <1>2 DEF MergedAt, After
<1> QED
  BY <1>2, <1>3 DEF StoredInv, MergeInv

LEMMA StoredInitInv == StoredInit => StoredInv
<1> SUFFICES ASSUME StoredInit PROVE StoredInv
  OBVIOUS
<1>1. PromiseInv
  BY PromiseInit DEF StoredInit
<1>2. \A u \in Txn : ~(u <= 0)
  BY OrderAssumption
<1>3. merge = NoMerge
  BY DEF StoredInit
<1>4. MergeInv
  BY <1>2, <1>3 DEF NoMerge, MergeInv
<1> QED
  BY <1>1, <1>4 DEF StoredInv

LEMMA MergeBeginKeeps ==
  ASSUME StoredInv, NEW t \in Txn, MergeBegin(t)
  PROVE  StoredInv'
<1> USE DEF StoredInv, PromiseInv
<1>1. \A u \in Txn : told'[u] = IF u <= t THEN Unknown ELSE told[u]
  BY DEF MergeBegin
<1>2. \A u \in Txn, k \in Key : told'[u][k] # "unknown" => told'[u][k] = told[u][k]
  BY <1>1 DEF Unknown
<1>3. SetTypeOK'
  BY DEF MergeBegin, SetTypeOK, Unknown, Answer
<1>4. /\ \A u \in Txn : Open(u)' <=> Open(u)
      /\ \A u \in Txn, k \in Key : (k \in SetView(u))' <=> k \in SetView(u)
  BY DEF MergeBegin, Open, SetView, After, Changers, Basis
<1>5. ToldAreOpen' /\ EarlierAreSettled' /\ PromiseKept'
  BY <1>2, <1>4 DEF ToldAreOpen, EarlierAreSettled, PromiseKept, MergeBegin
<1>6. /\ merge'.phase = "apply" /\ merge'.through = t /\ merge'.todo = Unmerged(t)
      /\ merge' \in [phase : {"idle", "apply", "failed"}, through : Txn \cup {0},
                     todo : SUBSET (Txn \X Key)]
  BY DEF MergeBegin, Unmerged, SetTypeOK
<1>7. ASSUME NEW k \in Key
      PROVE  Left(k)' = Changers(Low, k)' /\ MergedAt(k)'
  <2>1. Low' = {u \in committed : u <= t}
    BY <1>6 DEF MergeBegin, Low
  <2>2. Changers(Low, k)' = {u \in committed : u <= t /\ change[u][k] # "same"}
    BY <2>1 DEF Changers, MergeBegin
  <2>3. Left(k)' = {u \in Txn : <<u, k>> \in Unmerged(t)}
    BY <1>6 DEF Left
  <2>4. \A u \in Txn : <<u, k>> \in Unmerged(t) <=> u \in committed /\ u <= t /\ change[u][k] # "same"
    BY DEF Unmerged
  <2>5. Left(k)' = Changers(Low, k)'
    BY <2>2, <2>3, <2>4 DEF SetTypeOK
  <2>6. Changers(Low, k)' = {} => (k \in canon' <=> After(Low, k)')
    BY DEF After
  <2>7. \A v \in Changers(Low, k)' : v <= v
    BY <2>2, ThroughNat
  <2> QED
    BY <2>5, <2>6, <2>7 DEF MergedAt
<1>8. MergeInv'
  <2>1. \A u \in Txn, k \in Key : <<u, k>> \in merge'.todo => u \in Changers(Low, k)'
    BY <1>7 DEF Left
  <2>2. merge'.through \in Txn /\ merge'.through > frontier'
    BY <1>6 DEF MergeBegin
  <2> QED
    BY <1>1, <1>6, <1>7, <2>1, <2>2 DEF MergeInv
<1> QED
  BY <1>3, <1>5, <1>8

\* What is read beyond the cutoff of a finalize does not move with storage.
LEMMA MergeKeyShowsNothing ==
  ASSUME StoredInv, NEW u \in Txn, NEW k \in Key, MergeKey(u, k),
         NEW S, Low \subseteq S, NEW j \in Key
  PROVE  After(S, j)' <=> After(S, j)
<1>1. Changers(S, j)' = Changers(S, j)
  BY DEF MergeKey, Changers
<1>2. CASE j = k
  <2>1. u \in Changers(Low, k)
    BY DEF MergeKey, StoredInv, MergeInv
  <2>2. Changers(S, j) # {}
    BY <1>2, <2>1 DEF Changers
  <2> QED
    BY <1>1, <2>2 DEF After, MergeKey
<1>3. CASE j # k
  BY <1>1, <1>3 DEF After, MergeKey
<1> QED
  BY <1>2, <1>3

LEMMA MergeKeyMerges ==
  ASSUME StoredInv, NEW u \in Txn, NEW k \in Key, MergeKey(u, k), NEW j \in Key
  PROVE  MergedAt(j)'
<1>1. /\ Low' = Low
      /\ merge.phase = "apply" /\ MergedAt(j)
      /\ Changers(Low, j)' = Changers(Low, j)
      /\ \A v \in Txn : v \in Left(j)' <=> v \in Left(j) /\ ~(v = u /\ j = k)
  BY DEF MergeKey, Low, Left, Changers, StoredInv, MergeInv
<1>2. After(Low, j)' <=> After(Low, j)
  <2>1. PICK S : S = Low
    OBVIOUS
  <2>2. After(S, j)' <=> After(S, j)
    BY <2>1, MergeKeyShowsNothing
  <2>3. After(Low, j)' <=> After(S, j)'
    BY <1>1, <2>1 DEF After, Changers
  <2> QED
    BY <2>1, <2>2, <2>3
<1>3. CASE j # k
  <2>1. Left(j)' = Left(j)
    BY <1>1, <1>3 DEF Left
  <2>2. j \in canon' <=> j \in canon
    BY <1>3 DEF MergeKey
  <2> QED
    BY <1>1, <1>2, <2>1, <2>2 DEF MergedAt
<1>4. CASE j = k
  <2>1. /\ u \in Left(j) /\ u \in Changers(Low, j)
        /\ \A v \in Left(j) : u <= v
    BY <1>4 DEF MergeKey, Left, StoredInv, MergeInv
  <2>2. \A v \in Changers(Low, j) : \E w \in Left(j) : v <= w
    BY <1>1, <2>1 DEF MergedAt
  <2>3. Left(j)' = Left(j) \ {u}
    BY <1>1, <1>4 DEF Left
  <2>4. Changers(Low, j) \subseteq Nat /\ Left(j) \subseteq Nat
    BY OrderAssumption DEF Changers, Low, Left, StoredInv, PromiseInv, SetTypeOK
  <2>5. CASE Left(j) = {u}
    <3>1. \A v \in Changers(Low, j) : v <= u
      BY <2>2, <2>5
    <3>2. After(Low, j) <=> change[u][j] = "in"
      <4>1. \A w \in Changers(Low, j) : (\A v \in Changers(Low, j) : v <= w) <=> w = u
        BY <2>1, <2>4, <3>1
      <4> QED
        BY <2>1, <4>1 DEF After
    <3>3. j \in canon' <=> change[u][j] = "in"
      BY <1>4 DEF MergeKey
    <3> QED
      BY <1>2, <2>3, <2>5, <3>2, <3>3 DEF MergedAt
  <2>6. CASE Left(j) # {u}
    <3>1. PICK r \in Left(j) : r # u
      BY <2>1, <2>6
    <3>2. ASSUME NEW v \in Changers(Low, j) PROVE \E w \in Left(j) \ {u} : v <= w
      <4>1. PICK w \in Left(j) : v <= w
        BY <2>2
      <4>2. CASE w = u
        BY <2>1, <2>4, <3>1, <4>1, <4>2
      <4> QED
        BY <4>1, <4>2
    <3> QED
      BY <1>1, <2>3, <3>1, <3>2 DEF MergedAt
  <2> QED
    BY <2>5, <2>6
<1> QED
  BY <1>3, <1>4

LEMMA MergeKeyKeeps ==
  ASSUME StoredInv, NEW u \in Txn, NEW k \in Key, MergeKey(u, k)
  PROVE  StoredInv'
<1> USE DEF StoredInv, PromiseInv
<1>1. SetTypeOK' /\ UNCHANGED <<change, committed, frontier, told>>
  BY DEF MergeKey, SetTypeOK
<1>2. ToldAreOpen' /\ EarlierAreSettled'
  BY <1>1 DEF ToldAreOpen, EarlierAreSettled, Open
<1>3. PromiseKept'
  <2> SUFFICES ASSUME NEW t \in Txn, NEW j \in Key, told[t][j] # "unknown"
               PROVE  told[t][j] = "present" <=> (j \in SetView(t))'
    BY <1>1 DEF PromiseKept
  <2>1. ~(t <= merge.through)
    BY DEF MergeInv, Unknown
  <2>2. Low \subseteq Basis(t)
    BY <2>1, ThroughNat DEF Low, Basis
  <2>3. PICK S : S = Basis(t)
    OBVIOUS
  <2>4. After(S, j)' <=> After(S, j)
    BY <2>2, <2>3, MergeKeyShowsNothing
  <2>5. (j \in SetView(t))' <=> j \in SetView(t)
    <3>1. Basis(t)' = S
      BY <1>1, <2>3 DEF Basis
    <3> QED
      BY <2>3, <2>4, <3>1 DEF SetView, After, Changers
  <2> QED
    BY <2>5 DEF PromiseKept
<1>4. MergeInv'
  <2>1. /\ merge' \in [phase : {"idle", "apply", "failed"}, through : Txn \cup {0},
                        todo : SUBSET (Txn \X Key)]
        /\ merge'.phase = "apply" /\ merge.phase = "apply"
        /\ merge'.through = merge.through /\ merge'.todo \subseteq merge.todo
    BY DEF MergeKey, MergeInv
  <2>2. \A j \in Key : Changers(Low, j)' = Changers(Low, j)
    BY <1>1, <2>1 DEF Changers, Low
  <2>3. \A j \in Key : MergedAt(j)'
    BY MergeKeyMerges
  <2> QED
    BY <1>1, <2>1, <2>2, <2>3 DEF MergeInv
<1> QED
  BY <1>1, <1>2, <1>3, <1>4

\* With everything in storage, to prune and to advance the frontier is the atomic
\* finalize.
LEMMA PublishIsFinalize ==
  ASSUME StoredInv, MergePublish
  PROVE  merge.through \in Txn /\ SetFinalize(merge.through)
<1>1. merge.through \in Txn /\ merge.through > frontier
  BY DEF MergePublish, StoredInv, MergeInv
<1>2. \A k \in Key : k \in canon <=> After(Low, k)
  BY DEF MergePublish, StoredInv, MergeInv, MergedAt, Left
<1>3. canon' = {k \in Key : After({u \in committed : u <= merge.through}, k)}
  BY <1>2 DEF Low, MergePublish, StoredInv, PromiseInv, SetTypeOK
<1>4. told' = [u \in Txn |-> IF u <= merge.through THEN Unknown ELSE told[u]]
  BY DEF MergePublish, StoredInv, MergeInv, PromiseInv, SetTypeOK
<1> QED
  BY <1>1, <1>3, <1>4 DEF SetFinalize, MergePublish

LEMMA PublishKeeps ==
  ASSUME StoredInv, MergePublish
  PROVE  StoredInv'
<1>1. MergeInv'
  BY NoMergeIsFine DEF MergePublish
<1>2. PromiseInv'
  BY PublishIsFinalize, FinalizeKeeps DEF StoredInv
<1> QED
  BY <1>1, <1>2 DEF StoredInv

LEMMA MergeFailKeeps ==
  ASSUME StoredInv, MergeFail
  PROVE  StoredInv'
<1>1. PromiseInv'
  BY PromiseStep DEF MergeFail, StoredInv
<1>2. /\ merge'.phase = "failed" /\ merge'.through = merge.through /\ merge'.todo = merge.todo
      /\ merge' \in [phase : {"idle", "apply", "failed"}, through : Txn \cup {0},
                     todo : SUBSET (Txn \X Key)]
      /\ merge.phase = "apply" /\ UNCHANGED <<change, committed, frontier, told>>
  BY DEF MergeFail, setVars, StoredInv, MergeInv
<1>3. \A k \in Key : Changers(Low, k)' = Changers(Low, k)
  BY <1>2 DEF Changers, Low
<1>4. MergeInv'
  BY <1>2, <1>3 DEF StoredInv, MergeInv
<1> QED
  BY <1>1, <1>4 DEF StoredInv

LEMMA StoredWriteKeeps ==
  ASSUME StoredInv, NEW t \in Txn, StoredWrite(t)
  PROVE  StoredInv'
<1>1. PromiseInv'
  BY WriteBeginsKeeps, WriteKeeps DEF StoredWrite, StoredInv
<1>2. PICK k \in Key, c \in {"in", "out"} : WriteBegins(t, k, c) \/ Write(t, k, c)
  BY DEF StoredWrite
<1>3. /\ UNCHANGED <<canon, committed, frontier, merge>> /\ t \notin committed
      /\ t > merge.through
  BY <1>2 DEF StoredWrite, Working, WriteBegins, Write, Open
<1>4. \A u \in Txn : u # t => change'[u] = change[u] /\ told'[u] = told[u]
  BY <1>2 DEF WriteBegins, Write, StoredInv, PromiseInv, SetTypeOK
<1>5. \A u \in committed : change'[u] = change[u]
  BY <1>3, <1>4 DEF StoredInv, PromiseInv, SetTypeOK
<1>6. \A u \in Txn : u <= merge.through => told'[u] = told[u]
  BY <1>3, <1>4, ThroughNat
<1> QED
  BY <1>1, <1>3, <1>5, <1>6, MergeStays DEF StoredInv

LEMMA StoredReadKeeps ==
  ASSUME StoredInv, NEW t \in Txn, StoredRead(t)
  PROVE  StoredInv'
<1>1. PromiseInv'
  BY ReadKeeps DEF StoredRead, StoredInv
<1>2. /\ UNCHANGED <<canon, change, committed, frontier, merge>>
      /\ t > merge.through
      /\ \A u \in Txn : u # t => told'[u] = told[u]
  BY DEF StoredRead, Working, Read, StoredInv, PromiseInv, SetTypeOK
<1>3. \A u \in Txn : u <= merge.through => told'[u] = told[u]
  BY <1>2, ThroughNat
<1> QED
  BY <1>1, <1>2, <1>3, MergeStays DEF StoredInv

\* Nothing is being merged while a transaction is decided.
LEMMA StoredDecisionKeeps ==
  ASSUME StoredInv, NEW t \in Txn, StoredCommit(t) \/ StoredRollback(t)
  PROVE  StoredInv'
<1>1. PromiseInv'
  BY CommitKeeps, RollbackKeeps DEF StoredCommit, StoredRollback, StoredInv
<1>2. merge'.phase = "idle" /\ merge'.through = 0
      /\ merge' \in [phase : {"idle", "apply", "failed"}, through : Txn \cup {0},
                     todo : SUBSET (Txn \X Key)]
  BY DEF StoredCommit, StoredRollback, StoredInv, MergeInv
<1>3. \A u \in Txn : ~(u <= 0)
  BY OrderAssumption
<1>4. Low = {} /\ Low' = {}
  BY <1>2, <1>3 DEF Low, StoredCommit, StoredRollback, StoredInv, PromiseInv, SetTypeOK,
                     SetCommit, SetRollback
<1>5. \A u \in Txn, k \in Key : <<u, k>> \notin merge'.todo
  BY <1>4 DEF Changers, StoredCommit, StoredRollback, StoredInv, MergeInv
<1>6. MergeInv'
  BY <1>2, <1>3, <1>5 DEF MergeInv
<1> QED
  BY <1>1, <1>6 DEF StoredInv

LEMMA StoredStays ==
  ASSUME StoredInv, UNCHANGED storedVars
  PROVE  StoredInv'
<1>1. PromiseInv'
  BY PromiseStep DEF storedVars, StoredInv
<1>2. MergeInv'
  BY MergeStays DEF storedVars, setVars, StoredInv
<1> QED
  BY <1>1, <1>2 DEF StoredInv

LEMMA StoredStep == StoredInv /\ [StoredNext]_storedVars => StoredInv'
BY StoredWriteKeeps, StoredReadKeeps, StoredDecisionKeeps, MergeBeginKeeps, MergeKeyKeeps,
   PublishKeeps, MergeFailKeeps, StoredStays DEF StoredNext, Materialize

\* A finalize that rewrites storage key by key, prunes afterwards and may give up
\* half-way keeps every promise, for any number of transactions and keys.
THEOREM StoredKeepsPromises == StoredSpec => []PromiseKept
<1>1. StoredInv => PromiseKept
  BY DEF StoredInv, PromiseInv
<1> QED
  BY <1>1, StoredInitInv, StoredStep, PTL DEF StoredSpec

-----------------------------------------------------------------------------
(* The restoration.                                                        *)

\* What a transaction reads beneath its own change.
Below(t) == {u \in committed : u <= t}
Beneath(t, k) == After(Below(t), k)

\* The deltas still to be applied to the workspace that touch k, and whether k is
\* in its deletes once they are.
LayersAt(k) == {d \in work.layers : d.delta[k] # "same"}
Deleted(k) ==
  \/ LayersAt(k) = {} /\ k \in work.deletes
  \/ \E d \in LayersAt(k) : /\ \A e \in LayersAt(k) : e.txn <= d.txn
                            /\ d.delta[k] = "in"

WorkTypeOK ==
  /\ work \in [phase : {"idle", "seed", "apply", "install"}, txn : Txn \cup {0},
               todo : SUBSET Key, layers : SUBSET [txn : Txn, delta : [Key -> Change]],
               inserts : SUBSET Key, deletes : SUBSET Key]
  /\ work.phase # "idle" => work.txn \in Txn
  /\ \A d, e \in work.layers : d.txn = e.txn => d = e
  /\ work.phase \in {"apply", "install"} => work.todo = {}
  /\ work.deletes \cap work.todo = {}

Restoring(phases) == work.phase \in phases /\ Open(work.txn)

\* The reservation of all keys: no earlier open transaction has a change, no later
\* one has a change or an answer.
AloneInv ==
  Restoring({"seed", "apply", "install"}) =>
    \A k \in Key : Settled(work.txn, k) /\ Undisturbed(work.txn, k)

\* Until the workspace is built: a key that is still to be copied and has no delta
\* there has no committed delta beneath the transaction; of any other the workspace
\* will say what the transaction reads.
BuiltInv ==
  Restoring({"seed", "apply"}) =>
    \A k \in Key :
      IF k \in work.todo /\ LayersAt(k) = {}
        THEN Changers(Below(work.txn), k) = {}
        ELSE Deleted(k) <=> Beneath(work.txn, k)

\* Then: what it reads is inserted or deleted by the delta.
CoveredInv ==
  Restoring({"install"}) =>
    \A k \in Key : Beneath(work.txn, k) => k \in work.inserts \cup work.deletes

\* A finalize in flight stops before a transaction that restores.
BeyondInv == Restoring({"seed", "apply", "install"}) => merge.through < work.txn

RestoreInv == WorkTypeOK /\ AloneInv /\ BeyondInv /\ BuiltInv /\ CoveredInv


-----------------------------------------------------------------------------
LEMMA RestoreInitInv == RestoreInit => StoredInv /\ RestoreInv
<1> SUFFICES ASSUME RestoreInit PROVE StoredInv /\ RestoreInv
  OBVIOUS
<1>1. StoredInv
  BY StoredInitInv DEF RestoreInit
<1>2. work = NoWork
  BY DEF RestoreInit
<1>3. RestoreInv
  BY <1>2 DEF NoWork, RestoreInv, WorkTypeOK, AloneInv, BeyondInv, BuiltInv, CoveredInv, Restoring
<1> QED
  BY <1>1, <1>3

\* Without a restoration in flight there is nothing to show.
LEMMA IdleIsFine ==
  ASSUME work' = NoWork
  PROVE  RestoreInv'
BY DEF NoWork, RestoreInv, WorkTypeOK, AloneInv, BeyondInv, BuiltInv, CoveredInv, Restoring

\* A step of the workspace leaves what the set shows.
LEMMA SetStays ==
  ASSUME UNCHANGED storedVars, NEW t \in Txn
  PROVE  /\ Open(t)' <=> Open(t)
         /\ \A k \in Key : /\ Beneath(t, k)' <=> Beneath(t, k)
                           /\ Changers(Below(t), k)' = Changers(Below(t), k)
                           /\ Settled(t, k)' <=> Settled(t, k)
                           /\ Undisturbed(t, k)' <=> Undisturbed(t, k)
         /\ merge' = merge
BY DEF storedVars, setVars, Open, Beneath, After, Changers, Below, Settled, Undisturbed

-----------------------------------------------------------------------------
\* What a step of the set must leave alone for the workspace to stay right.
WorkHolds(t) ==
  \A k \in Key : /\ (Settled(t, k) /\ Undisturbed(t, k))'
                 /\ Beneath(t, k)' <=> Beneath(t, k)
                 /\ Changers(Below(t), k) = {} => Changers(Below(t), k)' = {}

LEMMA AroundHolds ==
  ASSUME RestoreInv, UNCHANGED work,
         NEW t \in Txn, t = work.txn,
         Restoring({"seed", "apply", "install"})' =>
           Restoring({"seed", "apply", "install"}) /\ WorkHolds(t) /\ merge'.through < t
  PROVE  RestoreInv'
<1>1. WorkTypeOK'
  BY DEF RestoreInv, WorkTypeOK
<1>2. \A k \in Key : Deleted(k)' <=> Deleted(k)
  BY DEF Deleted, LayersAt
<1>3. \A k \in Key : LayersAt(k)' = LayersAt(k)
  BY DEF LayersAt
<1>4. CASE ~Restoring({"seed", "apply", "install"})'
  BY <1>1, <1>4 DEF RestoreInv, AloneInv, BeyondInv, BuiltInv, CoveredInv, Restoring
<1>5. CASE Restoring({"seed", "apply", "install"})'
  <2>1. Open(t) /\ WorkHolds(t)
    BY <1>5 DEF Restoring
  <2>2. AloneInv'
    BY <2>1 DEF AloneInv, WorkHolds
  <2>3. BuiltInv'
    BY <2>1, <1>2, <1>3 DEF RestoreInv, BuiltInv, WorkHolds, Restoring
  <2>4. CoveredInv'
    BY <2>1 DEF RestoreInv, CoveredInv, WorkHolds, Restoring
  <2>5. BeyondInv'
    BY <1>5 DEF BeyondInv
  <2> QED
    BY <1>1, <2>2, <2>3, <2>4, <2>5 DEF RestoreInv
<1> QED
  BY <1>4, <1>5

\* A read changes promises alone, and not those of a later transaction.
LEMMA ReadHolds ==
  ASSUME PromiseInv, NEW t \in Txn, NEW u \in Txn, NEW range \in SUBSET Key, Read(u, range),
         ~(u > t), \A k \in Key : Settled(t, k) /\ Undisturbed(t, k)
  PROVE  (Open(t)' => Open(t)) /\ WorkHolds(t)
<1>1. \A v \in Txn : v # u => told'[v] = told[v]
  BY DEF Read, PromiseInv, SetTypeOK
<1> QED
  BY <1>1 DEF Read, WorkHolds, Settled, Undisturbed, Beneath, Below, After, Changers, Open

\* A commit of an earlier transaction commits no change.
LEMMA CommitHolds ==
  ASSUME PromiseInv, NEW t \in Txn, NEW u \in Txn, SetCommit(u), Open(t)',
         \A k \in Key : Settled(t, k) /\ Undisturbed(t, k)
  PROVE  Open(t) /\ WorkHolds(t)
<1>1. u # t /\ Open(t)
  BY DEF SetCommit, Open
<1>2. \A v \in Txn : /\ Open(v)' => Open(v)
                     /\ \A k \in Key : told[v][k] = "unknown" => told'[v][k] = "unknown"
  BY DEF SetCommit, Open, Unknown, PromiseInv, SetTypeOK
<1>3. \A k \in Key : (Settled(t, k) /\ Undisturbed(t, k))'
  BY <1>2 DEF Settled, Undisturbed, SetCommit
<1>4. \A k \in Key : Changers(Below(t), k)' = Changers(Below(t), k)
  <2>1. CASE u < t
    BY <2>1 DEF Changers, Below, SetCommit, Settled
  <2>2. CASE ~(u < t)
    BY <1>1, <2>2, OrderAssumption DEF Changers, Below, SetCommit
  <2> QED
    BY <2>1, <2>2
<1>5. \A k \in Key : Beneath(t, k)' <=> Beneath(t, k)
  BY <1>4 DEF Beneath, After, SetCommit
<1> QED
  BY <1>1, <1>3, <1>4, <1>5 DEF WorkHolds

LEMMA RollbackHolds ==
  ASSUME PromiseInv, NEW t \in Txn, NEW u \in Txn, SetRollback(u),
         \A k \in Key : Settled(t, k) /\ Undisturbed(t, k)
  PROVE  (Open(t)' => Open(t)) /\ WorkHolds(t)
<1>1. \A v \in Txn, k \in Key :
        /\ Open(v)' <=> Open(v)
        /\ told[v][k] = "unknown" => told'[v][k] = "unknown"
        /\ change[v][k] = "same" => change'[v][k] = "same"
        /\ v \in committed => change'[v] = change[v]
  BY DEF SetRollback, Open, Unknown, PromiseInv, SetTypeOK
<1>2. \A k \in Key : (Settled(t, k) /\ Undisturbed(t, k))'
  BY <1>1 DEF Settled, Undisturbed
<1>3. \A k \in Key : /\ Changers(Below(t), k)' = Changers(Below(t), k)
                     /\ \A v \in Below(t) : change'[v][k] = change[v][k]
  BY <1>1 DEF Changers, Below, SetRollback, PromiseInv, SetTypeOK
<1>4. \A k \in Key : Beneath(t, k)' <=> Beneath(t, k)
  BY <1>3 DEF Beneath, After, SetRollback, Changers
<1>5. Open(t)' => Open(t)
  BY DEF SetRollback, Open
<1>6. \A k \in Key : Changers(Below(t), k)' = Changers(Below(t), k)
  BY <1>3
<1> QED
  BY <1>2, <1>4, <1>5, <1>6 DEF WorkHolds

\* What is read beneath a transaction is the same after an earlier one is finalized.
LEMMA FinalizeHolds ==
  ASSUME PromiseInv, NEW t \in Txn, NEW u \in Txn, SetFinalize(u), Open(t)',
         \A k \in Key : Settled(t, k) /\ Undisturbed(t, k)
  PROVE  Open(t) /\ WorkHolds(t)
<1>1. u < t /\ Open(t)
  BY OrderAssumption DEF SetFinalize, Open, PromiseInv, SetTypeOK
<1>2. \A v \in Txn, k \in Key :
        /\ Open(v)' => Open(v)
        /\ told[v][k] = "unknown" => told'[v][k] = "unknown"
        /\ change[v][k] = "same" => change'[v][k] = "same"
  BY OrderAssumption DEF SetFinalize, Open, Unknown, PromiseInv, SetTypeOK
<1>3. \A k \in Key : (Settled(t, k) /\ Undisturbed(t, k))'
  BY <1>2 DEF Settled, Undisturbed
<1>4. \A k \in Key : Changers(Below(t), k) = {} => Changers(Below(t), k)' = {}
  BY <1>2 DEF Changers, Below, SetFinalize, PromiseInv, SetTypeOK
<1>5. ASSUME NEW k \in Key PROVE Beneath(t, k)' <=> Beneath(t, k)
  <2>1. PICK S \in SUBSET Txn : S = Below(t)
    BY DEF Below, PromiseInv, SetTypeOK
  <2>2. PICK R : R = Below(t)'
    OBVIOUS
  <2>3. \A v \in Txn : v <= u => (v \in S <=> v \in committed)
    BY <1>1, <2>1, OrderAssumption DEF Below
  <2>4. R = {v \in S : v > u}
    BY <1>1, <2>1, <2>2, OrderAssumption DEF Below, SetFinalize, PromiseInv, SetTypeOK
  <2>5. After(R, k)' <=> After(S, k)
    BY <2>3, <2>4, MergeKeeps DEF PromiseInv
  <2>6. After(Below(t), k)' <=> After(R, k)'
    BY <2>2 DEF After, Changers
  <2> QED
    BY <2>1, <2>5, <2>6 DEF Beneath
<1> QED
  BY <1>1, <1>3, <1>4, <1>5 DEF WorkHolds


LEMMA MergeBeginHolds ==
  ASSUME StoredInv, NEW t \in Txn, NEW u \in Txn, MergeBegin(u),
         \A k \in Key : Settled(t, k) /\ Undisturbed(t, k)
  PROVE  WorkHolds(t)
<1>1. \A v \in Txn, k \in Key : told[v][k] = "unknown" => told'[v][k] = "unknown"
  BY DEF MergeBegin, Unknown
<1>2. UNCHANGED <<canon, change, committed, frontier>>
  BY DEF MergeBegin
<1> QED
  BY <1>1, <1>2 DEF WorkHolds, Settled, Undisturbed, Beneath, Below, After, Changers, Open

\* A key written by a finalize is decided by a delta beneath every later transaction.
LEMMA MergeKeyHolds ==
  ASSUME StoredInv, NEW t \in Txn, NEW u \in Txn, NEW j \in Key, MergeKey(u, j),
         merge.through < t, \A k \in Key : Settled(t, k) /\ Undisturbed(t, k)
  PROVE  WorkHolds(t)
<1>1. UNCHANGED <<change, committed, frontier, told>>
  BY DEF MergeKey
<1>2. \A k \in Key : /\ (Settled(t, k) /\ Undisturbed(t, k))'
                      /\ Changers(Below(t), k)' = Changers(Below(t), k)
  BY <1>1 DEF Settled, Undisturbed, Open, Changers, Below
<1>3. PICK S : S = Below(t)
  OBVIOUS
<1>4. Low \subseteq S
  BY <1>3, ThroughNat DEF Low, Below
<1>5. ASSUME NEW k \in Key PROVE Beneath(t, k)' <=> Beneath(t, k)
  <2>1. After(S, k)' <=> After(S, k)
    BY <1>4, MergeKeyShowsNothing
  <2>2. After(Below(t), k)' <=> After(S, k)'
    BY <1>1, <1>3 DEF After, Changers, Below
  <2> QED
    BY <1>3, <2>1, <2>2 DEF Beneath
<1> QED
  BY <1>2, <1>5 DEF WorkHolds

\* The steps of other calls and the lifecycle, among those of a restoration.
LEMMA AroundKeeps ==
  ASSUME StoredInv, RestoreInv, Around
  PROVE  StoredInv' /\ RestoreInv'
<1> DEFINE t == work.txn
           all == {"seed", "apply", "install"}
<1>1. StoredNext
  BY DEF Around, StoredNext
<1>2. StoredInv'
  BY <1>1, StoredStep
<1>3. UNCHANGED work
  BY DEF Around
<1>4. CASE ~Restoring(all)'
  <2>1. WorkTypeOK'
    BY <1>3 DEF RestoreInv, WorkTypeOK
  <2> QED
    BY <1>2, <1>4, <2>1 DEF RestoreInv, AloneInv, BeyondInv, BuiltInv, CoveredInv, Restoring
<1>5. CASE Restoring(all)'
  <2>1. work.phase \in all /\ Open(t)' /\ t \in Txn
    BY <1>3, <1>5 DEF Restoring, RestoreInv, WorkTypeOK
  <2>2. PICK w \in Txn : w = t
    BY <2>1
  <2>3. w \in Nat /\ Open(w)'
    BY <2>1, <2>2, <1>3, OrderAssumption DEF Open
  <2>4. Open(w) => /\ \A k \in Key : Settled(w, k) /\ Undisturbed(w, k)
                   /\ merge.through < w
                   /\ Restoring(all)
    BY <2>1, <2>2 DEF RestoreInv, AloneInv, BeyondInv, Restoring
  <2>5. SUFFICES Open(w) /\ WorkHolds(w) /\ merge'.through < w
    BY <1>2, <1>3, <2>2, <2>4, AroundHolds
  <2> HIDE DEF t, all
  <2>6. ASSUME NEW u \in Txn, ~HoldsWrite(u), StoredWrite(u)
        PROVE  Open(w) /\ WorkHolds(w) /\ merge'.through < w
    <3>1. Open(w)
      BY <2>3, <2>6 DEF StoredWrite, WriteBegins, Write, Open
    <3>2. HoldsWrite(u)
      BY <2>1, <2>2, <3>1 DEF HoldsWrite, t, all
    <3> QED
      BY <2>6, <3>2
  <2>7. ASSUME NEW u \in Txn, ~Holds(u), StoredRead(u)
        PROVE  Open(w) /\ WorkHolds(w) /\ merge'.through < w
    <3>1. PICK range \in SUBSET Key : Read(u, range)
      BY <2>7 DEF StoredRead
    <3>2. Open(w) /\ merge' = merge
      BY <2>3, <2>7, <3>1 DEF StoredRead, Read, Open
    <3>3. ~(u > w)
      BY <2>1, <2>2, <2>7, <3>2 DEF Holds, t, all
    <3> QED
      BY <2>4, <3>1, <3>2, <3>3, ReadHolds DEF StoredInv
  <2>8. ASSUME NEW u \in Txn, StoredCommit(u)
        PROVE  Open(w) /\ WorkHolds(w) /\ merge'.through < w
    <3>1. SetCommit(u) /\ merge' = merge
      BY <2>8 DEF StoredCommit
    <3>2. Open(w)
      BY <2>3, <3>1 DEF SetCommit, Open
    <3> QED
      BY <2>3, <2>4, <3>1, <3>2, CommitHolds DEF StoredInv
  <2>9. ASSUME NEW u \in Txn, StoredRollback(u)
        PROVE  Open(w) /\ WorkHolds(w) /\ merge'.through < w
    <3>1. SetRollback(u) /\ merge' = merge
      BY <2>9 DEF StoredRollback
    <3>2. Open(w)
      BY <2>3, <3>1 DEF SetRollback, Open
    <3> QED
      BY <2>3, <2>4, <3>1, <3>2, RollbackHolds DEF StoredInv
  <2>10. ASSUME NEW u \in Txn, Open(work.txn) => u < work.txn, MergeBegin(u)
         PROVE  Open(w) /\ WorkHolds(w) /\ merge'.through < w
    <3>1. Open(w) /\ merge'.through = u
      BY <2>3, <2>10 DEF MergeBegin, Open
    <3>2. u < w
      BY <2>2, <2>10, <3>1 DEF t
    <3> QED
      BY <2>4, <2>10, <3>1, <3>2, MergeBeginHolds
  <2>11. ASSUME NEW u \in Txn, NEW k \in Key, MergeKey(u, k)
         PROVE  Open(w) /\ WorkHolds(w) /\ merge'.through < w
    <3>1. Open(w) /\ merge'.through = merge.through
      BY <2>3, <2>11 DEF MergeKey, Open, StoredInv, MergeInv
    <3> QED
      BY <2>4, <2>11, <3>1, MergeKeyHolds
  <2>12. CASE MergePublish
    <3>1. merge.through \in Txn /\ SetFinalize(merge.through)
      BY <2>12, PublishIsFinalize
    <3>2. Open(w) /\ w > merge.through
      <4>1. w > merge.through /\ w \notin committed'
        BY <2>3, <3>1 DEF SetFinalize, Open
      <4>2. w \notin committed
        BY <4>1, <3>1 DEF SetFinalize
      <4>3. frontier \in Txn \cup {0}
        BY DEF StoredInv, PromiseInv, SetTypeOK
      <4>4. frontier \in Nat /\ merge.through \in Nat
        <5>1. merge.through \in Nat
          BY ThroughNat
        <5>2. CASE frontier = 0
          BY <5>1, <5>2
        <5>3. CASE frontier \in Txn
          BY <5>1, <5>3, OrderAssumption
        <5> QED
          BY <4>3, <5>2, <5>3
      <4>5. merge.through > frontier
        BY <3>1 DEF SetFinalize
      <4>6. w \in Nat
        BY <2>2, OrderAssumption
      <4>7. w > frontier
        BY <4>1, <4>4, <4>5, <4>6
      <4> QED
        BY <2>2, <4>1, <4>2, <4>7 DEF Open
    <3>3. WorkHolds(w)
      BY <2>3, <2>4, <3>1, <3>2, FinalizeHolds DEF StoredInv
    <3>4. merge'.through = 0 /\ 0 < w
      BY <2>12, <2>2, OrderAssumption DEF MergePublish, NoMerge
    <3> QED
      BY <3>2, <3>3, <3>4
  <2>13. CASE MergeFail
    <3>1. UNCHANGED setVars /\ merge'.through = merge.through
      BY <2>13 DEF MergeFail, StoredInv, MergeInv
    <3>2. Open(w)
      BY <2>3, <3>1 DEF setVars, Open
    <3>3. WorkHolds(w)
      BY <2>4, <3>1, <3>2 DEF setVars, WorkHolds, Settled, Undisturbed, Beneath, Below, After,
                              Changers, Open
    <3> QED
      BY <2>4, <3>1, <3>2, <3>3
  <2> QED
    BY <2>6, <2>7, <2>8, <2>9, <2>10, <2>11, <2>12, <2>13 DEF Around, Materialize
<1> QED
  BY <1>4, <1>5

-----------------------------------------------------------------------------
(* The steps of the restoration.                                           *)

LEMMA BeginKeeps ==
  ASSUME StoredInv, RestoreInv, NEW t \in Txn, RestoreBegin(t)
  PROVE  RestoreInv'
<1>1. work' = [phase |-> "seed", txn |-> t, todo |-> Key, layers |-> CommittedLayers(t),
               inserts |-> {}, deletes |-> {}]
  BY DEF NoWork, RestoreBegin
<1>2. \A d \in CommittedLayers(t) :
        /\ d.txn \in Below(t) /\ d.delta = change[d.txn]
        /\ d \in [txn : Txn, delta : [Key -> Change]]
  BY DEF CommittedLayers, Below, StoredInv, PromiseInv, SetTypeOK
<1>3. ASSUME NEW u \in Below(t)
      PROVE  \E d \in CommittedLayers(t) : d.txn = u /\ d.delta = change[u]
  <2>1. [txn |-> u, delta |-> change[u]] \in CommittedLayers(t)
    BY DEF CommittedLayers, Below
  <2> QED
    BY <2>1
<1>4. \A d, e \in CommittedLayers(t) : d.txn = e.txn => d = e
  BY DEF CommittedLayers
<1>5. WorkTypeOK'
  <2>1. CommittedLayers(t) \in SUBSET [txn : Txn, delta : [Key -> Change]]
    BY <1>2
  <2>2. work' \in [phase : {"idle", "seed", "apply", "install"}, txn : Txn \cup {0},
                   todo : SUBSET Key, layers : SUBSET [txn : Txn, delta : [Key -> Change]],
                   inserts : SUBSET Key, deletes : SUBSET Key]
    BY <1>1, <2>1
  <2>3. /\ work'.phase = "seed" /\ work'.txn = t /\ work'.layers = CommittedLayers(t)
        /\ work'.deletes = {}
    BY <1>1
  <2> QED
    BY <1>4, <2>2, <2>3 DEF WorkTypeOK
<1>6. AloneInv'
  BY <1>1, SetStays DEF RestoreBegin, AloneInv, Restoring
<1>10. BeyondInv'
  BY <1>1, SetStays DEF RestoreBegin, Working, BeyondInv
<1>7. ASSUME NEW k \in Key
      PROVE  IF LayersAt(k)' = {} THEN Changers(Below(t), k) = {}
                                  ELSE Deleted(k)' <=> Beneath(t, k)
  <2>1. LayersAt(k)' = {d \in CommittedLayers(t) : d.delta[k] # "same"}
    BY <1>1 DEF LayersAt
  <2>2. \A d \in LayersAt(k)' : d.txn \in Changers(Below(t), k) /\ d.delta[k] = change[d.txn][k]
    BY <1>2, <2>1 DEF Changers
  <2>3. \A u \in Changers(Below(t), k) :
          \E d \in LayersAt(k)' : d.txn = u /\ d.delta[k] = change[u][k]
    BY <1>3, <2>1 DEF Changers
  <2>4. CASE LayersAt(k)' = {}
    BY <2>3, <2>4
  <2>5. CASE LayersAt(k)' # {}
    <3>1. Changers(Below(t), k) # {}
      BY <2>2, <2>5
    <3>2. Deleted(k)' <=> \E d \in LayersAt(k)' : /\ \A e \in LayersAt(k)' : e.txn <= d.txn
                                                  /\ d.delta[k] = "in"
      BY <2>5 DEF Deleted
    <3>3. Beneath(t, k) <=> \E u \in Changers(Below(t), k) :
                              /\ \A v \in Changers(Below(t), k) : v <= u
                              /\ change[u][k] = "in"
      BY <3>1 DEF Beneath, After
    <3> QED
      BY <2>2, <2>3, <2>5, <3>2, <3>3
  <2> QED
    BY <2>4, <2>5
<1>8. BuiltInv'
  <2>1. \A k \in Key : /\ Beneath(t, k)' <=> Beneath(t, k)
                       /\ Changers(Below(t), k)' = Changers(Below(t), k)
    BY SetStays DEF RestoreBegin
  <2>2. work'.txn = t /\ work'.todo = Key
    BY <1>1
  <2> QED
    BY <1>7, <2>1, <2>2 DEF BuiltInv
<1>9. CoveredInv'
  BY <1>1 DEF CoveredInv, Restoring
<1> QED
  BY <1>5, <1>6, <1>8, <1>9, <1>10 DEF RestoreInv

\* A copied key that no delta touches is in the deletes as it is in canonical storage.
LEMMA SeedKeeps ==
  ASSUME StoredInv, RestoreInv, NEW k \in Key, RestoreSeed(k)
  PROVE  RestoreInv'
<1>1. /\ work.phase = "seed" /\ k \in work.todo /\ UNCHANGED storedVars
      /\ work' = [work EXCEPT !.todo = @ \ {k},
                          !.deletes = IF k \in canon THEN @ \cup {k} ELSE @,
                          !.phase = IF work.todo = {k} THEN "apply" ELSE "seed"]
  BY DEF RestoreSeed
<1>2. PICK t \in Txn : t = work.txn
  BY <1>1 DEF RestoreInv, WorkTypeOK
<1>3. /\ work'.txn = t /\ work'.layers = work.layers /\ work'.todo = work.todo \ {k}
      /\ work'.phase \in {"seed", "apply"}
      /\ work'.deletes = IF k \in canon THEN work.deletes \cup {k} ELSE work.deletes
      /\ work'.phase = "apply" => work'.todo = {}
  BY <1>1, <1>2 DEF RestoreInv, WorkTypeOK
<1>4. WorkTypeOK'
  BY <1>1, <1>3 DEF RestoreInv, WorkTypeOK
<1>5. Restoring({"seed", "apply", "install"})' => work.phase \in {"seed", "apply"} /\ Open(t)
  BY <1>1, <1>3, SetStays DEF Restoring
<1>6. AloneInv'
  BY <1>1, <1>2, <1>3, <1>5, SetStays DEF RestoreInv, AloneInv, Restoring
<1>11. BeyondInv'
  BY <1>1, <1>2, <1>3, <1>5, SetStays DEF RestoreInv, BeyondInv, Restoring
<1>7. \A j \in Key : LayersAt(j)' = LayersAt(j)
  BY <1>3 DEF LayersAt
<1>8. ASSUME Restoring({"seed", "apply"})', NEW j \in Key
      PROVE  IF j \in work'.todo /\ LayersAt(j)' = {}
               THEN Changers(Below(t), j) = {}
               ELSE Deleted(j)' <=> Beneath(t, j)
  <2>1. IF j \in work.todo /\ LayersAt(j) = {}
          THEN Changers(Below(t), j) = {}
          ELSE Deleted(j) <=> Beneath(t, j)
    BY <1>2, <1>5, <1>8 DEF RestoreInv, BuiltInv, Restoring
  <2>2. j # k \/ LayersAt(j) # {} => (Deleted(j)' <=> Deleted(j))
    BY <1>3, <1>7 DEF Deleted
  <2>3. CASE j = k /\ LayersAt(j) = {}
    <3>1. Deleted(j)' <=> j \in work'.deletes
      BY <1>7, <2>3 DEF Deleted
    <3>2. Changers(Below(t), j) = {}
      BY <1>1, <2>1, <2>3
    <3>3. Beneath(t, j) <=> j \in canon
      BY <3>2 DEF Beneath, After
    <3>4. j \in work'.deletes <=> j \in canon \/ j \in work.deletes
      BY <1>3, <2>3
    <3>5. k \notin work.deletes
      BY <1>1 DEF RestoreInv, WorkTypeOK
    <3> QED
      BY <1>3, <2>3, <3>1, <3>2, <3>3, <3>4, <3>5
  <2>4. CASE ~(j = k /\ LayersAt(j) = {})
    BY <1>3, <1>7, <2>1, <2>2, <2>4
  <2> QED
    BY <2>3, <2>4
<1>9. BuiltInv'
  BY <1>1, <1>3, <1>8, SetStays DEF BuiltInv
<1>10. CoveredInv'
  BY <1>3 DEF CoveredInv, Restoring
<1> QED
  BY <1>4, <1>6, <1>9, <1>10, <1>11 DEF RestoreInv


\* To apply the earliest delta that is left changes nothing of what the workspace
\* will say in the end.
LEMMA ApplyKeeps ==
  ASSUME StoredInv, RestoreInv, NEW d \in work.layers, RestoreApply(d)
  PROVE  RestoreInv'
<1>1. /\ work.phase = "apply" /\ UNCHANGED storedVars
      /\ \A e \in work.layers : d.txn <= e.txn
      /\ work' = [work EXCEPT !.layers = @ \ {d}, !.deletes = ApplyLayer(@, d.delta)]
  BY DEF RestoreApply
<1>2. PICK t \in Txn : t = work.txn
  BY <1>1 DEF RestoreInv, WorkTypeOK
<1>3. /\ work'.txn = t /\ work'.layers = work.layers \ {d} /\ work'.todo = {}
      /\ work'.phase = "apply" /\ work.todo = {}
      /\ work'.deletes = ApplyLayer(work.deletes, d.delta)
  BY <1>1, <1>2 DEF RestoreInv, WorkTypeOK
<1>4. /\ \A e \in work.layers : e.txn \in Nat /\ e.delta \in [Key -> Change]
      /\ \A e \in work.layers : e.txn = d.txn => e = d
  BY OrderAssumption DEF RestoreInv, WorkTypeOK
<1>5. WorkTypeOK'
  <2>1. ApplyLayer(work.deletes, d.delta) \in SUBSET Key
    BY DEF ApplyLayer, RestoreInv, WorkTypeOK
  <2> QED
    BY <1>1, <1>3, <2>1 DEF RestoreInv, WorkTypeOK
<1>6. AloneInv'
  BY <1>1, <1>2, <1>3, SetStays DEF RestoreInv, AloneInv, Restoring
<1>10. BeyondInv'
  BY <1>1, <1>2, <1>3, SetStays DEF RestoreInv, BeyondInv, Restoring
<1>7. ASSUME NEW k \in Key PROVE Deleted(k)' <=> Deleted(k)
  <2> DEFINE now == LayersAt(k)
             then == LayersAt(k)'
  <2>1. then = now \ {d} /\ (d \in now <=> d.delta[k] # "same")
    BY <1>3 DEF LayersAt
  <2>2. k \in work'.deletes <=> IF d.delta[k] = "same" THEN k \in work.deletes
                                                       ELSE d.delta[k] = "in"
    BY <1>3, <1>4 DEF ApplyLayer, Change
  <2>3. Deleted(k) <=> \/ now = {} /\ k \in work.deletes
                       \/ \E e \in now : (\A f \in now : f.txn <= e.txn) /\ e.delta[k] = "in"
    BY DEF Deleted
  <2>4. Deleted(k)' <=> \/ then = {} /\ k \in work'.deletes
                        \/ \E e \in then : (\A f \in then : f.txn <= e.txn) /\ e.delta[k] = "in"
    BY DEF Deleted
  <2>5. /\ \A e \in now : e.txn \in Nat /\ d.txn <= e.txn
        /\ d.txn \in Nat
    BY <1>1, <1>4 DEF LayersAt
  <2> HIDE DEF now, then
  <2>6. CASE d \notin now
    BY <2>1, <2>2, <2>3, <2>4, <2>6
  <2>7. CASE now = {d}
    BY <2>1, <2>2, <2>3, <2>4, <2>5, <2>7
  <2>8. CASE d \in now /\ now # {d}
    <3>1. \A e \in then : (\A f \in then : f.txn <= e.txn) <=> (\A f \in now : f.txn <= e.txn)
      BY <2>1, <2>5
    <3>2. ~ \A f \in now : f.txn <= d.txn
      <4>1. PICK f \in now : f # d
        BY <2>8
      <4>2. f.txn # d.txn
        BY <1>4, <4>1 DEF now, LayersAt
      <4> QED
        BY <2>5, <4>2
    <3>3. then # {} /\ now # {}
      BY <2>1, <2>8
    <3> QED
      BY <2>1, <2>3, <2>4, <3>1, <3>2, <3>3
  <2> QED
    BY <2>6, <2>7, <2>8
<1>8. BuiltInv'
  BY <1>1, <1>2, <1>3, <1>7, SetStays DEF RestoreInv, BuiltInv, Restoring
<1>9. CoveredInv'
  BY <1>3 DEF CoveredInv, Restoring
<1> QED
  BY <1>5, <1>6, <1>8, <1>9, <1>10 DEF RestoreInv

LEMMA InsertKeeps ==
  ASSUME StoredInv, RestoreInv, NEW shown \in SUBSET Key, RestoreInsert(shown)
  PROVE  RestoreInv'
<1>1. /\ work.phase = "apply" /\ work.layers = {} /\ UNCHANGED storedVars
      /\ work' = [work EXCEPT !.phase = "install", !.inserts = shown, !.deletes = @ \ shown]
  BY DEF RestoreInsert
<1>2. PICK t \in Txn : t = work.txn
  BY <1>1 DEF RestoreInv, WorkTypeOK
<1>3. /\ work'.txn = t /\ work'.phase = "install" /\ work.todo = {}
      /\ work'.inserts = shown /\ work'.deletes = work.deletes \ shown
  BY <1>1, <1>2 DEF RestoreInv, WorkTypeOK
<1>4. WorkTypeOK'
  BY <1>1, <1>3 DEF RestoreInv, WorkTypeOK
<1>5. AloneInv'
  BY <1>1, <1>2, <1>3, SetStays DEF RestoreInv, AloneInv, Restoring
<1>8. BeyondInv'
  BY <1>1, <1>2, <1>3, SetStays DEF RestoreInv, BeyondInv, Restoring
<1>6. CoveredInv'
  <2>1. \A k \in Key : Deleted(k) <=> k \in work.deletes
    BY <1>1 DEF Deleted, LayersAt
  <2>2. Open(t)' => \A k \in Key : Beneath(t, k) => k \in work.deletes
    BY <1>1, <1>2, <1>3, <2>1, SetStays DEF RestoreInv, BuiltInv, Restoring
  <2> QED
    BY <1>1, <1>3, <2>2, SetStays DEF CoveredInv, Restoring
<1>7. BuiltInv'
  BY <1>3 DEF BuiltInv, Restoring
<1> QED
  BY <1>4, <1>5, <1>6, <1>7, <1>8 DEF RestoreInv

\* Nothing that a transaction reads is later than itself.
LEMMA BasisBelow ==
  ASSUME SetTypeOK, NEW t \in Txn
  PROVE  \A u \in Basis(t) : u \in Txn /\ u \in Nat /\ u <= t
BY OrderAssumption DEF Basis, SetTypeOK

\* The delta that takes the place of the pending one makes the transaction read
\* what the source showed, and nobody else has read what it changes.
LEMMA InstallKeeps ==
  ASSUME StoredInv, RestoreInv, RestoreInstall
  PROVE  StoredInv' /\ RestoreInv'
<1> USE DEF StoredInv, PromiseInv
<1>1. PICK t \in Txn : t = work.txn
  BY DEF RestoreInstall, RestoreInv, WorkTypeOK
<1>2. /\ work.phase = "install" /\ Open(t) /\ work' = NoWork
      /\ UNCHANGED <<canon, committed, frontier, merge>>
      /\ change' = [change EXCEPT ![t] = [k \in Key |-> IF k \in work.inserts THEN "in"
                                                        ELSE IF k \in work.deletes THEN "out"
                                                        ELSE "same"]]
      /\ told' = [told EXCEPT ![t] = [k \in Key |-> IF k \in work.inserts THEN "present"
                                                                          ELSE "absent"]]
  BY <1>1 DEF RestoreInstall
<1>3. RestoreInv'
  BY <1>2, IdleIsFine
<1>4. /\ \A u \in Txn : u # t => change'[u] = change[u] /\ told'[u] = told[u]
      /\ \A k \in Key :
           /\ change'[t][k] = IF k \in work.inserts THEN "in"
                              ELSE IF k \in work.deletes THEN "out" ELSE "same"
           /\ told'[t][k] = IF k \in work.inserts THEN "present" ELSE "absent"
  BY <1>2 DEF SetTypeOK
<1>5. SetTypeOK'
  <2>1. [k \in Key |-> IF k \in work.inserts THEN "in"
                       ELSE IF k \in work.deletes THEN "out" ELSE "same"] \in [Key -> Change]
    BY DEF Change
  <2>2. [k \in Key |-> IF k \in work.inserts THEN "present" ELSE "absent"] \in [Key -> Answer]
    BY DEF Answer
  <2> QED
    BY <1>2, <2>1, <2>2 DEF SetTypeOK
<1>6. \A u \in Txn : Open(u)' <=> Open(u)
  BY <1>2 DEF Open
<1>7. \A k \in Key : Settled(t, k) /\ Undisturbed(t, k)
  BY <1>1, <1>2 DEF RestoreInv, AloneInv, Restoring
<1>8. ToldAreOpen'
  BY <1>2, <1>4, <1>6 DEF ToldAreOpen
<1>9. \A u \in Txn, k \in Key : u > t => told[u][k] = "unknown"
  BY <1>7 DEF ToldAreOpen, Undisturbed
<1>10. EarlierAreSettled'
  <2> SUFFICES ASSUME NEW v \in Txn, NEW u \in Txn, NEW k \in Key,
                      told'[v][k] # "unknown", u < v, Open(u)
               PROVE  change'[u][k] = "same"
    BY <1>6 DEF EarlierAreSettled
  <2>1. u \in Nat /\ v \in Nat /\ t \in Nat
    BY OrderAssumption
  <2>2. CASE u = t
    BY <1>4, <1>9, <2>1, <2>2
  <2>3. CASE u # t /\ v = t
    BY <1>4, <1>7, <2>3 DEF Settled
  <2>4. CASE u # t /\ v # t
    BY <1>4, <2>4 DEF EarlierAreSettled
  <2> QED
    BY <2>2, <2>3, <2>4
<1>11. PromiseKept'
  <2> SUFFICES ASSUME NEW v \in Txn, NEW k \in Key, told'[v][k] # "unknown"
               PROVE  told'[v][k] = "present" <=> (k \in SetView(v))'
    BY DEF PromiseKept
  <2>1. v \in Nat /\ t \in Nat
    BY OrderAssumption
  <2>2. CASE v = t
    <3>1. CASE change'[t][k] # "same"
      <4>1. SetTypeOK' => OwnChangeIsRead'
        BY OwnChangeWins, PTL
      <4> QED
        BY <1>4, <1>5, <2>2, <3>1, <4>1 DEF OwnChangeIsRead
    <3>2. CASE change'[t][k] = "same"
      <4>1. k \notin work.inserts \cup work.deletes
        BY <1>4, <3>2
      <4>2. ~Beneath(t, k)
        BY <1>1, <1>2, <4>1 DEF RestoreInv, CoveredInv, Restoring
      <4>3. \A u \in Below(t) : u # t /\ u \in Txn
        BY <1>2 DEF Below, Open, SetTypeOK
      <4>4. Changers(Basis(t), k)' = Changers(Below(t), k)
        BY <1>2, <1>4, <3>2, <4>3 DEF Changers, Basis, Below
      <4>5. (k \in SetView(t))' <=> Beneath(t, k)
        BY <1>2, <1>4, <4>3, <4>4 DEF SetView, Beneath, After, Changers
      <4> QED
        BY <1>4, <2>2, <4>1, <4>2, <4>5
    <3> QED
      BY <3>1, <3>2
  <2>3. CASE v # t
    <3>1. v < t
      BY <1>4, <1>9, <2>1, <2>3
    <3>2. \A u \in Basis(v) : u \in Txn /\ u # t
      BY <2>1, <3>1, BasisBelow
    <3>3. (k \in SetView(v))' <=> k \in SetView(v)
      BY <1>2, <1>4, <3>2, SameBasis
    <3> QED
      BY <1>4, <2>3, <3>3 DEF PromiseKept
  <2> QED
    BY <2>2, <2>3
<1>12. MergeInv'
  <2>1. merge.through < t
    BY <1>1, <1>2 DEF RestoreInv, BeyondInv, Restoring
  <2>2. t \notin committed
    BY <1>2 DEF Open
  <2>3. \A u \in committed : change'[u] = change[u]
    BY <1>4, <2>2 DEF SetTypeOK
  <2>4. \A u \in Txn : u <= merge.through => told'[u] = told[u]
    BY <1>4, <2>1, ThroughNat
  <2> QED
    BY <1>2, <2>3, <2>4, MergeStays
<1> QED
  BY <1>3, <1>5, <1>8, <1>10, <1>11, <1>12

-----------------------------------------------------------------------------
LEMMA RestoreStep == StoredInv /\ RestoreInv /\ [RestoreNext]_restoreVars
                       => (StoredInv /\ RestoreInv)'
<1> SUFFICES ASSUME StoredInv, RestoreInv, [RestoreNext]_restoreVars
             PROVE  StoredInv' /\ RestoreInv'
  OBVIOUS
<1>1. CASE Around
  BY <1>1, AroundKeeps
<1>2. ASSUME NEW t \in Txn, RestoreBegin(t) PROVE StoredInv' /\ RestoreInv'
  BY <1>2, BeginKeeps, StoredStays DEF RestoreBegin
<1>3. ASSUME NEW k \in Key, RestoreSeed(k) PROVE StoredInv' /\ RestoreInv'
  BY <1>3, SeedKeeps, StoredStays DEF RestoreSeed
<1>4. ASSUME NEW d \in work.layers, RestoreApply(d) PROVE StoredInv' /\ RestoreInv'
  BY <1>4, ApplyKeeps, StoredStays DEF RestoreApply
<1>5. ASSUME NEW shown \in SUBSET Key, RestoreInsert(shown) PROVE StoredInv' /\ RestoreInv'
  BY <1>5, InsertKeeps, StoredStays DEF RestoreInsert
<1>6. CASE RestoreInstall
  BY <1>6, InstallKeeps
<1>7. CASE RestoreEnds
  BY <1>7, IdleIsFine, StoredStays DEF RestoreEnds
<1>8. CASE UNCHANGED restoreVars
  <2>1. UNCHANGED storedVars /\ UNCHANGED work
    BY <1>8 DEF restoreVars
  <2>2. StoredInv'
    BY <2>1, StoredStays
  <2>3. WorkTypeOK'
    BY <2>1 DEF RestoreInv, WorkTypeOK
  <2>4. CASE work.phase = "idle"
    <3>1. work'.phase = "idle"
      BY <2>1, <2>4
    <3>2. AloneInv' /\ BeyondInv' /\ BuiltInv' /\ CoveredInv'
      BY <3>1 DEF AloneInv, BeyondInv, BuiltInv, CoveredInv, Restoring
    <3> QED
      BY <2>2, <2>3, <3>2 DEF RestoreInv
  <2>5. CASE work.phase # "idle"
    <3>1. PICK t \in Txn : t = work.txn
      BY <2>5 DEF RestoreInv, WorkTypeOK
    <3>2. Restoring({"seed", "apply", "install"})' => WorkHolds(t)
      BY <2>1, <3>1, SetStays DEF Restoring, WorkHolds, RestoreInv, AloneInv
    <3>3. Restoring({"seed", "apply", "install"})' =>
            Restoring({"seed", "apply", "install"}) /\ merge'.through < t
      BY <2>1, <3>1, SetStays DEF Restoring, RestoreInv, BeyondInv
    <3> QED
      BY <2>1, <2>2, <3>1, <3>2, <3>3, AroundHolds
  <2> QED
    BY <2>2, <2>4, <2>5
<1> QED
  BY <1>1, <1>2, <1>3, <1>4, <1>5, <1>6, <1>7, <1>8 DEF RestoreNext

\* A restoration of many steps, built from storage that a finalize may be rewriting,
\* before, while or after it begins, and among the decisions of other transactions,
\* keeps every promise: also what the restoring transaction is told, that it now reads
\* the source.
THEOREM RestoreKeepsPromises == RestoreSpec => []PromiseKept
<1>1. StoredInv => PromiseKept
  BY DEF StoredInv, PromiseInv
<1> QED
  BY <1>1, RestoreInitInv, RestoreStep, PTL DEF RestoreSpec
=============================================================================
