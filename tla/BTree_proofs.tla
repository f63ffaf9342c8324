----------------------------- MODULE BTree_proofs -----------------------------
(***************************************************************************)
(* Type correctness of BTree, and no delta with a key on both sides, for   *)
(* any transactions, keys and concurrent calls.                            *)
(*                                                                         *)
(* DeltaDisjoint is not inductive: the second native step of an insert     *)
(* puts its key into the inserts whatever the deletes hold.  HalfWritten   *)
(* says they do not hold it, which survives the other writes of the        *)
(* transaction because their permits cover other keys (WritePermits), and  *)
(* the lifecycle calls because the caller makes none while the call runs   *)
(* (Quiet, and FinalizeAlone for the awaits of finalize).                  *)
(***************************************************************************)
EXTENDS BTree, TLAPS

\* A permit of a write in progress covers the one key it writes.
LEMMA KeyOfWrite ==
  ASSUME WritePermits, NEW o \in Op, Writing(o)
  PROVE  TheKey(o) \in Key /\ req[o].range = {TheKey(o)}
<1>1. \E k \in Key : req[o].range = {k}
  BY DEF WritePermits
<1> QED
  BY <1>1 DEF TheKey

\* The semaphore sees the permit of every write in progress.
LEMMA WritesAreHeld ==
  ASSUME WritePermits, NEW p \in Op, Writing(p)
  PROVE  req[p].range \subseteq HeldFor(req[p].txn, ReadHeld \cup WriteHeld)
<1>1. req[p].kind # "isEmpty"
  BY DEF WritePermits, WriteKinds
<1>2. pc[p] \in ReadHeld \cup WriteHeld
  BY DEF Writing
<1> QED
  BY <1>1, <1>2 DEF HeldFor

\* The two native steps of a write take a delta to a delta, keep its sides
\* apart, and touch no other key.
LEMMA FirstStepKeeps ==
  ASSUME NEW o \in Op, NEW d \in Delta
  PROVE  /\ FirstStep(o, d) \in Delta
         /\ d.inserts \cap d.deletes = {} =>
              FirstStep(o, d).inserts \cap FirstStep(o, d).deletes = {}
         /\ FirstStep(o, d).inserts \subseteq d.inserts
         /\ FirstStep(o, d).deletes \subseteq d.deletes
         /\ TheKey(o) \notin IF req[o].kind = "insert" THEN FirstStep(o, d).deletes
                                                      ELSE FirstStep(o, d).inserts
BY DEF FirstStep, InsertFirst, DeleteFirst, Delta, DeltaOver

LEMMA SecondStepKeeps ==
  ASSUME NEW o \in Op, NEW d \in Delta, TheKey(o) \in Key
  PROVE  /\ SecondStep(o, d) \in Delta
         /\ /\ d.inserts \cap d.deletes = {}
            /\ TheKey(o) \notin IF req[o].kind = "insert" THEN d.deletes ELSE d.inserts
            => SecondStep(o, d).inserts \cap SecondStep(o, d).deletes = {}
         /\ SecondStep(o, d).inserts \subseteq d.inserts \cup {TheKey(o)}
         /\ SecondStep(o, d).deletes \subseteq d.deletes \cup {TheKey(o)}
BY DEF SecondStep, InsertSecond, DeleteSecond, Delta, DeltaOver

LEMMA SnapshotType ==
  ASSUME TypeOK, NEW t \in Txn
  PROVE  VisibleSnapshot(t) \in Snapshot
BY DEF VisibleSnapshot, Snapshot, HasDelta, TypeOK, OwnerTypeOK

LEMMA TxnNat == \A t \in Txn : t \in Nat
BY TxnAssumption

LEMMA LifeType ==
  ASSUME TypeOK
  PROVE  life.txn \in Txn \cup {0} /\ life.txn \in Nat
<1>1. life \in [call : {"none", "commit", "rollback", "finalize"},
               txn : Txn \cup {0}, phase : Phase]
  BY DEF TypeOK, OwnerTypeOK
<1>2. life.txn \in Txn \cup {0}
  BY <1>1
<1>3. CASE life.txn \in Txn
  BY <1>2, <1>3, TxnNat
<1>4. CASE life.txn = 0
  BY <1>2, <1>4
<1> QED
  BY <1>2, <1>3, <1>4

-----------------------------------------------------------------------------
LEMMA InitHolds == Init => BTreeInv
<1> SUFFICES ASSUME Init PROVE BTreeInv
  OBVIOUS
<1> USE DEF Init, OwnerInit, SemInit, NoReq, NoCall
<1>1. TypeOK
  BY DEF TypeOK, SemTypeOK, OwnerTypeOK, Phase, Answer
<1>2. Started /\ WritePermits /\ DeltaInPlace /\ HalfWritten
  BY DEF Started, WritePermits, DeltaInPlace, HalfWritten, Writing, WriteHeld
<1>3. FinalizeAlone /\ DeltaDisjoint
  BY DEF FinalizeAlone, DeltaDisjoint, HasDelta
<1> QED
  BY <1>1, <1>2, <1>3 DEF BTreeInv

\* A step that touches no delta and starts no call, and moves a call only out of
\* the states in which it writes.
LEMMA NoWriteStep ==
  ASSUME BTreeInv, TypeOK', FinalizeAlone',
         UNCHANGED <<pending, committed>>,
         \A o \in Op : Writing(o)' => pc'[o] = pc[o],
         \A o \in Op : pc'[o] # "idle" => pc[o] # "idle" /\ req'[o] = req[o]
  PROVE  BTreeInv'
<1> USE DEF BTreeInv
<1>1. Started'
  BY DEF Started
<1>2. \A o \in Op : Writing(o)' => Writing(o) /\ req'[o] = req[o]
  BY DEF Writing, WriteHeld
<1>3. WritePermits'
  BY <1>2 DEF WritePermits
<1>4. DeltaInPlace' /\ HalfWritten'
  BY <1>2 DEF DeltaInPlace, HalfWritten, Writing, WriteHeld
<1>5. DeltaDisjoint'
  BY DEF DeltaDisjoint, HasDelta
<1> QED
  BY <1>1, <1>3, <1>4, <1>5

\* What leaving a call does to its slot.
LEMMA FinishType ==
  ASSUME BTreeInv, NEW o \in Op, Finish(o)
  PROVE  /\ pc' \in [Op -> {"idle", "waiting"} \cup ReadHeld \cup WriteHeld]
         /\ req' \in [Op -> [kind : {"none", "contains"} \cup WriteKinds \cup ReadKinds,
                             txn : Txn \cup {0}, range : SUBSET Key]]
         /\ snap' \in [Op -> Snapshot \cup {Absent}]
         /\ unread' \in [Op -> SUBSET Key]
         /\ found' \in [Op -> SUBSET Key]
         /\ pc'[o] = "idle" /\ req'[o].txn = 0
         /\ \A p \in Op : p # o => pc'[p] = pc[p] /\ req'[p] = req[p]
BY DEF Finish, NoReq, BTreeInv, TypeOK

-----------------------------------------------------------------------------
(* Writes.                                                                 *)

LEMMA WriteReserveKeeps ==
  ASSUME BTreeInv, NEW o \in Op, NEW kind \in WriteKinds, NEW t \in Txn, NEW k \in Key,
         WriteReserve(o, kind, t, k)
  PROVE  BTreeInv'
<1> USE DEF BTreeInv, WriteReserve, ownerVars
<1>1. TypeOK'
  BY DEF TypeOK, SemTypeOK, OwnerTypeOK, ReserveWrite, WriteHeld
<1>2. /\ pc'[o] = "lookup" /\ req'[o] = [kind |-> kind, txn |-> t, range |-> {k}]
      /\ \A p \in Op : p # o => pc'[p] = pc[p] /\ req'[p] = req[p]
  BY DEF TypeOK
<1>3. Started' /\ DeltaInPlace' /\ HalfWritten'
  BY <1>2 DEF Started, DeltaInPlace, HalfWritten
<1>4. WritePermits'
  <2>1. \A p \in Op : Writing(p) /\ req[p].txn = t => k \notin req[p].range
    BY WritesAreHeld DEF CanWrite
  <2> QED
    BY <1>2, <2>1 DEF WritePermits, Writing
<1>5. FinalizeAlone'
  <2>1. life.call = "finalize" => ~(t <= life.txn)
    BY DEF FinalizeAlone, MayStart, UnderDecision
  <2>2. t \in Nat /\ life.txn \in Nat
    BY LifeType, TxnAssumption
  <2>3. life.call = "finalize" => req'[o].txn > life.txn
    BY <1>2, <2>1, <2>2
  <2> QED
    BY <1>2, <2>3 DEF FinalizeAlone
<1>6. DeltaDisjoint'
  BY DEF DeltaDisjoint, HasDelta
<1> QED
  BY <1>1, <1>3, <1>4, <1>5, <1>6

LEMMA GiveUpKeeps ==
  ASSUME BTreeInv, NEW o \in Op, Finish(o), UNCHANGED <<semVars, ownerVars, told, closed>>
  PROVE  BTreeInv'
<1> USE DEF BTreeInv, ownerVars, semVars
<1>1. TypeOK'
  BY FinishType DEF TypeOK, SemTypeOK, OwnerTypeOK
<1>2. FinalizeAlone'
  BY FinishType DEF FinalizeAlone
<1>3. /\ \A p \in Op : Writing(p)' => pc'[p] = pc[p]
      /\ \A p \in Op : pc'[p] # "idle" => pc[p] # "idle" /\ req'[p] = req[p]
  BY FinishType DEF Writing, WriteHeld
<1> QED
  BY <1>1, <1>2, <1>3, NoWriteStep

LEMMA PendingLookupKeeps ==
  ASSUME BTreeInv, NEW o \in Op, PendingLookup(o)
  PROVE  BTreeInv'
<1> USE DEF BTreeInv, PendingLookup, Goto, ownerVars, semVars
<1>1. TypeOK'
  BY DEF TypeOK, SemTypeOK, OwnerTypeOK, WriteHeld
<1>2. /\ pc[o] = "lookup"
      /\ pc'[o] \in {"create", "first"}
      /\ pc'[o] = "first" => pending[req[o].txn] # Absent
      /\ \A p \in Op : p # o => pc'[p] = pc[p]
  BY DEF TypeOK
<1>3. \A p \in Op : Writing(p)' <=> Writing(p)
  BY <1>2 DEF Writing, WriteHeld
<1>4. Started' /\ WritePermits' /\ DeltaInPlace' /\ HalfWritten'
  BY <1>2, <1>3 DEF Started, WritePermits, DeltaInPlace, HalfWritten
<1>5. FinalizeAlone' /\ DeltaDisjoint'
  BY DEF FinalizeAlone, DeltaDisjoint, HasDelta
<1> QED
  BY <1>1, <1>4, <1>5

LEMMA PendingInstallKeeps ==
  ASSUME BTreeInv, NEW o \in Op, PendingInstall(o)
  PROVE  BTreeInv'
<1> USE DEF BTreeInv, PendingInstall, Goto, ownerVars, semVars
<1> DEFINE t == req[o].txn
<1>1. EmptyDelta \in Delta /\ EmptyDelta # Absent
  BY AbsentAssumption DEF EmptyDelta, Delta, DeltaOver
<1>2. TypeOK'
  BY <1>1 DEF TypeOK, SemTypeOK, OwnerTypeOK, WriteHeld
<1>3. /\ pc[o] = "create" /\ pc'[o] = "first"
      /\ \A p \in Op : p # o => pc'[p] = pc[p]
      /\ t \in Txn
  BY DEF TypeOK, Started
<1>4. /\ pending'[t] # Absent
      /\ \A u \in Txn : pending[u] # Absent => pending'[u] = pending[u]
      /\ \A u \in Txn : pending'[u] # pending[u] => pending'[u] = EmptyDelta
  BY <1>1, <1>3 DEF TypeOK, OwnerTypeOK
<1>5. \A p \in Op : Writing(p)' <=> Writing(p)
  BY <1>3 DEF Writing, WriteHeld
<1>6. Started' /\ WritePermits'
  BY <1>3, <1>5 DEF Started, WritePermits
<1>7. DeltaInPlace' /\ HalfWritten'
  BY <1>3, <1>4 DEF DeltaInPlace, HalfWritten, Started
<1>8. FinalizeAlone'
  BY DEF FinalizeAlone
<1>9. DeltaDisjoint'
  BY <1>4 DEF DeltaDisjoint, HasDelta, EmptyDelta
<1> QED
  BY <1>2, <1>6, <1>7, <1>8, <1>9

LEMMA WriteFirstKeeps ==
  ASSUME BTreeInv, NEW o \in Op, WriteFirst(o)
  PROVE  BTreeInv'
<1> USE DEF BTreeInv, WriteFirst, Goto, ownerVars, semVars
<1> DEFINE t == req[o].txn
<1>1. /\ pc[o] = "first" /\ pc'[o] = "second"
      /\ \A p \in Op : p # o => pc'[p] = pc[p]
      /\ t \in Txn
      /\ TheKey(o) \in Key /\ req[o].range = {TheKey(o)}
  BY KeyOfWrite DEF TypeOK, Started, Writing, WriteHeld
<1>2. pending[t] \in Delta
  BY <1>1 DEF DeltaInPlace, TypeOK, OwnerTypeOK
<1>3. /\ pending' = [pending EXCEPT ![t] = FirstStep(o, pending[t])]
      /\ pending'[t] = FirstStep(o, pending[t])
      /\ \A u \in Txn : u # t => pending'[u] = pending[u]
  BY <1>1 DEF TypeOK, OwnerTypeOK
<1>4. /\ pending'[t] \in Delta
      /\ pending'[t].inserts \subseteq pending[t].inserts
      /\ pending'[t].deletes \subseteq pending[t].deletes
      /\ TheKey(o) \notin IF req[o].kind = "insert" THEN pending'[t].deletes
                                                   ELSE pending'[t].inserts
  BY <1>2, <1>3, FirstStepKeeps
<1>5. TypeOK'
  BY <1>3, <1>4, ZenonT(40) DEF TypeOK, SemTypeOK, OwnerTypeOK, WriteHeld, Answer
<1>6. \A p \in Op : Writing(p)' <=> Writing(p)
  BY <1>1 DEF Writing, WriteHeld
<1>7. Started' /\ WritePermits'
  BY <1>1, <1>6 DEF Started, WritePermits
<1>8. DeltaInPlace'
  BY <1>1, <1>3, <1>4, AbsentAssumption DEF DeltaInPlace, Started
<1>9. HalfWritten'
  <2> SUFFICES ASSUME NEW p \in Op, pc'[p] = "second"
               PROVE  req[p].range \cap
                        (IF req[p].kind = "insert" THEN pending'[req[p].txn].deletes
                                                   ELSE pending'[req[p].txn].inserts) = {}
    BY DEF HalfWritten
  <2>1. CASE p = o
    BY <2>1, <1>1, <1>4
  <2>2. CASE p # o
    <3>1. req[p].txn \in Txn /\ pc[p] = "second"
      BY <2>2, <1>1 DEF Started
    <3>2. CASE req[p].txn = t
      BY <3>1, <3>2, <1>4 DEF HalfWritten
    <3>3. CASE req[p].txn # t
      BY <3>1, <3>3, <1>3 DEF HalfWritten
    <3> QED
      BY <3>2, <3>3
  <2> QED
    BY <2>1, <2>2
<1>10. FinalizeAlone'
  BY DEF FinalizeAlone
<1>11. DeltaDisjoint'
  <2>1. pending'[t].inserts \cap pending'[t].deletes = {}
    BY <1>1, <1>2, <1>3, FirstStepKeeps, AbsentAssumption DEF DeltaDisjoint, DeltaInPlace
  <2> QED
    BY <1>3, <2>1 DEF DeltaDisjoint, HasDelta
<1> QED
  BY <1>5, <1>7, <1>8, <1>9, <1>10, <1>11

LEMMA WriteSecondKeeps ==
  ASSUME BTreeInv, NEW o \in Op, WriteSecond(o)
  PROVE  BTreeInv'
<1> USE DEF BTreeInv, WriteSecond, ownerVars, semVars
<1> DEFINE t == req[o].txn
           key == TheKey(o)
<1>1. /\ pc[o] = "second"
      /\ t \in Txn
      /\ key \in Key /\ req[o].range = {key}
      /\ Writing(o)
  BY KeyOfWrite DEF TypeOK, Started, Writing, WriteHeld
<1>2. pending[t] \in Delta /\ pending[t] # Absent
  BY <1>1 DEF DeltaInPlace, TypeOK, OwnerTypeOK
<1>3. /\ pending' = [pending EXCEPT ![t] = SecondStep(o, pending[t])]
      /\ pending'[t] = SecondStep(o, pending[t])
      /\ \A u \in Txn : u # t => pending'[u] = pending[u]
  BY <1>1 DEF TypeOK, OwnerTypeOK
<1>4. /\ pending'[t] \in Delta
      /\ pending'[t].inserts \subseteq pending[t].inserts \cup {key}
      /\ pending'[t].deletes \subseteq pending[t].deletes \cup {key}
  BY <1>1, <1>2, <1>3, SecondStepKeeps
<1>5. pending'[t].inserts \cap pending'[t].deletes = {}
  <2>1. pending[t].inserts \cap pending[t].deletes = {}
    BY <1>1, <1>2 DEF DeltaDisjoint
  <2>2. key \notin IF req[o].kind = "insert" THEN pending[t].deletes ELSE pending[t].inserts
    BY <1>1 DEF HalfWritten
  <2> QED
    BY <1>1, <1>2, <1>3, <2>1, <2>2, SecondStepKeeps
<1>6. /\ pc'[o] = "idle" /\ req'[o].txn = 0
      /\ \A p \in Op : p # o => pc'[p] = pc[p] /\ req'[p] = req[p]
  BY FinishType
<1>7. TypeOK'
  <2>1. told' \in [Txn -> [Key -> Answer]]
    BY DEF TypeOK, Answer
  <2>2. OwnerTypeOK'
    BY <1>3, <1>4 DEF TypeOK, OwnerTypeOK
  <2> QED
    BY <2>1, <2>2, FinishType DEF TypeOK, SemTypeOK
<1>8. \A p \in Op : Writing(p)' => p # o /\ Writing(p) /\ req'[p] = req[p]
  BY <1>6 DEF Writing, WriteHeld
<1>9. Started' /\ WritePermits'
  BY <1>6, <1>8 DEF Started, WritePermits
<1>10. DeltaInPlace'
  BY <1>3, <1>4, <1>6, AbsentAssumption DEF DeltaInPlace, Started
<1>11. HalfWritten'
  <2> SUFFICES ASSUME NEW p \in Op, p # o, pc[p] = "second"
               PROVE  req[p].range \cap
                        (IF req[p].kind = "insert" THEN pending'[req[p].txn].deletes
                                                   ELSE pending'[req[p].txn].inserts) = {}
    BY <1>6 DEF HalfWritten
  <2>1. req[p].txn \in Txn /\ Writing(p)
    BY DEF Started, Writing, WriteHeld
  <2>2. CASE req[p].txn = t
    <3>1. key \notin req[p].range
      BY <2>1, <2>2, <1>1 DEF WritePermits
    <3> QED
      BY <2>2, <3>1, <1>4 DEF HalfWritten
  <2>3. CASE req[p].txn # t
    BY <2>1, <2>3, <1>3 DEF HalfWritten
  <2> QED
    BY <2>2, <2>3
<1>12. FinalizeAlone'
  BY <1>6 DEF FinalizeAlone
<1>13. DeltaDisjoint'
  BY <1>3, <1>5 DEF DeltaDisjoint, HasDelta
<1> QED
  BY <1>7, <1>9, <1>10, <1>11, <1>12, <1>13

-----------------------------------------------------------------------------
(* Reads.                                                                  *)

LEMMA ReadStartKeeps ==
  ASSUME BTreeInv, NEW o \in Op, NEW kind \in {"contains"} \cup ReadKinds, NEW t \in Txn,
         NEW range \in SUBSET Key, ReadStart(o, kind, t, range)
  PROVE  BTreeInv'
<1> USE DEF BTreeInv, ReadStart, ownerVars, semVars
<1>1. TypeOK'
  BY DEF TypeOK, SemTypeOK, OwnerTypeOK, ReadHeld
<1>2. /\ pc'[o] \in {"snapshot", "waiting"}
      /\ req'[o] = [kind |-> kind, txn |-> t, range |-> range]
      /\ \A p \in Op : p # o => pc'[p] = pc[p] /\ req'[p] = req[p]
  BY DEF TypeOK
<1>3. \A p \in Op : Writing(p)' => p # o /\ Writing(p)
  BY <1>2 DEF Writing, WriteHeld
<1>4. Started' /\ WritePermits' /\ DeltaInPlace' /\ HalfWritten'
  BY <1>2, <1>3 DEF Started, WritePermits, DeltaInPlace, HalfWritten
<1>5. FinalizeAlone'
  <2>1. life.call = "finalize" => ~(t <= life.txn)
    BY DEF FinalizeAlone, MayStart, UnderDecision
  <2>2. t \in Nat /\ life.txn \in Nat
    BY LifeType, TxnAssumption
  <2>3. life.call = "finalize" => req'[o].txn > life.txn
    BY <1>2, <2>1, <2>2
  <2> QED
    BY <1>2, <2>3 DEF FinalizeAlone
<1>6. DeltaDisjoint'
  BY DEF DeltaDisjoint, HasDelta
<1> QED
  BY <1>1, <1>4, <1>5, <1>6

LEMMA ReadAcquireKeeps ==
  ASSUME BTreeInv, NEW o \in Op, ReadAcquire(o)
  PROVE  BTreeInv'
<1> USE DEF BTreeInv, ReadAcquire, ReserveRead, Goto, ownerVars
<1>1. TypeOK'
  BY DEF TypeOK, SemTypeOK, OwnerTypeOK, ReadHeld
<1>2. FinalizeAlone'
  BY DEF FinalizeAlone
<1>3. /\ \A p \in Op : Writing(p)' => pc'[p] = pc[p]
      /\ \A p \in Op : pc'[p] # "idle" => pc[p] # "idle" /\ req'[p] = req[p]
  BY DEF TypeOK, Writing, WriteHeld
<1> QED
  BY <1>1, <1>2, <1>3, NoWriteStep

LEMMA ReadSnapshotKeeps ==
  ASSUME BTreeInv, NEW o \in Op, ReadSnapshot(o)
  PROVE  BTreeInv'
<1> USE DEF BTreeInv, ReadSnapshot, ownerVars, semVars
<1>1. VisibleSnapshot(req[o].txn) \in Snapshot
  BY SnapshotType DEF Started
<1>2. TypeOK'
  BY <1>1 DEF TypeOK, SemTypeOK, OwnerTypeOK, ReadHeld
<1>3. FinalizeAlone'
  BY DEF FinalizeAlone
<1>4. /\ \A p \in Op : Writing(p)' => pc'[p] = pc[p]
      /\ \A p \in Op : pc'[p] # "idle" => pc[p] # "idle" /\ req'[p] = req[p]
  BY DEF TypeOK, Writing, WriteHeld
<1> QED
  BY <1>2, <1>3, <1>4, NoWriteStep

LEMMA ReadKeyKeeps ==
  ASSUME BTreeInv, NEW o \in Op, NEW k \in Key, ReadKey(o, k)
  PROVE  BTreeInv'
<1> USE DEF BTreeInv, ReadKey, ownerVars, semVars
<1>1. TypeOK'
  BY DEF TypeOK, SemTypeOK, OwnerTypeOK
<1>2. FinalizeAlone'
  BY DEF FinalizeAlone
<1> QED
  BY <1>1, <1>2, NoWriteStep DEF Writing

LEMMA ReadReturnKeeps ==
  ASSUME BTreeInv, NEW o \in Op, ReadReturn(o)
  PROVE  BTreeInv'
<1> USE DEF BTreeInv, ReadReturn, ownerVars, semVars
<1>1. told' \in [Txn -> [Key -> Answer]]
  BY DEF TypeOK, Answer
<1>2. TypeOK'
  BY <1>1, FinishType DEF TypeOK, SemTypeOK, OwnerTypeOK
<1>3. FinalizeAlone'
  BY FinishType DEF FinalizeAlone
<1>4. /\ \A p \in Op : Writing(p)' => pc'[p] = pc[p]
      /\ \A p \in Op : pc'[p] # "idle" => pc[p] # "idle" /\ req'[p] = req[p]
  BY FinishType DEF Writing, WriteHeld
<1> QED
  BY <1>2, <1>3, <1>4, NoWriteStep

-----------------------------------------------------------------------------
(* The caller and its lifecycle calls.                                     *)

\* A lifecycle step leaves the calls alone.  If it keeps the deltas of every
\* transaction that has a call, and makes no delta of its own, it keeps the
\* invariant.
LEMMA LifecycleStep ==
  ASSUME BTreeInv, TypeOK', FinalizeAlone',
         UNCHANGED opVars,
         \A o \in Op : req[o].txn \in Txn => pending'[req[o].txn] = pending[req[o].txn],
         \A t \in Txn : pending'[t] \in {pending[t], Absent},
         \A t \in Txn : committed'[t] \in {committed[t], pending[t], Absent, NoDelta}
  PROVE  BTreeInv'
<1> USE DEF BTreeInv, opVars
<1>1. Started' /\ WritePermits'
  BY DEF Started, WritePermits, Writing
<1>2. \A o \in Op : pc[o] # "idle" => pending'[req[o].txn] = pending[req[o].txn]
  BY DEF Started
<1>3. DeltaInPlace' /\ HalfWritten'
  BY <1>2 DEF DeltaInPlace, HalfWritten
<1>4. DeltaDisjoint'
  <2> SUFFICES ASSUME NEW t \in Txn
               PROVE  /\ pending'[t] # Absent
                           => pending'[t].inserts \cap pending'[t].deletes = {}
                      /\ committed'[t] \notin {Absent, NoDelta}
                           => committed'[t].inserts \cap committed'[t].deletes = {}
    BY DEF DeltaDisjoint, HasDelta
  <2> QED
    BY DEF DeltaDisjoint, HasDelta
<1> QED
  BY <1>1, <1>3, <1>4

LEMMA ForgetType ==
  ASSUME TypeOK, NEW S \in SUBSET Txn
  PROVE  Forget(S) \in [Txn -> [Key -> Answer]]
BY DEF Forget, TypeOK, Answer

LEMMA CloseTxnKeeps ==
  ASSUME BTreeInv, NEW t \in Txn, CloseTxn(t)
  PROVE  BTreeInv'
<1> USE DEF BTreeInv, CloseTxn, opVars, ownerVars, semVars
<1>1. TypeOK'
  BY DEF TypeOK, SemTypeOK, OwnerTypeOK
<1>2. FinalizeAlone'
  BY DEF FinalizeAlone
<1> QED
  BY <1>1, <1>2, LifecycleStep

LEMMA CommitKeeps ==
  ASSUME BTreeInv, NEW t \in Txn, Commit(t)
  PROVE  BTreeInv'
<1> USE DEF BTreeInv, Commit, CommitDecide, Decided, opVars, semVars
<1>1. TypeOK'
  BY ForgetType DEF TypeOK, SemTypeOK, OwnerTypeOK, Phase
<1>2. FinalizeAlone'
  BY DEF FinalizeAlone
<1>3. /\ \A u \in Txn : u # t => pending'[u] = pending[u] /\ committed'[u] = committed[u]
      /\ pending'[t] = Absent /\ committed'[t] \in {pending[t], NoDelta}
  BY DEF TypeOK, OwnerTypeOK
<1> QED
  BY <1>1, <1>2, <1>3, LifecycleStep DEF Quiet

LEMMA RollbackKeeps ==
  ASSUME BTreeInv, NEW t \in Txn, Rollback(t)
  PROVE  BTreeInv'
<1> USE DEF BTreeInv, Rollback, RollbackDecide, Decided, opVars, semVars
<1>1. TypeOK'
  BY ForgetType DEF TypeOK, SemTypeOK, OwnerTypeOK, Phase
<1>2. FinalizeAlone'
  BY DEF FinalizeAlone
<1>3. /\ \A u \in Txn : u # t => pending'[u] = pending[u]
      /\ pending'[t] = Absent
  BY DEF TypeOK, OwnerTypeOK
<1> QED
  BY <1>1, <1>2, <1>3, LifecycleStep DEF Quiet

\* What finalize waits for: no call is left at or before its cutoff.
LEMMA QuietThrough ==
  ASSUME TypeOK, NEW t \in Txn, \A u \in Txn : u <= t => Quiet(u)
  PROVE  \A o \in Op : req[o].txn # 0 => req[o].txn > t
<1>1. \A o \in Op : req[o].txn \in Txn \cup {0}
  BY DEF TypeOK
<1>2. \A o \in Op, u \in Txn : u <= t => req[o].txn # u
  BY DEF Quiet
<1>3. \A u \in Txn : u \in Nat
  BY TxnNat
<1> QED
  BY <1>1, <1>2, <1>3

LEMMA FinalizeKeeps ==
  ASSUME BTreeInv, NEW t \in Txn, Finalize(t)
  PROVE  BTreeInv'
<1> USE DEF BTreeInv, Finalize, FinalizeBegin, opVars, semVars
<1>1. TypeOK'
  <2>1. ApplyThrough(t) \subseteq KeyOp
    BY DEF ApplyThrough
  <2> QED
    BY <2>1, ForgetType DEF TypeOK, SemTypeOK, OwnerTypeOK, Phase
<1>2. FinalizeAlone'
  BY QuietThrough DEF FinalizeAlone
<1> QED
  BY <1>1, <1>2, LifecycleStep

LEMMA NoopCallsKeep ==
  ASSUME BTreeInv, NEW t \in Txn, CommitAgain(t) \/ FinalizeNoop(t)
  PROVE  BTreeInv'
<1> USE DEF BTreeInv, CommitAgain, CommitDuplicate, FinalizeNoop, FinalizeStale, opVars, semVars
<1>1. TypeOK'
  BY DEF TypeOK, SemTypeOK, OwnerTypeOK, Phase
<1>2. FinalizeAlone'
  BY QuietThrough DEF FinalizeAlone
<1> QED
  BY <1>1, <1>2, LifecycleStep

LEMMA ApplyKeyKeeps ==
  ASSUME BTreeInv, NEW s \in todo, ApplyKey(s), UNCHANGED <<opVars, told, closed>>
  PROVE  BTreeInv'
<1> USE DEF BTreeInv, ApplyKey, opVars, semVars
<1>1. TypeOK'
  BY DEF TypeOK, SemTypeOK, OwnerTypeOK, KeyOp
<1>2. FinalizeAlone'
  BY DEF FinalizeAlone
<1> QED
  BY <1>1, <1>2, LifecycleStep

LEMMA FinalizePublishKeeps ==
  ASSUME BTreeInv, FinalizePublish, UNCHANGED <<opVars, told, closed>>
  PROVE  BTreeInv'
<1> USE DEF BTreeInv, FinalizePublish, opVars, semVars
<1>1. TypeOK'
  BY LifeType DEF TypeOK, SemTypeOK, OwnerTypeOK, Phase
<1>2. FinalizeAlone'
  BY DEF FinalizeAlone, TypeOK, OwnerTypeOK
<1>3. \A o \in Op : req[o].txn \in Txn => req[o].txn > life.txn
  BY TxnAssumption DEF FinalizeAlone
<1> QED
  BY <1>1, <1>2, <1>3, LifecycleStep

LEMMA LifeReturnsKeep ==
  ASSUME BTreeInv, LifeRelease \/ LifeReturn \/ FinalizeFail,
         UNCHANGED <<opVars, told, closed>>
  PROVE  BTreeInv'
<1> USE DEF BTreeInv, NoCall, opVars, semVars
<1>1. SemTypeOK'
  BY DEF LifeRelease, LifeReturn, FinalizeFail, TypeOK, SemTypeOK, SemRelease,
         SemReleaseThrough
<1>2. /\ life' \in [call : {"none", "commit", "rollback", "finalize"},
                   txn : Txn \cup {0}, phase : Phase]
      /\ FinalizeAlone'
  <2>1. life \in [call : {"none", "commit", "rollback", "finalize"},
                 txn : Txn \cup {0}, phase : Phase]
    BY DEF TypeOK, OwnerTypeOK
  <2>2. CASE LifeRelease
    BY <2>1, <2>2 DEF LifeRelease, FinalizeAlone, Phase
  <2>3. CASE LifeReturn
    BY <2>1, <2>3 DEF LifeReturn, FinalizeAlone, Phase
  <2>4. CASE FinalizeFail
    BY <2>1, <2>4 DEF FinalizeFail, FinalizeAlone, Phase
  <2> QED
    BY <2>2, <2>3, <2>4
<1>3. UNCHANGED <<persistent, committed, pending, finalized, todo>>
  BY DEF LifeRelease, LifeReturn, FinalizeFail
<1>4. TypeOK'
  BY <1>1, <1>2, <1>3 DEF TypeOK, OwnerTypeOK
<1> QED
  BY <1>2, <1>3, <1>4, LifecycleStep

-----------------------------------------------------------------------------
LEMMA StepHolds == BTreeInv /\ [Next]_vars => BTreeInv'
<1> SUFFICES ASSUME BTreeInv, [Next]_vars PROVE BTreeInv'
  OBVIOUS
<1>1. CASE UNCHANGED vars
  <2> USE DEF BTreeInv, vars, semVars, ownerVars, opVars
  <2>1. TypeOK' /\ FinalizeAlone'
    BY <1>1 DEF TypeOK, SemTypeOK, OwnerTypeOK, FinalizeAlone
  <2> QED
    BY <1>1, <2>1, LifecycleStep
<1>2. ASSUME NEW o \in Op, NEW t \in Txn, Start(o, t) PROVE BTreeInv'
  <2>1. ASSUME NEW kind \in WriteKinds, NEW k \in Key, WriteReserve(o, kind, t, k)
        PROVE  BTreeInv'
    BY <2>1, WriteReserveKeeps
  <2>2. ASSUME NEW k \in Key, ReadStart(o, "contains", t, {k}) PROVE BTreeInv'
    BY <2>2, ReadStartKeeps
  <2>3. ASSUME NEW kind \in ReadKinds, ReadStart(o, kind, t, Key) PROVE BTreeInv'
    BY <2>3, ReadStartKeeps
  <2> QED
    BY <1>2, <2>1, <2>2, <2>3 DEF Start
<1>3. ASSUME NEW o \in Op, WriteNext(o) PROVE BTreeInv'
  <2>1. CASE WriteReject(o)
    BY <2>1, GiveUpKeeps DEF WriteReject
  <2> QED
    BY <1>3, <2>1, PendingLookupKeeps, PendingInstallKeeps, WriteFirstKeeps, WriteSecondKeeps
       DEF WriteNext
<1>4. ASSUME NEW o \in Op, ReadNext(o) PROVE BTreeInv'
  BY <1>4, ReadAcquireKeeps, ReadSnapshotKeeps, ReadKeyKeeps, ReadReturnKeeps DEF ReadNext
<1>5. ASSUME NEW o \in Op, Abandon(o) PROVE BTreeInv'
  BY <1>5, GiveUpKeeps DEF Abandon
<1>6. ASSUME NEW t \in Txn,
             CloseTxn(t) \/ Decide(t) \/ CommitAgain(t) \/ Finalize(t) \/ FinalizeNoop(t)
      PROVE  BTreeInv'
  BY <1>6, CloseTxnKeeps, CommitKeeps, RollbackKeeps, FinalizeKeeps, NoopCallsKeep DEF Decide
<1>7. CASE LifeStep
  BY <1>7, ApplyKeyKeeps, FinalizePublishKeeps, LifeReturnsKeep DEF LifeStep
<1>8. CASE LifeFail
  BY <1>8, LifeReturnsKeep DEF LifeFail
<1> QED
  BY <1>1, <1>2, <1>3, <1>4, <1>5, <1>6, <1>7, <1>8 DEF Next

LEMMA Invariance == Spec => []BTreeInv
BY InitHolds, StepHolds, PTL DEF Spec

\* Every variable keeps its type, for any transactions, keys and calls.
THEOREM TypeCorrect == Spec => []TypeOK
<1>1. BTreeInv => TypeOK
  BY DEF BTreeInv
<1> QED
  BY <1>1, Invariance, PTL

\* No delta inserts and deletes one key, whatever calls are interleaved, dropped
\* at an await, or decided.
THEOREM DeltasAreDisjoint == Spec => []DeltaDisjoint
<1>1. BTreeInv => DeltaDisjoint
  BY DEF BTreeInv
<1> QED
  BY <1>1, Invariance, PTL

-----------------------------------------------------------------------------
(***************************************************************************)
(* What a BTree shows its transactions, for any transactions, keys and     *)
(* concurrent calls: reads repeat, wait for earlier changes, and are one   *)
(* snapshot, whatever is decided and materialized meanwhile.               *)
(*                                                                         *)
(* Everything rests on the order of the reservations.  What a transaction  *)
(* has written or has in its delta is reserved for writing                 *)
(* (DeltasAreReserved), what it has been told is reserved (ToldIsReserved),*)
(* and no transaction has a key reserved that an earlier one writes        *)
(* (ReservationsAreOrdered).  So no commit of an earlier transaction       *)
(* reaches a key that a later one depends on.                              *)
(***************************************************************************)

Reading(o) == pc[o] \in ReadHeld /\ req[o].kind # "isEmpty"

\* The lifecycle call: which phases it passes, and what they say of the frontier.
LifeShape ==
  /\ life.phase # "idle" => life.call # "none" /\ life.txn \in Txn
  /\ life.phase \in {"apply", "failed"} => life.call = "finalize" /\ life.txn > finalized
  /\ life.phase = "release" /\ life.call = "finalize" => life.txn = finalized
  /\ life.phase = "ok" /\ life.call = "finalize" => life.txn <= finalized

\* No call runs in a transaction whose commit or rollback is running.
DecidedAlone ==
  life.call \in {"commit", "rollback"} => \A o \in Op : req[o].txn # life.txn

\* A commit or rollback releases nothing that is still of use.
ReleaseIsSafe ==
  life.call \in {"commit", "rollback"} /\ life.phase = "release" =>
    /\ pending[life.txn] = Absent
    /\ \A k \in Key : told[life.txn][k] = "unknown"

\* A pending delta belongs to a transaction that can still write.
DeltasAreOpen ==
  \A t \in Txn : /\ pending[t] # Absent => t > finalized /\ committed[t] = Absent
                 /\ committed[t] # Absent => t > finalized

\* A key that is written is not in use by a later transaction.
ReservationsAreOrdered ==
  \A t, u \in Txn : t < u => writes[t] \cap (reads[u] \cup writes[u]) = {}

\* A permit comes with its reservation, and a read excludes the writes of its
\* transaction.
PermitsAreReserved ==
  /\ \A o \in Op : /\ Reading(o) => req[o].range \subseteq reads[req[o].txn]
                   /\ Writing(o) => req[o].range \subseteq writes[req[o].txn]
  /\ \A o, p \in Op : Reading(o) /\ Writing(p) /\ req[o].txn = req[p].txn =>
       req[o].range \cap req[p].range = {}

DeltasAreReserved ==
  \A t \in Txn : pending[t] # Absent =>
    pending[t].inserts \cup pending[t].deletes \subseteq writes[t]

\* Promises are made to open transactions, beyond any running finalize, about keys
\* that they have reserved.
ToldIsReserved ==
  \A t \in Txn, k \in Key : told[t][k] # "unknown" =>
    /\ Undecided(t)
    /\ life.call = "finalize" => t > life.txn
    /\ k \in reads[t] \cup writes[t]

OrderInv ==
  /\ LifeShape
  /\ DecidedAlone
  /\ ReleaseIsSafe
  /\ DeltasAreOpen
  /\ ReservationsAreOrdered
  /\ PermitsAreReserved
  /\ DeltasAreReserved
  /\ ToldIsReserved

-----------------------------------------------------------------------------
(* Steps of calls.                                                         *)

\* The semaphore sees the permit of every call that holds one.
LEMMA PermitsAreHeld ==
  ASSUME NEW p \in Op, NEW states, pc[p] \in states, req[p].kind # "isEmpty"
  PROVE  req[p].range \subseteq HeldFor(req[p].txn, states)
BY DEF HeldFor

\* While a lifecycle call runs, it has a transaction, and a call in that transaction
\* is under its decision.
LEMMA DecidingTxn ==
  ASSUME BTreeInv, LifeShape, life.call # "none"
  PROVE  life.phase # "idle" /\ life.txn \in Txn /\ life.txn # 0
BY TxnAssumption DEF BTreeInv, FinalizeAlone, LifeShape

LEMMA OrderInit == Init => OrderInv
<1> SUFFICES ASSUME Init PROVE OrderInv
  OBVIOUS
<1> USE DEF Init, OwnerInit, SemInit, NoReq, NoCall
<1>1. LifeShape /\ DecidedAlone /\ ReleaseIsSafe
  BY DEF LifeShape, DecidedAlone, ReleaseIsSafe
<1>2. DeltasAreOpen /\ ReservationsAreOrdered /\ DeltasAreReserved /\ ToldIsReserved
  BY DEF DeltasAreOpen, ReservationsAreOrdered, DeltasAreReserved, ToldIsReserved
<1>3. PermitsAreReserved
  BY DEF PermitsAreReserved, Reading, Writing, ReadHeld, WriteHeld
<1> QED
  BY <1>1, <1>2, <1>3 DEF OrderInv

\* A step that only moves calls, gives none of them a permit, and starts none in a
\* transaction that is being decided.
LEMMA SlotStepOrders ==
  ASSUME BTreeInv, OrderInv, UNCHANGED <<semVars, ownerVars, told>>,
         \A o \in Op : Reading(o)' => Reading(o) /\ req'[o] = req[o],
         \A o \in Op : Writing(o)' => Writing(o) /\ req'[o] = req[o],
         \A o \in Op : req'[o].txn \in {req[o].txn, 0} \/ ~UnderDecision(req'[o].txn)
  PROVE  OrderInv'
<1> USE DEF OrderInv, semVars, ownerVars
<1>1. LifeShape' /\ ReleaseIsSafe'
  BY DEF LifeShape, ReleaseIsSafe
<1>2. DecidedAlone'
  <2> SUFFICES ASSUME life.call \in {"commit", "rollback"}, NEW o \in Op
               PROVE  req'[o].txn # life.txn
    BY DEF DecidedAlone
  <2>1. life.phase # "idle" /\ life.txn # 0
    BY DecidingTxn
  <2> QED
    BY <2>1 DEF DecidedAlone, UnderDecision
<1>3. DeltasAreOpen' /\ ReservationsAreOrdered' /\ DeltasAreReserved'
  BY DEF DeltasAreOpen, ReservationsAreOrdered, DeltasAreReserved
<1>4. ToldIsReserved'
  BY DEF ToldIsReserved, Undecided
<1>5. PermitsAreReserved'
  BY DEF PermitsAreReserved
<1> QED
  BY <1>1, <1>2, <1>3, <1>4, <1>5

\* Leaving a call.
LEMMA GiveUpOrders ==
  ASSUME BTreeInv, OrderInv, NEW o \in Op, Finish(o),
         UNCHANGED <<semVars, ownerVars, told, closed>>
  PROVE  OrderInv'
<1>1. /\ pc'[o] = "idle" /\ req'[o].txn = 0
      /\ \A p \in Op : p # o => pc'[p] = pc[p] /\ req'[p] = req[p]
  BY FinishType
<1>2. \A p \in Op : Reading(p)' \/ Writing(p)' => p # o
  BY <1>1 DEF Reading, Writing, ReadHeld, WriteHeld
<1> QED
  BY <1>1, <1>2, SlotStepOrders DEF Reading, Writing

LEMMA PendingLookupOrders ==
  ASSUME BTreeInv, OrderInv, NEW o \in Op, PendingLookup(o)
  PROVE  OrderInv'
<1>1. /\ pc[o] = "lookup" /\ pc'[o] \in {"create", "first"}
      /\ \A p \in Op : p # o => pc'[p] = pc[p]
      /\ req' = req /\ UNCHANGED <<semVars, ownerVars, told>>
  BY DEF PendingLookup, Goto, BTreeInv, TypeOK
<1>2. \A p \in Op : (Reading(p)' <=> Reading(p)) /\ (Writing(p)' <=> Writing(p))
  BY <1>1 DEF Reading, Writing, ReadHeld, WriteHeld
<1> QED
  BY <1>1, <1>2, SlotStepOrders

LEMMA ReadStartOrders ==
  ASSUME BTreeInv, OrderInv, NEW o \in Op, NEW kind \in {"contains"} \cup ReadKinds,
         NEW t \in Txn, NEW range \in SUBSET Key, ReadStart(o, kind, t, range)
  PROVE  OrderInv'
<1>1. /\ pc[o] = "idle"
      /\ pc'[o] = IF kind = "isEmpty" THEN "snapshot" ELSE "waiting"
      /\ req'[o] = [kind |-> kind, txn |-> t, range |-> range]
      /\ \A p \in Op : p # o => pc'[p] = pc[p] /\ req'[p] = req[p]
      /\ UNCHANGED <<semVars, ownerVars, told>>
  BY DEF ReadStart, BTreeInv, TypeOK
<1>2. \A p \in Op : Reading(p)' \/ Writing(p)' => p # o
  BY <1>1 DEF Reading, Writing, ReadHeld, WriteHeld
<1>3. ~UnderDecision(t)
  BY DEF ReadStart, MayStart
<1> QED
  BY <1>1, <1>2, <1>3, SlotStepOrders DEF Reading, Writing

LEMMA ReadSnapshotOrders ==
  ASSUME BTreeInv, OrderInv, NEW o \in Op, ReadSnapshot(o)
  PROVE  OrderInv'
<1>1. /\ pc[o] = "snapshot" /\ pc'[o] = "reading"
      /\ \A p \in Op : p # o => pc'[p] = pc[p]
      /\ req' = req /\ UNCHANGED <<semVars, ownerVars, told>>
  BY DEF ReadSnapshot, BTreeInv, TypeOK
<1>2. \A p \in Op : (Reading(p)' <=> Reading(p)) /\ (Writing(p)' <=> Writing(p))
  BY <1>1 DEF Reading, Writing, ReadHeld, WriteHeld
<1> QED
  BY <1>1, <1>2, SlotStepOrders

LEMMA ReadKeyOrders ==
  ASSUME BTreeInv, OrderInv, NEW o \in Op, NEW k \in Key, ReadKey(o, k)
  PROVE  OrderInv'
BY SlotStepOrders DEF ReadKey, Reading, Writing

LEMMA ReadAcquireOrders ==
  ASSUME BTreeInv, OrderInv, NEW o \in Op, ReadAcquire(o)
  PROVE  OrderInv'
<1> USE DEF OrderInv, BTreeInv
<1> DEFINE t == req[o].txn
           range == req[o].range
<1>1. /\ pc[o] = "waiting" /\ pc'[o] = "snapshot" /\ req' = req /\ t \in Txn
      /\ \A p \in Op : p # o => pc'[p] = pc[p]
      /\ UNCHANGED <<ownerVars, told, writes>>
      /\ reads'[t] = reads[t] \cup range
      /\ \A u \in Txn : u # t => reads'[u] = reads[u]
      /\ \A u \in Txn : u < t => writes[u] \cap range = {}
  BY DEF ReadAcquire, ReserveRead, Goto, CanRead, EarlierWrite, TypeOK, SemTypeOK, Started
<1>2. LifeShape' /\ ReleaseIsSafe' /\ DecidedAlone' /\ DeltasAreOpen' /\ DeltasAreReserved'
  BY <1>1 DEF LifeShape, ReleaseIsSafe, DecidedAlone, DeltasAreOpen, DeltasAreReserved, ownerVars
<1>3. ReservationsAreOrdered'
  BY <1>1 DEF ReservationsAreOrdered
<1>4. \A u \in Txn : reads[u] \subseteq reads'[u]
  BY <1>1
<1>5. ToldIsReserved'
  BY <1>1, <1>4 DEF ToldIsReserved, Undecided, ownerVars
<1>6. PermitsAreReserved'
  <2>1. \A p \in Op : /\ Reading(p)' => p = o \/ Reading(p)
                      /\ Writing(p)' <=> Writing(p)
                      /\ Reading(p) \/ Writing(p) => req[p].txn \in Txn
    BY <1>1 DEF Reading, Writing, ReadHeld, WriteHeld, Started
  <2>2. \A p \in Op : Writing(p) /\ req[p].txn = t => range \cap req[p].range = {}
    <3> SUFFICES ASSUME NEW p \in Op, Writing(p), req[p].txn = t
                 PROVE  range \cap req[p].range = {}
      OBVIOUS
    <3>1. req[p].kind # "isEmpty"
      BY DEF WritePermits, WriteKinds
    <3>2. req[p].range \subseteq HeldFor(t, WriteHeld)
      BY <3>1, PermitsAreHeld DEF Writing
    <3> QED
      BY <3>2 DEF ReadAcquire, CanRead
  <2> QED
    BY <1>1, <1>4, <2>1, <2>2 DEF PermitsAreReserved
<1> QED
  BY <1>2, <1>3, <1>5, <1>6

LEMMA WriteReserveOrders ==
  ASSUME BTreeInv, OrderInv, NEW o \in Op, NEW kind \in WriteKinds, NEW t \in Txn, NEW k \in Key,
         WriteReserve(o, kind, t, k)
  PROVE  OrderInv'
<1> USE DEF OrderInv, BTreeInv
<1>1. /\ pc[o] = "idle" /\ pc'[o] = "lookup"
      /\ req'[o] = [kind |-> kind, txn |-> t, range |-> {k}]
      /\ \A p \in Op : p # o => pc'[p] = pc[p] /\ req'[p] = req[p]
      /\ UNCHANGED <<ownerVars, told, reads>>
      /\ writes'[t] = writes[t] \cup {k}
      /\ \A u \in Txn : u # t => writes'[u] = writes[u]
      /\ \A u \in Txn : u < t => k \notin writes[u]
      /\ \A u \in Txn : u > t => k \notin reads[u] \cup writes[u]
      /\ ~UnderDecision(t)
  BY DEF WriteReserve, ReserveWrite, CanWrite, EarlierWrite, LaterUse, MayStart, TypeOK, SemTypeOK
<1>2. LifeShape' /\ ReleaseIsSafe' /\ DeltasAreOpen'
  BY <1>1 DEF LifeShape, ReleaseIsSafe, DeltasAreOpen, ownerVars
<1>3. DecidedAlone'
  BY <1>1, DecidingTxn DEF DecidedAlone, UnderDecision, ownerVars
<1>4. ReservationsAreOrdered'
  <2> SUFFICES ASSUME NEW u \in Txn, NEW v \in Txn, u < v
               PROVE  writes'[u] \cap (reads[v] \cup writes'[v]) = {}
    BY <1>1 DEF ReservationsAreOrdered
  <2>1. writes[u] \cap (reads[v] \cup writes[v]) = {}
    BY DEF ReservationsAreOrdered
  <2>2. u \in Nat /\ v \in Nat
    BY TxnNat
  <2> QED
    BY <1>1, <2>1, <2>2
<1>5. \A u \in Txn : writes[u] \subseteq writes'[u]
  BY <1>1
<1>6. DeltasAreReserved' /\ ToldIsReserved'
  BY <1>1, <1>5 DEF DeltasAreReserved, ToldIsReserved, Undecided, ownerVars
<1>7. PermitsAreReserved'
  <2>1. \A p \in Op : /\ Reading(p)' => p # o /\ Reading(p) /\ req'[p] = req[p]
                      /\ Writing(p)' => p = o \/ (Writing(p) /\ req'[p] = req[p])
                      /\ Reading(p) \/ Writing(p) => req[p].txn \in Txn
    BY <1>1 DEF Reading, Writing, ReadHeld, WriteHeld, Started
  <2>2. \A p \in Op : Reading(p) /\ req[p].txn = t => k \notin req[p].range
    <3> SUFFICES ASSUME NEW p \in Op, Reading(p), req[p].txn = t
                 PROVE  k \notin req[p].range
      OBVIOUS
    <3>1. req[p].range \subseteq HeldFor(t, ReadHeld \cup WriteHeld)
      BY PermitsAreHeld DEF Reading
    <3> QED
      BY <3>1 DEF WriteReserve, CanWrite
  <2> QED
    BY <1>1, <1>5, <2>1, <2>2 DEF PermitsAreReserved
<1> QED
  BY <1>2, <1>3, <1>4, <1>6, <1>7

\* The second locked region of pending_delta_for_txn, and the two native steps: the
\* delta of the call's transaction changes only at the key that the call has reserved.
LEMMA WriteStepOrders ==
  ASSUME BTreeInv, BTreeInv', OrderInv, NEW o \in Op, Writing(o),
         UNCHANGED <<semVars, persistent, committed, finalized, life, todo>>,
         \A p \in Op : Reading(p)' => Reading(p) /\ req'[p] = req[p],
         \A p \in Op : Writing(p)' => Writing(p) /\ req'[p] = req[p],
         \A p \in Op : req'[p].txn \in {req[p].txn, 0},
         \A t \in Txn : t # req[o].txn => pending'[t] = pending[t] /\ told'[t] = told[t],
         Undecided(req[o].txn),
         LET d == pending'[req[o].txn]
         IN  d \in Delta /\ \A k \in d.inserts \cup d.deletes : 
               k \in req[o].range \/ /\ pending[req[o].txn] # Absent
                                     /\ Mentions(pending[req[o].txn], k),
         \A k \in Key : told'[req[o].txn][k] # "unknown" =>
           k \in req[o].range \/ told[req[o].txn][k] # "unknown"
  PROVE  OrderInv'
<1> USE DEF OrderInv, BTreeInv, semVars
<1> DEFINE t == req[o].txn
<1>1. /\ t \in Txn /\ t # 0
      /\ req[o].range \subseteq writes[t]
  BY TxnAssumption DEF Started, Writing, WriteHeld, PermitsAreReserved
<1>2. life.call = "finalize" => t > life.txn
  BY <1>1 DEF FinalizeAlone
<1>3. life.call \in {"commit", "rollback"} => t # life.txn /\ life.txn # 0
  BY <1>1, DecidingTxn DEF DecidedAlone
<1>4. LifeShape' /\ DecidedAlone' /\ ReleaseIsSafe'
  <2>1. LifeShape'
    BY DEF LifeShape
  <2>2. DecidedAlone'
    BY <1>3 DEF DecidedAlone
  <2>3. ReleaseIsSafe'
    BY <1>3, DecidingTxn DEF ReleaseIsSafe
  <2> QED
    BY <2>1, <2>2, <2>3
<1>5. DeltasAreOpen'
  BY DEF DeltasAreOpen, Undecided
<1>6. ReservationsAreOrdered'
  BY DEF ReservationsAreOrdered
<1>7. PermitsAreReserved'
  BY DEF PermitsAreReserved
<1>8. DeltasAreReserved'
  BY <1>1 DEF DeltasAreReserved, Mentions
<1>9. ToldIsReserved'
  BY <1>1, <1>2 DEF ToldIsReserved, Undecided
<1> QED
  BY <1>4, <1>5, <1>6, <1>7, <1>8, <1>9

\* A write whose delta is in place belongs to an undecided transaction.
LEMMA WriterIsUndecided ==
  ASSUME BTreeInv, DeltasAreOpen, NEW o \in Op, pc[o] \in {"first", "second"}
  PROVE  Undecided(req[o].txn)
BY DEF BTreeInv, DeltaInPlace, Started, DeltasAreOpen, Undecided

LEMMA PendingInstallOrders ==
  ASSUME BTreeInv, BTreeInv', OrderInv, NEW o \in Op, PendingInstall(o)
  PROVE  OrderInv'
<1> DEFINE t == req[o].txn
<1>1. /\ pc[o] = "create" /\ pc'[o] = "first" /\ req' = req /\ t \in Txn
      /\ \A p \in Op : p # o => pc'[p] = pc[p]
      /\ UNCHANGED <<semVars, persistent, committed, finalized, life, todo, told>>
      /\ \A u \in Txn : u # t => pending'[u] = pending[u]
      /\ pending'[t] = IF pending[t] = Absent THEN EmptyDelta ELSE pending[t]
      /\ Undecided(t)
  BY DEF PendingInstall, Goto, BTreeInv, TypeOK, OwnerTypeOK, Started, AssertWritable, Undecided
<1>2. \A p \in Op : (Reading(p)' <=> Reading(p)) /\ (Writing(p)' <=> Writing(p))
  BY <1>1 DEF Reading, Writing, ReadHeld, WriteHeld
<1>3. Writing(o)
  BY <1>1 DEF Writing, WriteHeld
<1>4. /\ pending'[t] \in Delta
      /\ \A k \in pending'[t].inserts \cup pending'[t].deletes :
           pending[t] # Absent /\ Mentions(pending[t], k)
  BY <1>1 DEF BTreeInv, TypeOK, OwnerTypeOK, EmptyDelta, Delta, DeltaOver, Mentions
<1> QED
  BY <1>1, <1>2, <1>3, <1>4, WriteStepOrders

LEMMA WriteFirstOrders ==
  ASSUME BTreeInv, BTreeInv', OrderInv, NEW o \in Op, WriteFirst(o)
  PROVE  OrderInv'
<1> DEFINE t == req[o].txn
<1>1. /\ pc[o] = "first" /\ pc'[o] = "second" /\ req' = req /\ t \in Txn
      /\ \A p \in Op : p # o => pc'[p] = pc[p]
      /\ UNCHANGED <<semVars, persistent, committed, finalized, life, todo>>
      /\ \A u \in Txn : u # t => pending'[u] = pending[u] /\ told'[u] = told[u]
      /\ pending'[t] = FirstStep(o, pending[t])
      /\ pending[t] \in Delta
      /\ \A k \in Key : told'[t][k] \in {told[t][k], "unknown"}
  BY DEF WriteFirst, Goto, BTreeInv, TypeOK, OwnerTypeOK, Started, DeltaInPlace
<1>2. Undecided(t)
  BY <1>1, WriterIsUndecided DEF OrderInv
<1>3. \A p \in Op : (Reading(p)' <=> Reading(p)) /\ (Writing(p)' <=> Writing(p))
  BY <1>1 DEF Reading, Writing, ReadHeld, WriteHeld
<1>4. Writing(o)
  BY <1>1 DEF Writing, WriteHeld
<1>5. /\ pending'[t] \in Delta
      /\ \A k \in pending'[t].inserts \cup pending'[t].deletes :
           pending[t] # Absent /\ Mentions(pending[t], k)
  BY <1>1, FirstStepKeeps, AbsentAssumption DEF Mentions
<1> QED
  BY <1>1, <1>2, <1>3, <1>4, <1>5, WriteStepOrders

LEMMA WriteSecondOrders ==
  ASSUME BTreeInv, BTreeInv', OrderInv, NEW o \in Op, WriteSecond(o)
  PROVE  OrderInv'
<1> DEFINE t == req[o].txn
<1>1. /\ pc[o] = "second" /\ t \in Txn
      /\ UNCHANGED <<semVars, persistent, committed, finalized, life, todo>>
      /\ \A u \in Txn : u # t => pending'[u] = pending[u] /\ told'[u] = told[u]
      /\ pending'[t] = SecondStep(o, pending[t])
      /\ pending[t] \in Delta
      /\ \A k \in Key : k # TheKey(o) => told'[t][k] = told[t][k]
  BY DEF WriteSecond, BTreeInv, TypeOK, OwnerTypeOK, Started, DeltaInPlace
<1>2. Undecided(t)
  BY <1>1, WriterIsUndecided DEF OrderInv
<1>3. /\ pc'[o] = "idle" /\ req'[o].txn = 0
      /\ \A p \in Op : p # o => pc'[p] = pc[p] /\ req'[p] = req[p]
  BY FinishType DEF WriteSecond
<1>4. \A p \in Op : /\ Reading(p)' => Reading(p) /\ req'[p] = req[p]
                    /\ Writing(p)' => Writing(p) /\ req'[p] = req[p]
                    /\ req'[p].txn \in {req[p].txn, 0}
  BY <1>3 DEF Reading, Writing, ReadHeld, WriteHeld
<1>5. Writing(o)
  BY <1>1 DEF Writing, WriteHeld
<1>6. TheKey(o) \in Key /\ req[o].range = {TheKey(o)}
  BY <1>5, KeyOfWrite DEF BTreeInv
<1>7. /\ pending'[t] \in Delta
      /\ \A k \in pending'[t].inserts \cup pending'[t].deletes :
           k \in req[o].range \/ (pending[t] # Absent /\ Mentions(pending[t], k))
  BY <1>1, <1>6, SecondStepKeeps, AbsentAssumption DEF Mentions
<1>8. \A k \in Key : told'[t][k] # "unknown" => k \in req[o].range \/ told[t][k] # "unknown"
  BY <1>1, <1>6
<1> QED
  BY <1>1, <1>2, <1>4, <1>5, <1>7, <1>8, WriteStepOrders

LEMMA ReadReturnOrders ==
  ASSUME BTreeInv, BTreeInv', OrderInv, NEW o \in Op, ReadReturn(o)
  PROVE  OrderInv'
<1> USE DEF OrderInv, BTreeInv, semVars, ownerVars
<1> DEFINE t == req[o].txn
<1>1. /\ pc[o] = "reading" /\ t \in Txn /\ t # 0
      /\ UNCHANGED <<semVars, ownerVars>>
      /\ pc'[o] = "idle" /\ req'[o].txn = 0
      /\ \A p \in Op : p # o => pc'[p] = pc[p] /\ req'[p] = req[p]
  BY FinishType, TxnAssumption DEF ReadReturn, Started
<1>2. \A u \in Txn, k \in Key : told'[u][k] # "unknown" =>
        \/ told[u][k] # "unknown"
        \/ u = t /\ k \in req[o].range /\ Undecided(t) /\ Reading(o)
  BY <1>1 DEF ReadReturn, TypeOK, Reading, ReadHeld
<1>3. life.call = "finalize" => t > life.txn
  BY <1>1 DEF FinalizeAlone
<1>4. life.call \in {"commit", "rollback"} => t # life.txn /\ life.txn \in Txn /\ life.txn # 0
  BY <1>1, DecidingTxn DEF DecidedAlone
<1>5. LifeShape' /\ DeltasAreOpen' /\ ReservationsAreOrdered' /\ DeltasAreReserved'
  BY <1>1 DEF LifeShape, DeltasAreOpen, ReservationsAreOrdered, DeltasAreReserved
<1>6. DecidedAlone'
  BY <1>1, <1>4 DEF DecidedAlone
<1>7. ReleaseIsSafe'
  BY <1>1, <1>2, <1>4 DEF ReleaseIsSafe
<1>8. PermitsAreReserved'
  <2>1. \A p \in Op : /\ Reading(p)' => Reading(p) /\ req'[p] = req[p]
                      /\ Writing(p)' => Writing(p) /\ req'[p] = req[p]
    BY <1>1 DEF Reading, Writing, ReadHeld, WriteHeld
  <2> QED
    BY <1>1, <2>1 DEF PermitsAreReserved
<1>9. ToldIsReserved'
  <2>1. Reading(o) => req[o].range \subseteq reads[t]
    BY DEF PermitsAreReserved
  <2> QED
    BY <1>1, <1>2, <1>3, <2>1 DEF ToldIsReserved, Undecided
<1> QED
  BY <1>5, <1>6, <1>7, <1>8, <1>9

-----------------------------------------------------------------------------
(* The caller and its lifecycle calls.                                     *)

LEMMA CloseTxnOrders ==
  ASSUME BTreeInv, OrderInv, NEW t \in Txn, CloseTxn(t)
  PROVE  OrderInv'
BY SlotStepOrders DEF CloseTxn, opVars, Reading, Writing

\* Permits depend on the calls and on the reservations alone.
LEMMA SamePermits ==
  ASSUME PermitsAreReserved, UNCHANGED <<opVars, semVars>>
  PROVE  PermitsAreReserved'
BY DEF PermitsAreReserved, Reading, Writing, opVars, semVars

LEMMA DecideOrders ==
  ASSUME BTreeInv, BTreeInv', OrderInv, NEW t \in Txn, Commit(t) \/ Rollback(t)
  PROVE  OrderInv'
<1> USE DEF OrderInv, BTreeInv
<1>1. /\ life.phase = "idle" /\ t > finalized /\ committed[t] = Absent
      /\ life'.phase = "release" /\ life'.txn = t /\ life'.call \in {"commit", "rollback"}
      /\ \A o \in Op : req[o].txn # t
      /\ UNCHANGED <<opVars, semVars, persistent, finalized, todo>>
      /\ pending' = [pending EXCEPT ![t] = Absent]
      /\ \A u \in Txn : u # t => committed'[u] = committed[u]
      /\ \A u \in Txn, k \in Key : told'[u][k] # "unknown" => u # t /\ told[u][k] # "unknown"
      /\ \A k \in Key : told'[t][k] = "unknown"
  BY DEF Commit, Rollback, CommitDecide, RollbackDecide, Decided, Quiet, Forget, TypeOK, OwnerTypeOK
<1>2. /\ pending'[t] = Absent
      /\ \A u \in Txn : u # t => pending'[u] = pending[u]
  BY <1>1 DEF TypeOK, OwnerTypeOK
<1>3. LifeShape' /\ DecidedAlone' /\ ReleaseIsSafe'
  BY <1>1, <1>2 DEF LifeShape, DecidedAlone, ReleaseIsSafe, opVars
<1>4. DeltasAreOpen' /\ DeltasAreReserved'
  BY <1>1, <1>2 DEF DeltasAreOpen, DeltasAreReserved, semVars
<1>5. ReservationsAreOrdered' /\ PermitsAreReserved'
  BY <1>1, SamePermits DEF ReservationsAreOrdered, semVars
<1>6. ToldIsReserved'
  BY <1>1 DEF ToldIsReserved, Undecided, semVars
<1> QED
  BY <1>3, <1>4, <1>5, <1>6

LEMMA NoopCallsOrder ==
  ASSUME BTreeInv, OrderInv, NEW t \in Txn, CommitAgain(t) \/ FinalizeNoop(t)
  PROVE  OrderInv'
<1> USE DEF OrderInv, BTreeInv
<1>1. /\ life.phase = "idle"
      /\ life'.phase = "ok" /\ life'.txn = t
      /\ \/ life'.call = "finalize" /\ t <= finalized
         \/ life'.call = "commit" /\ \A o \in Op : req[o].txn # t
      /\ UNCHANGED <<opVars, semVars, persistent, committed, pending, finalized, todo, told>>
  BY DEF CommitAgain, FinalizeNoop, CommitDuplicate, FinalizeStale, Quiet
<1>2. LifeShape' /\ DecidedAlone' /\ ReleaseIsSafe'
  BY <1>1 DEF LifeShape, DecidedAlone, ReleaseIsSafe, opVars
<1>3. DeltasAreOpen' /\ DeltasAreReserved'
  BY <1>1 DEF DeltasAreOpen, DeltasAreReserved, semVars
<1>4. ReservationsAreOrdered' /\ PermitsAreReserved'
  BY <1>1, SamePermits DEF ReservationsAreOrdered, semVars
<1>5. ToldIsReserved'
  <2>1. finalized \in Nat /\ t \in Nat
    BY TxnNat DEF TypeOK, OwnerTypeOK
  <2> QED
    BY <1>1, <2>1, TxnNat DEF ToldIsReserved, Undecided, semVars
<1> QED
  BY <1>2, <1>3, <1>4, <1>5

LEMMA FinalizeOrders ==
  ASSUME BTreeInv, OrderInv, NEW t \in Txn, Finalize(t)
  PROVE  OrderInv'
<1> USE DEF OrderInv, BTreeInv
<1>1. /\ life.phase = "idle" /\ t > finalized
      /\ life' = [call |-> "finalize", txn |-> t, phase |-> "apply"]
      /\ UNCHANGED <<opVars, semVars, persistent, committed, pending, finalized>>
      /\ \A u \in Txn, k \in Key :
           told'[u][k] # "unknown" => ~(u <= t) /\ told[u][k] # "unknown"
  BY DEF Finalize, FinalizeBegin, Forget
<1>2. LifeShape' /\ DecidedAlone' /\ ReleaseIsSafe'
  BY <1>1 DEF LifeShape, DecidedAlone, ReleaseIsSafe
<1>3. DeltasAreOpen' /\ DeltasAreReserved'
  BY <1>1 DEF DeltasAreOpen, DeltasAreReserved, semVars
<1>4. ReservationsAreOrdered' /\ PermitsAreReserved'
  BY <1>1, SamePermits DEF ReservationsAreOrdered, semVars
<1>5. ToldIsReserved'
  BY <1>1, TxnNat DEF ToldIsReserved, Undecided, semVars
<1> QED
  BY <1>2, <1>3, <1>4, <1>5

LEMMA ApplyOrders ==
  ASSUME BTreeInv, OrderInv, UNCHANGED <<opVars, told, closed>>,
         (\E s \in todo : ApplyKey(s)) \/ FinalizeFail
  PROVE  OrderInv'
<1> USE DEF OrderInv, BTreeInv
<1>1. /\ life.phase = "apply" /\ life'.call = life.call /\ life'.txn = life.txn
      /\ life'.phase \in {"apply", "failed"}
      /\ UNCHANGED <<opVars, semVars, committed, pending, finalized, told>>
  BY DEF ApplyKey, FinalizeFail, TypeOK, OwnerTypeOK
<1>2. LifeShape' /\ DecidedAlone' /\ ReleaseIsSafe'
  BY <1>1 DEF LifeShape, DecidedAlone, ReleaseIsSafe, opVars
<1>3. DeltasAreOpen' /\ DeltasAreReserved'
  BY <1>1 DEF DeltasAreOpen, DeltasAreReserved, semVars
<1>4. ReservationsAreOrdered' /\ PermitsAreReserved'
  BY <1>1, SamePermits DEF ReservationsAreOrdered, semVars
<1>5. ToldIsReserved'
  BY <1>1 DEF ToldIsReserved, Undecided, semVars
<1> QED
  BY <1>2, <1>3, <1>4, <1>5

LEMMA FinalizePublishOrders ==
  ASSUME BTreeInv, OrderInv, FinalizePublish, UNCHANGED <<opVars, told, closed>>
  PROVE  OrderInv'
<1> USE DEF OrderInv, BTreeInv
<1>1. /\ life.phase = "apply" /\ life.call = "finalize" /\ life.txn > finalized
      /\ life.txn \in Txn
      /\ life'.call = "finalize" /\ life'.txn = life.txn /\ life'.phase = "release"
      /\ finalized' = life.txn
      /\ \A u \in Txn : /\ committed'[u] = IF u > life.txn THEN committed[u] ELSE Absent
                        /\ pending'[u] = IF u > life.txn THEN pending[u] ELSE Absent
      /\ UNCHANGED <<opVars, semVars, told>>
  BY DEF FinalizePublish, LifeShape, TypeOK, OwnerTypeOK
<1>2. LifeShape' /\ DecidedAlone' /\ ReleaseIsSafe'
  BY <1>1 DEF LifeShape, DecidedAlone, ReleaseIsSafe
<1>3. DeltasAreOpen' /\ DeltasAreReserved'
  BY <1>1 DEF DeltasAreOpen, DeltasAreReserved, semVars
<1>4. ReservationsAreOrdered' /\ PermitsAreReserved'
  BY <1>1, SamePermits DEF ReservationsAreOrdered, semVars
<1>5. ToldIsReserved'
  BY <1>1 DEF ToldIsReserved, Undecided, semVars
<1> QED
  BY <1>2, <1>3, <1>4, <1>5

\* The transactions whose reservations a call releases.
LEMMA LifeReleaseOrders ==
  ASSUME BTreeInv, OrderInv, LifeRelease, UNCHANGED <<opVars, told, closed>>
  PROVE  OrderInv'
<1> USE DEF OrderInv, BTreeInv
<1> DEFINE Gone(u) == IF life.call = "finalize" THEN u <= life.txn ELSE u = life.txn
<1>1. /\ life.phase = "release" /\ life.txn \in Txn /\ life.call # "none"
      /\ life.call \in {"commit", "rollback", "finalize"}
      /\ life'.call = life.call /\ life'.txn = life.txn /\ life'.phase = "ok"
      /\ UNCHANGED <<opVars, persistent, committed, pending, finalized, told>>
      /\ \A u \in Txn : /\ reads'[u] \subseteq reads[u] /\ writes'[u] \subseteq writes[u]
                        /\ ~Gone(u) => reads'[u] = reads[u] /\ writes'[u] = writes[u]
  <2>1. life.phase = "release" /\ life.txn \in Txn
    BY DEF LifeRelease, LifeShape
  <2>2. life \in [call : {"none", "commit", "rollback", "finalize"},
                  txn : Txn \cup {0}, phase : Phase]
    BY DEF TypeOK, OwnerTypeOK
  <2>3. life.call # "none"
    BY <2>1 DEF LifeShape
  <2>4. CASE life.call = "finalize"
    BY <2>1, <2>2, <2>3, <2>4 DEF LifeRelease, SemReleaseThrough, TypeOK, SemTypeOK
  <2>5. CASE life.call # "finalize"
    BY <2>1, <2>2, <2>3, <2>5 DEF LifeRelease, SemRelease, TypeOK, SemTypeOK
  <2> QED
    BY <2>4, <2>5
<1>2. \A o \in Op : req[o].txn \in Txn => ~Gone(req[o].txn)
  <2>1. \A u \in Txn : u \in Nat /\ u # 0
    BY TxnAssumption
  <2> QED
    BY <1>1, <2>1 DEF FinalizeAlone, DecidedAlone
<1>3. \A u \in Txn : pending[u] # Absent => ~Gone(u)
  BY <1>1, TxnNat DEF DeltasAreOpen, ReleaseIsSafe, LifeShape
<1>4. \A u \in Txn, k \in Key : told[u][k] # "unknown" => ~Gone(u)
  BY <1>1, TxnNat DEF ToldIsReserved, ReleaseIsSafe
<1> HIDE DEF Gone
<1>5. LifeShape'
  <2>1. life.call = "finalize" => life.txn = finalized
    BY <1>1 DEF LifeShape
  <2>2. life.txn \in Nat
    BY <1>1, TxnNat
  <2> QED
    BY <1>1, <2>1, <2>2 DEF LifeShape
<1>6. DecidedAlone' /\ ReleaseIsSafe'
  BY <1>1 DEF DecidedAlone, ReleaseIsSafe, opVars
<1>7. DeltasAreOpen' /\ DeltasAreReserved'
  BY <1>1, <1>3 DEF DeltasAreOpen, DeltasAreReserved
<1>8. ReservationsAreOrdered'
  BY <1>1 DEF ReservationsAreOrdered
<1>9. PermitsAreReserved'
  <2>1. \A o \in Op : Reading(o) \/ Writing(o) => req[o].txn \in Txn
    BY DEF Reading, Writing, ReadHeld, WriteHeld, Started
  <2>2. \A o \in Op : (Reading(o)' <=> Reading(o)) /\ (Writing(o)' <=> Writing(o)) /\ req'[o] = req[o]
    BY <1>1 DEF Reading, Writing, opVars
  <2> QED
    BY <1>1, <1>2, <2>1, <2>2 DEF PermitsAreReserved
<1>10. ToldIsReserved'
  BY <1>1, <1>4 DEF ToldIsReserved, Undecided
<1> QED
  BY <1>5, <1>6, <1>7, <1>8, <1>9, <1>10

LEMMA LifeReturnOrders ==
  ASSUME BTreeInv, OrderInv, LifeReturn, UNCHANGED <<opVars, told, closed>>
  PROVE  OrderInv'
<1> USE DEF OrderInv, BTreeInv
<1>1. /\ life'.call = "none" /\ life'.phase = "idle"
      /\ UNCHANGED <<opVars, semVars, persistent, committed, pending, finalized, told>>
  BY DEF LifeReturn, NoCall
<1>2. LifeShape' /\ DecidedAlone' /\ ReleaseIsSafe'
  BY <1>1 DEF LifeShape, DecidedAlone, ReleaseIsSafe
<1>3. DeltasAreOpen' /\ DeltasAreReserved'
  BY <1>1 DEF DeltasAreOpen, DeltasAreReserved, semVars
<1>4. ReservationsAreOrdered' /\ PermitsAreReserved'
  BY <1>1, SamePermits DEF ReservationsAreOrdered, semVars
<1>5. ToldIsReserved'
  BY <1>1 DEF ToldIsReserved, Undecided, semVars
<1> QED
  BY <1>2, <1>3, <1>4, <1>5

-----------------------------------------------------------------------------
LEMMA OrderStep == BTreeInv /\ BTreeInv' /\ OrderInv /\ [Next]_vars => OrderInv'
<1> SUFFICES ASSUME BTreeInv, BTreeInv', OrderInv, [Next]_vars PROVE OrderInv'
  OBVIOUS
<1>1. CASE UNCHANGED vars
  BY <1>1, SlotStepOrders DEF vars, opVars, Reading, Writing
<1>2. ASSUME NEW o \in Op, NEW t \in Txn, Start(o, t) PROVE OrderInv'
  <2>1. ASSUME NEW kind \in WriteKinds, NEW k \in Key, WriteReserve(o, kind, t, k)
        PROVE  OrderInv'
    BY <2>1, WriteReserveOrders
  <2>2. ASSUME NEW k \in Key, ReadStart(o, "contains", t, {k}) PROVE OrderInv'
    BY <2>2, ReadStartOrders
  <2>3. ASSUME NEW kind \in ReadKinds, ReadStart(o, kind, t, Key) PROVE OrderInv'
    BY <2>3, ReadStartOrders
  <2> QED
    BY <1>2, <2>1, <2>2, <2>3 DEF Start
<1>3. ASSUME NEW o \in Op, WriteNext(o) PROVE OrderInv'
  <2>1. CASE WriteReject(o)
    BY <2>1, GiveUpOrders DEF WriteReject
  <2> QED
    BY <1>3, <2>1, PendingLookupOrders, PendingInstallOrders, WriteFirstOrders, WriteSecondOrders
       DEF WriteNext
<1>4. ASSUME NEW o \in Op, ReadNext(o) PROVE OrderInv'
  BY <1>4, ReadAcquireOrders, ReadSnapshotOrders, ReadKeyOrders, ReadReturnOrders DEF ReadNext
<1>5. ASSUME NEW o \in Op, Abandon(o) PROVE OrderInv'
  BY <1>5, GiveUpOrders DEF Abandon
<1>6. ASSUME NEW t \in Txn,
             CloseTxn(t) \/ Decide(t) \/ CommitAgain(t) \/ Finalize(t) \/ FinalizeNoop(t)
      PROVE  OrderInv'
  BY <1>6, CloseTxnOrders, DecideOrders, NoopCallsOrder, FinalizeOrders DEF Decide
<1>7. CASE LifeStep
  BY <1>7, ApplyOrders, FinalizePublishOrders, LifeReleaseOrders, LifeReturnOrders DEF LifeStep
<1>8. CASE LifeFail
  BY <1>8, ApplyOrders DEF LifeFail
<1> QED
  BY <1>1, <1>2, <1>3, <1>4, <1>5, <1>6, <1>7, <1>8 DEF Next

LEMMA OrderInvariance == Spec => [](BTreeInv /\ OrderInv)
<1>1. Init => OrderInv
  BY OrderInit
<1>2. BTreeInv /\ BTreeInv' /\ OrderInv /\ [Next]_vars => OrderInv'
  BY OrderStep
<1> QED
  BY <1>1, <1>2, Invariance, PTL DEF Spec

-----------------------------------------------------------------------------
\* Through the frontier nothing but canonical storage is left, so that workspaces
\* can be removed, whatever is written, dropped or decided meanwhile.
THEOREM NothingIsLeftBehind == Spec => []FrontierIsPruned
<1>1. BTreeInv /\ OrderInv => FrontierIsPruned
  <2> SUFFICES ASSUME BTreeInv, OrderInv, NEW t \in Txn, t <= finalized
               PROVE  pending[t] = Absent /\ committed[t] = Absent
    BY DEF FrontierIsPruned
  <2>1. t \in Nat /\ finalized \in Nat
    BY TxnNat DEF BTreeInv, TypeOK, OwnerTypeOK
  <2> QED
    BY <2>1 DEF OrderInv, DeltasAreOpen
<1> QED
  BY <1>1, OrderInvariance, PTL

\* A decision is final: no step takes back or changes what was committed before the
\* frontier has passed it, and the frontier never goes back.
THEOREM DecisionsAreFinal == Spec => DecisionIsFinal
<1> DEFINE Kept == /\ finalized' >= finalized
                   /\ \A t \in Txn : committed[t] # Absent /\ committed'[t] # committed[t]
                                       => finalized' >= t
<1>1. ASSUME BTreeInv, OrderInv, Next PROVE Kept
  <2> USE DEF BTreeInv, OrderInv
  <2>1. finalized \in Nat
    BY <1>1, TxnNat DEF TypeOK, OwnerTypeOK
  <2>2. UNCHANGED <<committed, finalized>> => Kept
    BY <2>1
  <2>3. ASSUME NEW o \in Op, NEW t \in Txn, Start(o, t) PROVE Kept
    BY <2>2, <2>3 DEF Start, WriteReserve, ReadStart, ownerVars
  <2>4. ASSUME NEW o \in Op, WriteNext(o) \/ ReadNext(o) \/ Abandon(o) PROVE Kept
    BY <2>2, <2>4 DEF WriteNext, WriteReject, PendingLookup, PendingInstall, WriteFirst, WriteSecond,
                      ReadNext, ReadAcquire, ReadSnapshot, ReadKey, ReadReturn, Abandon, ownerVars
  <2>5. ASSUME NEW t \in Txn, CloseTxn(t) \/ Rollback(t) \/ CommitAgain(t) \/ Finalize(t)
                              \/ FinalizeNoop(t)
        PROVE  Kept
    BY <2>2, <2>5 DEF CloseTxn, Rollback, RollbackDecide, CommitAgain, CommitDuplicate, Finalize,
                      FinalizeBegin, FinalizeNoop, FinalizeStale, ownerVars
  <2>6. ASSUME NEW t \in Txn, Commit(t) PROVE Kept
    BY <1>1, <2>1, <2>6 DEF Commit, CommitDecide, TypeOK, OwnerTypeOK
  <2>7. CASE FinalizePublish
    <3>1. life.txn > finalized /\ life.txn \in Nat
      BY <1>1, <2>7, LifeType DEF FinalizePublish, LifeShape
    <3>2. \A t \in Txn : committed'[t] # committed[t] => ~(t > life.txn)
      BY <1>1, <2>7 DEF FinalizePublish, TypeOK, OwnerTypeOK
    <3>3. finalized' = life.txn
      BY <2>7 DEF FinalizePublish
    <3> QED
      BY <2>1, <3>1, <3>2, <3>3, TxnNat
  <2>8. CASE LifeStep \/ LifeFail
    BY <2>2, <2>7, <2>8 DEF LifeStep, ApplyKey, LifeRelease, LifeReturn, LifeFail, FinalizeFail
  <2> HIDE DEF Kept
  <2> QED
    BY <1>1, <2>3, <2>4, <2>5, <2>6, <2>8 DEF Next, Decide
<1>2. BTreeInv /\ OrderInv /\ [Next]_vars => [Kept]_vars
  BY <1>1
<1> QED
  BY <1>2, OrderInvariance, PTL DEF Spec, DecisionIsFinal

\* A read works on a snapshot only when no earlier transaction has a pending change
\* in its range: every read but is_empty, which takes no permit.
THEOREM ReadsWaitForEarlier ==
  ASSUME "isEmpty" \notin ReadKinds
  PROVE  Spec => []NoReadPastPending
<1>1. BTreeInv /\ OrderInv => NoReadPastPending
  <2> SUFFICES ASSUME BTreeInv, OrderInv, NEW o \in Op, NEW u \in Txn,
                      pc[o] = "reading", u < req[o].txn, pending[u] # Absent,
                      NEW k \in req[o].range
               PROVE  ~Mentions(pending[u], k)
    BY DEF NoReadPastPending
  <2>1. Reading(o) /\ req[o].txn \in Txn
    BY DEF BTreeInv, TypeOK, Started, Reading, ReadHeld, WriteKinds
  <2>2. k \in reads[req[o].txn]
    BY <2>1 DEF OrderInv, PermitsAreReserved
  <2>3. k \notin writes[u]
    BY <2>1, <2>2 DEF OrderInv, ReservationsAreOrdered
  <2> QED
    BY <2>3 DEF OrderInv, DeltasAreReserved, Mentions
<1> QED
  BY <1>1, OrderInvariance, PTL

-----------------------------------------------------------------------------
(* What a commit or rollback leaves reserved, when callers start nothing in *)
(* a transaction that they have closed.                                    *)

\* A committed transaction is quiet, and its reservations are gone once its commit
\* has released them.
CommittedIsReleased ==
  \A t \in Txn : committed[t] # Absent =>
    /\ Quiet(t)
    /\ \/ reads[t] = {} /\ writes[t] = {}
       \/ life.phase = "release" /\ life.call = "commit" /\ life.txn = t

ReleaseInv == CommittedIsReleased /\ DecisionReleases

\* Reservations come from calls.
LEMMA ReservingStep ==
  ASSUME BTreeInv, BTreeInv', OrderInv', ReleaseInv,
         UNCHANGED <<committed, life>>, closed \subseteq closed',
         \A t \in Txn : Quiet(t) => \A o \in Op : req'[o].txn # t,
         \A t \in Txn : \/ reads'[t] = reads[t] /\ writes'[t] = writes[t]
                        \/ \E o \in Op : req'[o].txn = t
  PROVE  ReleaseInv'
<1>1. CommittedIsReleased'
  BY DEF ReleaseInv, CommittedIsReleased, Quiet
<1>2. DecisionReleases'
  BY DEF ReleaseInv, DecisionReleases, OrderInv, DecidedAlone, LifeShape
<1> QED
  BY <1>1, <1>2 DEF ReleaseInv

LEMMA ReleaseInit == Init => ReleaseInv
BY DEF Init, OwnerInit, NoCall, ReleaseInv, CommittedIsReleased, DecisionReleases

LEMMA ReleaseStep ==
  ASSUME LateWork = FALSE
  PROVE  BTreeInv /\ BTreeInv' /\ OrderInv /\ OrderInv' /\ ReleaseInv /\ [Next]_vars => ReleaseInv'
<1> SUFFICES ASSUME BTreeInv, BTreeInv', OrderInv, OrderInv', ReleaseInv, [Next]_vars
             PROVE  ReleaseInv'
  OBVIOUS
<1>0. \A t \in Txn : t # 0
  BY TxnAssumption
<1>1. CASE UNCHANGED vars
  BY <1>1, ReservingStep DEF vars, opVars, semVars, ownerVars, Quiet
<1>2. ASSUME NEW o \in Op, NEW t \in Txn, Start(o, t) PROVE ReleaseInv'
  <2> DEFINE Begun == /\ UNCHANGED <<committed, life, closed, reads>>
                      /\ req'[o].txn = t /\ t \notin closed
                      /\ \A p \in Op : p # o => req'[p] = req[p]
                      /\ \A u \in Txn : u # t => writes'[u] = writes[u]
  <2>1. ASSUME NEW kind \in WriteKinds, NEW k \in Key, WriteReserve(o, kind, t, k) PROVE Begun
    BY <2>1 DEF WriteReserve, ReserveWrite, MayStart, ownerVars, BTreeInv, TypeOK, SemTypeOK
  <2>2. ASSUME NEW kind, NEW range, ReadStart(o, kind, t, range) PROVE Begun
    BY <2>2 DEF ReadStart, MayStart, ownerVars, semVars, BTreeInv, TypeOK
  <2>3. Begun
    BY <1>2, <2>1, <2>2 DEF Start
  <2>4. \A u \in Txn : Quiet(u) => \A p \in Op : req'[p].txn # u
    BY <2>3 DEF Quiet
  <2>5. \A u \in Txn : \/ reads'[u] = reads[u] /\ writes'[u] = writes[u]
                       \/ \E p \in Op : req'[p].txn = u
    BY <2>3
  <2>6. UNCHANGED <<committed, life>> /\ closed \subseteq closed'
    BY <2>3
  <2> QED
    BY <2>4, <2>5, <2>6, ReservingStep
<1>3. ASSUME NEW o \in Op, WriteNext(o) \/ ReadNext(o) \/ Abandon(o) PROVE ReleaseInv'
  <2>1. /\ UNCHANGED <<committed, life, closed>>
        /\ \A p \in Op : req'[p].txn \in {req[p].txn, 0}
        /\ \/ UNCHANGED semVars
           \/ ReadAcquire(o)
    BY <1>3 DEF WriteNext, WriteReject, PendingLookup, PendingInstall, WriteFirst, WriteSecond,
                ReadNext, ReadSnapshot, ReadKey, ReadReturn, Abandon, Finish, NoReq, Goto, ReadAcquire,
                ownerVars, BTreeInv, TypeOK
  <2>2. ReadAcquire(o) => /\ req' = req
                          /\ \A u \in Txn : u # req[o].txn =>
                               reads'[u] = reads[u] /\ writes'[u] = writes[u]
    BY DEF ReadAcquire, ReserveRead, Goto, BTreeInv, TypeOK, SemTypeOK
  <2> QED
    BY <1>0, <2>1, <2>2, ReservingStep DEF Quiet, semVars
<1>4. ASSUME NEW t \in Txn, CloseTxn(t) PROVE ReleaseInv'
  BY <1>4, ReservingStep DEF CloseTxn, opVars, semVars, ownerVars, Quiet
<1>5. ASSUME NEW t \in Txn, Commit(t) \/ Rollback(t) PROVE ReleaseInv'
  <2>1. /\ Quiet(t) /\ life.phase = "idle" /\ UNCHANGED <<opVars, semVars, closed>>
        /\ life'.phase = "release" /\ life'.txn = t
        /\ committed'[t] # committed[t] => life'.call = "commit"
        /\ \A u \in Txn : u # t => committed'[u] = committed[u]
        /\ committed[t] = Absent
    BY <1>5 DEF Commit, Rollback, CommitDecide, RollbackDecide, Decided, BTreeInv, TypeOK, OwnerTypeOK
  <2> QED
    BY <2>1 DEF ReleaseInv, CommittedIsReleased, DecisionReleases, Quiet, opVars, semVars
<1>6. ASSUME NEW t \in Txn, CommitAgain(t) \/ FinalizeNoop(t) \/ Finalize(t) PROVE ReleaseInv'
  <2>1. /\ life.phase = "idle" /\ UNCHANGED <<opVars, semVars, closed, committed>>
        /\ life'.call = "finalize" \/ /\ life'.call = "commit" /\ life'.txn = t
                                      /\ committed[t] # Absent
    BY <1>6 DEF CommitAgain, FinalizeNoop, Finalize, CommitDuplicate, FinalizeStale, FinalizeBegin
  <2> QED
    BY <2>1 DEF ReleaseInv, CommittedIsReleased, DecisionReleases, Quiet, opVars, semVars
<1>7. CASE LifeStep \/ LifeFail
  <2>1. UNCHANGED <<opVars, closed>>
    BY <1>7 DEF LifeStep, LifeFail
  <2>2. CASE LifeRelease
    <3>1. /\ life.phase = "release" /\ life.txn \in Txn /\ life'.phase = "ok"
          /\ life'.txn = life.txn /\ life'.call = life.call
          /\ UNCHANGED committed
          /\ \A u \in Txn : reads[u] = {} => reads'[u] = {}
          /\ \A u \in Txn : writes[u] = {} => writes'[u] = {}
          /\ life.call # "finalize" => reads'[life.txn] = {} /\ writes'[life.txn] = {}
      BY <2>2 DEF LifeRelease, SemRelease, SemReleaseThrough, OrderInv, LifeShape, BTreeInv,
                  TypeOK, SemTypeOK, OwnerTypeOK
    <3> QED
      BY <2>1, <3>1 DEF ReleaseInv, CommittedIsReleased, DecisionReleases, Quiet, opVars
  <2>3. CASE ~LifeRelease
    <3>1. /\ UNCHANGED semVars
          /\ life.phase # "release"
          /\ life'.phase # "ok"
          /\ \A u \in Txn : committed'[u] \in {committed[u], Absent}
      BY <1>7, <2>3 DEF LifeStep, LifeFail, ApplyKey, FinalizePublish, LifeReturn, FinalizeFail,
                        NoCall, BTreeInv, TypeOK, OwnerTypeOK
    <3> QED
      BY <2>1, <3>1 DEF ReleaseInv, CommittedIsReleased, DecisionReleases, Quiet, opVars, semVars
  <2> QED
    BY <2>2, <2>3
<1> QED
  BY <1>1, <1>2, <1>3, <1>4, <1>5, <1>6, <1>7 DEF Next, Decide

\* When commit or rollback returns Ok, its transaction has no reservation left, also
\* after a duplicate commit, as long as callers start nothing in a closed transaction.
THEOREM DecisionsRelease ==
  ASSUME LateWork = FALSE
  PROVE  Spec => []DecisionReleases
<1>1. ReleaseInv => DecisionReleases
  BY DEF ReleaseInv
<1> QED
  BY <1>1, ReleaseInit, ReleaseStep, OrderInvariance, PTL DEF Spec

-----------------------------------------------------------------------------
(***************************************************************************)
(* What a BTree tells its transactions is true, for any transactions, keys *)
(* and concurrent calls: an answer stays what the transaction reads until  *)
(* it is decided (TellsTruth), a scan of many steps answers as one atomic  *)
(* read would (ScanIsAtomic), and a view changes only by a write of its    *)
(* transaction or by a commit it has not depended on (ViewMoves).          *)
(*                                                                         *)
(* Beside the order of reservations (OrderInv) this needs what finalize    *)
(* does to canonical storage while others read it: what it has applied is  *)
(* what the last delta through the cutoff says (ApplyInv), and a snapshot  *)
(* covers every key that is still to be applied (SnapshotCovers).          *)
(***************************************************************************)

\* The committed delta of u mentions k.
Covers(u, k) == HasDelta(u) /\ Mentions(committed[u], k)

\* What the pending delta of t does to k.
OwnIn(t, k) == pending[t] # Absent /\ k \in pending[t].inserts
OwnOut(t, k) == pending[t] # Absent /\ k \in pending[t].deletes

\* What t reads at k beneath its own delta.
Beneath(t, k) ==
  \/ k \in persistent /\ \A u \in Txn : u <= t => ~Covers(u, k)
  \/ \E u \in Txn : /\ u <= t /\ Covers(u, k)
                    /\ \A v \in Txn : v <= t /\ Covers(v, k) => v <= u
                    /\ k \in committed[u].inserts

\* The last committed delta through c that mentions k is that of u.
LastThrough(u, k, c) ==
  /\ u <= c /\ Covers(u, k)
  /\ \A v \in Txn : v <= c /\ Covers(v, k) => v <= u

\* The key operation of finalize that decides k, when the delta of u is the last.
Deciding(u, k) ==
  [txn |-> u, key |-> k, kind |-> IF k \in committed[u].inserts THEN "insert" ELSE "delete"]

\* What finalize has still to apply comes from the deltas through its cutoff; a key
\* whose last operation is done has none left and is as that operation says.
ApplyInv ==
  IF life.phase \in {"apply", "failed"}
    THEN /\ todo \subseteq ApplyThrough(life.txn)
         /\ \A u \in Txn, k \in Key : LastThrough(u, k, life.txn) =>
              \/ Deciding(u, k) \in todo
              \/ /\ \A s \in todo : s.key # k
                 /\ k \in persistent <=> k \in committed[u].inserts
    ELSE todo = {}

\* Of the committed transactions, any that there are have a last one.
CommittedHaveLast ==
  \A S \in SUBSET {u \in Txn : committed[u] # Absent} :
    S # {} => \E u \in S : \A v \in S : v <= u

\* A snapshot covers what is still committed for its reader, so that the reader does
\* not depend on canonical storage where finalize may yet change it.
SnapshotCovers(o) ==
  \A u \in Txn, k \in req[o].range :
    u <= req[o].txn /\ Covers(u, k) => Layer(snap[o], u, k)

\* What the read has found, and would find next, gives the answer of an atomic read.
ReadsView(o) ==
  \A t \in Txn, k \in req[o].range : t = req[o].txn =>
    (Visible(snap[o], k, IF k \in unread[o] THEN k \in persistent ELSE k \in found[o])
       <=> k \in View(t))

ReaderInv(o) ==
  /\ IF pc[o] = "reading" THEN unread[o] \cap found[o] = {} ELSE found[o] = {}
  /\ pc[o] = "reading" /\ Reading(o) => SnapshotCovers(o) /\ ReadsView(o)

ReadersInv == \A o \in Op : ReaderInv(o)

ReadInv == ApplyInv /\ CommittedHaveLast /\ ReadersInv /\ TellsTruth

-----------------------------------------------------------------------------
(* Views.                                                                  *)

ViewsAreLayered ==
  \A t \in Txn, k \in Key :
    k \in View(t) <=> OwnIn(t, k) \/ (Beneath(t, k) /\ ~OwnOut(t, k))

LEMMA ViewLayers == TypeOK => ViewsAreLayered
<1> SUFFICES ASSUME TypeOK, NEW t \in Txn, NEW k \in Key
             PROVE  k \in View(t) <=> OwnIn(t, k) \/ (Beneath(t, k) /\ ~OwnOut(t, k))
  BY DEF ViewsAreLayered
<1> DEFINE s == VisibleSnapshot(t)
<1>1. \A u \in Txn : Layer(s, u, k) <=> u <= t /\ Covers(u, k)
  BY AbsentAssumption DEF VisibleSnapshot, Layer, Covers, HasDelta, TypeOK, OwnerTypeOK
<1>2. \A u \in Txn : Layer(s, u, k) => s.layers[u] = committed[u]
  BY <1>1 DEF VisibleSnapshot, Covers
<1>3. LayersShow(s, k, k \in persistent) <=> Beneath(t, k)
  BY <1>1, <1>2 DEF LayersShow, Beneath
<1>4. s.own = pending[t]
  BY DEF VisibleSnapshot
<1>5. k \in View(t) <=> Visible(s, k, k \in persistent)
  BY DEF View
<1> HIDE DEF s
<1> QED
  BY <1>3, <1>4, <1>5 DEF Visible, Shows, OwnIn, OwnOut

\* A view at a key depends on canonical storage there, on the committed deltas that
\* the transaction reads, and on its own.
LEMMA SameView ==
  ASSUME TypeOK, TypeOK', NEW t \in Txn, NEW k \in Key,
         k \in persistent' <=> k \in persistent,
         \A u \in Txn : u <= t => (Covers(u, k)' <=> Covers(u, k)),
         \A u \in Txn : u <= t /\ Covers(u, k) => committed'[u] = committed[u],
         OwnIn(t, k)' <=> OwnIn(t, k),
         OwnOut(t, k)' <=> OwnOut(t, k)
  PROVE  (k \in View(t))' <=> k \in View(t)
<1>1. Beneath(t, k)' <=> Beneath(t, k)
  BY DEF Beneath
<1>2. ViewsAreLayered /\ ViewsAreLayered'
  BY ViewLayers, PTL
<1> QED
  BY <1>1, <1>2 DEF ViewsAreLayered

LEMMA SameViewOwn ==
  ASSUME TypeOK, TypeOK', NEW t \in Txn, NEW k \in Key,
         UNCHANGED <<persistent, committed>>,
         OwnIn(t, k)' <=> OwnIn(t, k), OwnOut(t, k)' <=> OwnOut(t, k)
  PROVE  (k \in View(t))' <=> k \in View(t)
BY SameView DEF Covers, HasDelta

\* A pending delta that mentions no key changes no view; nor does a native step of a
\* write change one but that of its transaction at its key.
LEMMA InstallKeepsViews ==
  ASSUME BTreeInv, BTreeInv', NEW o \in Op, PendingInstall(o), NEW t \in Txn, NEW k \in Key
  PROVE  (k \in View(t))' <=> k \in View(t)
<1>1. /\ UNCHANGED <<persistent, committed>>
      /\ pending'[t] = pending[t] \/ (pending[t] = Absent /\ pending'[t] = EmptyDelta)
  BY DEF PendingInstall, BTreeInv, TypeOK, OwnerTypeOK
<1>2. (OwnIn(t, k)' <=> OwnIn(t, k)) /\ (OwnOut(t, k)' <=> OwnOut(t, k))
  BY <1>1 DEF OwnIn, OwnOut, EmptyDelta
<1> QED
  BY <1>1, <1>2, SameViewOwn DEF BTreeInv

LEMMA WriteKeepsViews ==
  ASSUME BTreeInv, BTreeInv', NEW o \in Op, WriteFirst(o) \/ WriteSecond(o),
         NEW t \in Txn, NEW k \in Key, t # req[o].txn \/ k \notin req[o].range
  PROVE  (k \in View(t))' <=> k \in View(t)
<1> DEFINE w == req[o].txn
           key == TheKey(o)
<1>1. /\ w \in Txn /\ pending[w] \in Delta /\ pending[w] # Absent
      /\ key \in Key /\ req[o].range = {key}
  BY KeyOfWrite DEF WriteFirst, WriteSecond, BTreeInv, TypeOK, OwnerTypeOK, Started, DeltaInPlace,
                    Writing, WriteHeld
<1>2. /\ UNCHANGED <<persistent, committed>>
      /\ \A u \in Txn : u # w => pending'[u] = pending[u]
      /\ pending'[w] \in {FirstStep(o, pending[w]), SecondStep(o, pending[w])}
  BY <1>1 DEF WriteFirst, WriteSecond, BTreeInv, TypeOK, OwnerTypeOK
<1>3. k # key => /\ k \in pending'[w].inserts <=> k \in pending[w].inserts
                 /\ k \in pending'[w].deletes <=> k \in pending[w].deletes
  BY <1>1, <1>2 DEF FirstStep, SecondStep, InsertFirst, InsertSecond, DeleteFirst, DeleteSecond,
                    Delta, DeltaOver
<1>4. pending'[w] # Absent
  BY <1>1, <1>2, FirstStepKeeps, SecondStepKeeps, AbsentAssumption
<1>5. (OwnIn(t, k)' <=> OwnIn(t, k)) /\ (OwnOut(t, k)' <=> OwnOut(t, k))
  BY <1>1, <1>2, <1>3, <1>4 DEF OwnIn, OwnOut
<1> QED
  BY <1>2, <1>5, SameViewOwn DEF BTreeInv

\* A commit changes a view only of a later transaction that has not reserved the key.
LEMMA CommitKeepsViews ==
  ASSUME BTreeInv, BTreeInv', OrderInv, NEW u \in Txn, Commit(u), NEW t \in Txn, NEW k \in Key,
         t # u \/ pending[u] = Absent,
         u < t => k \in reads[t] \cup writes[t]
  PROVE  (k \in View(t))' <=> k \in View(t)
<1>1. /\ committed[u] = Absent
      /\ committed'[u] = IF pending[u] = Absent THEN NoDelta ELSE pending[u]
      /\ \A v \in Txn : v # u => committed'[v] = committed[v] /\ pending'[v] = pending[v]
      /\ pending'[u] = Absent
      /\ UNCHANGED persistent
  BY DEF Commit, CommitDecide, BTreeInv, TypeOK, OwnerTypeOK
<1>2. u < t => (pending[u] # Absent => ~Mentions(pending[u], k))
  BY DEF OrderInv, ReservationsAreOrdered, DeltasAreReserved, Mentions
<1>3. \A v \in Txn : v <= t => (Covers(v, k)' <=> Covers(v, k))
  <2> SUFFICES ASSUME u <= t PROVE ~Covers(u, k)'
    BY <1>1 DEF Covers, HasDelta
  <2>1. CASE u < t
    BY <1>1, <1>2, <2>1 DEF Covers, HasDelta
  <2>2. CASE ~(u < t)
    BY <1>1, <2>2, TxnNat DEF Covers, HasDelta
  <2> QED
    BY <2>1, <2>2
<1>4. (OwnIn(t, k)' <=> OwnIn(t, k)) /\ (OwnOut(t, k)' <=> OwnOut(t, k))
  BY <1>1 DEF OwnIn, OwnOut
<1>5. \A v \in Txn : Covers(v, k) => committed'[v] = committed[v]
  BY <1>1 DEF Covers, HasDelta
<1> QED
  BY <1>1, <1>3, <1>4, <1>5, SameView DEF BTreeInv

LEMMA RollbackKeepsViews ==
  ASSUME BTreeInv, BTreeInv', NEW u \in Txn, Rollback(u), NEW t \in Txn, NEW k \in Key,
         t # u \/ pending[u] = Absent
  PROVE  (k \in View(t))' <=> k \in View(t)
<1>1. /\ \A v \in Txn : v # u => pending'[v] = pending[v]
      /\ pending'[u] = Absent
      /\ UNCHANGED <<persistent, committed>>
  BY DEF Rollback, RollbackDecide, BTreeInv, TypeOK, OwnerTypeOK
<1>2. (OwnIn(t, k)' <=> OwnIn(t, k)) /\ (OwnOut(t, k)' <=> OwnOut(t, k))
  BY <1>1 DEF OwnIn, OwnOut
<1> QED
  BY <1>1, <1>2, SameViewOwn DEF BTreeInv

\* What finalize writes to canonical storage is hidden from the transactions beyond
\* its cutoff by the delta that it comes from.
LEMMA ApplyKeepsViews ==
  ASSUME BTreeInv, BTreeInv', ApplyInv, NEW s \in todo, ApplyKey(s),
         NEW t \in Txn, NEW k \in Key, t > life.txn
  PROVE  (k \in View(t))' <=> k \in View(t)
<1>1. /\ UNCHANGED <<committed, pending>>
      /\ s \in KeyOp /\ s.txn <= life.txn /\ Covers(s.txn, s.key)
      /\ k # s.key => (k \in persistent' <=> k \in persistent)
  BY DEF ApplyKey, ApplyInv, ApplyThrough, Covers, Mentions
<1>2. s.txn \in Txn /\ s.txn <= t
  BY <1>1, LifeType, TxnNat DEF KeyOp, BTreeInv
<1>3. (OwnIn(t, k)' <=> OwnIn(t, k)) /\ (OwnOut(t, k)' <=> OwnOut(t, k))
  BY <1>1 DEF OwnIn, OwnOut
<1>4. \A u \in Txn : Covers(u, k)' <=> Covers(u, k)
  BY <1>1 DEF Covers, HasDelta
<1>5. CASE k # s.key
  BY <1>1, <1>3, <1>4, <1>5, SameView DEF BTreeInv
<1>6. CASE k = s.key
  <2>1. Beneath(t, k)' <=> Beneath(t, k)
    BY <1>1, <1>2, <1>4, <1>6 DEF Beneath
  <2>2. ViewsAreLayered /\ ViewsAreLayered'
    BY ViewLayers, PTL DEF BTreeInv
  <2> QED
    BY <1>3, <2>1, <2>2 DEF ViewsAreLayered
<1> QED
  BY <1>5, <1>6

\* Of the committed deltas through c that mention k there is a last one.
LEMMA LastDelta ==
  ASSUME CommittedHaveLast, NEW c, NEW k, NEW w \in Txn, w <= c, Covers(w, k)
  PROVE  \E u \in Txn : LastThrough(u, k, c)
<1> DEFINE S == {v \in Txn : v <= c /\ Covers(v, k)}
<1>1. S \in SUBSET {u \in Txn : committed[u] # Absent} /\ S # {}
  BY DEF Covers, HasDelta
<1>2. PICK u \in S : \A v \in S : v <= u
  BY <1>1 DEF CommittedHaveLast
<1> QED
  BY <1>2 DEF LastThrough

\* When finalize prunes the deltas through its cutoff, canonical storage shows what
\* they showed.
LEMMA PublishKeepsViews ==
  ASSUME BTreeInv, BTreeInv', ApplyInv, CommittedHaveLast, FinalizePublish,
         NEW t \in Txn, NEW k \in Key, t > life.txn
  PROVE  (k \in View(t))' <=> k \in View(t)
<1> DEFINE c == life.txn
<1>1. /\ c \in Nat /\ todo = {} /\ life.phase = "apply" /\ UNCHANGED persistent
      /\ \A u \in Txn : /\ committed'[u] = IF u > c THEN committed[u] ELSE Absent
                        /\ pending'[u] = IF u > c THEN pending[u] ELSE Absent
  BY LifeType DEF FinalizePublish, BTreeInv
<1>2. \A u \in Txn : u \in Nat
  BY TxnNat
<1>3. \A u \in Txn : Covers(u, k)' <=> Covers(u, k) /\ u > c
  BY <1>1 DEF Covers, HasDelta
<1>4. \A u \in Txn : u > c => committed'[u] = committed[u]
  BY <1>1
<1>5. (OwnIn(t, k)' <=> OwnIn(t, k)) /\ (OwnOut(t, k)' <=> OwnOut(t, k))
  BY <1>1 DEF OwnIn, OwnOut
<1>6. Beneath(t, k)' <=> Beneath(t, k)
  <2>1. ASSUME NEW w \in Txn, w > c, w <= t, Covers(w, k) PROVE Beneath(t, k)' <=> Beneath(t, k)
    BY <1>1, <1>2, <1>3, <1>4, <2>1 DEF Beneath
  <2>2. ASSUME \A w \in Txn : w > c /\ w <= t => ~Covers(w, k)
        PROVE  Beneath(t, k)' <=> Beneath(t, k)
    <3>1. Beneath(t, k)' <=> k \in persistent
      BY <1>1, <1>3, <2>2 DEF Beneath
    <3>2. CASE \A u \in Txn : u <= c => ~Covers(u, k)
      <4>1. \A u \in Txn : u <= t => ~Covers(u, k)
        BY <1>1, <1>2, <2>2, <3>2
      <4> QED
        BY <3>1, <4>1 DEF Beneath
    <3>3. ASSUME NEW w \in Txn, w <= c, Covers(w, k) PROVE Beneath(t, k)' <=> Beneath(t, k)
      <4>1. PICK u \in Txn : LastThrough(u, k, c)
        BY <3>3, LastDelta
      <4>2. k \in persistent <=> k \in committed[u].inserts
        BY <1>1, <4>1 DEF ApplyInv
      <4>3. \A v \in Txn : v <= t /\ Covers(v, k) => v <= u
        BY <1>1, <1>2, <2>2, <4>1 DEF LastThrough
      <4>4. u <= t /\ Covers(u, k)
        BY <1>1, <1>2, <4>1 DEF LastThrough
      <4>5. Beneath(t, k) <=> k \in committed[u].inserts
        <5>1. \A v \in Txn : v <= t /\ Covers(v, k) /\ u <= v => v = u
          BY <1>2, <4>3
        <5> QED
          BY <4>3, <4>4, <5>1 DEF Beneath
      <4> QED
        BY <3>1, <4>2, <4>5
    <3> QED
      BY <3>2, <3>3
  <2> QED
    BY <2>1, <2>2
<1>7. ViewsAreLayered /\ ViewsAreLayered'
  BY ViewLayers, PTL DEF BTreeInv
<1> QED
  BY <1>5, <1>6, <1>7 DEF ViewsAreLayered

-----------------------------------------------------------------------------
(* What finalize has applied.                                              *)

\* Steps of calls, and lifecycle steps of transactions that finalize does not touch.
LEMMA ApplyUnchanged ==
  ASSUME ApplyInv, CommittedHaveLast, UNCHANGED <<persistent, committed, life, todo>>
  PROVE  ApplyInv' /\ CommittedHaveLast'
<1>1. \A u, k : Covers(u, k)' <=> Covers(u, k)
  BY DEF Covers, HasDelta
<1>2. \A u, k : LastThrough(u, k, life.txn)' <=> LastThrough(u, k, life.txn)
  BY <1>1 DEF LastThrough
<1>3. ApplyThrough(life.txn)' = ApplyThrough(life.txn)
  BY DEF ApplyThrough, HasDelta
<1> QED
  BY <1>2, <1>3 DEF ApplyInv, CommittedHaveLast, Deciding

\* Fewer committed transactions have a last one too.
LEMMA FewerHaveLast ==
  ASSUME CommittedHaveLast, \A u \in Txn : committed'[u] # Absent => committed[u] # Absent
  PROVE  CommittedHaveLast'
BY DEF CommittedHaveLast

LEMMA CommitApplyInv ==
  ASSUME BTreeInv, ApplyInv, CommittedHaveLast, NEW t \in Txn, Commit(t)
  PROVE  ApplyInv' /\ CommittedHaveLast'
<1>1. ApplyInv'
  BY DEF ApplyInv, Commit, CommitDecide, Decided
<1>2. \A u \in Txn : u # t => committed'[u] = committed[u]
  BY DEF Commit, CommitDecide, BTreeInv, TypeOK, OwnerTypeOK
<1>3. CommittedHaveLast'
  <2> SUFFICES ASSUME NEW S \in SUBSET {u \in Txn : committed'[u] # Absent}, S # {}
               PROVE  \E u \in S : \A v \in S : v <= u
    BY DEF CommittedHaveLast
  <2>1. \A u \in S : u \in Nat
    BY TxnNat
  <2>2. S \ {t} \in SUBSET {u \in Txn : committed[u] # Absent}
    BY <1>2
  <2>3. CASE S \ {t} = {}
    BY <2>1, <2>3
  <2>4. CASE S \ {t} # {}
    <3>1. PICK m \in S \ {t} : \A v \in S \ {t} : v <= m
      BY <2>2, <2>4 DEF CommittedHaveLast
    <3>2. CASE t \in S /\ t > m
      BY <2>1, <3>1, <3>2
    <3>3. CASE t \notin S \/ ~(t > m)
      BY <2>1, <3>1, <3>3, TxnNat
    <3> QED
      BY <3>2, <3>3
  <2> QED
    BY <2>3, <2>4
<1> QED
  BY <1>1, <1>3

LEMMA IdleCallsApplyInv ==
  ASSUME ApplyInv, CommittedHaveLast, NEW t \in Txn,
         Rollback(t) \/ CommitAgain(t) \/ FinalizeNoop(t)
  PROVE  ApplyInv' /\ CommittedHaveLast'
<1>1. /\ life.phase = "idle" /\ life'.phase \in {"release", "ok"}
      /\ UNCHANGED <<committed, todo>>
  BY DEF Rollback, RollbackDecide, Decided, CommitAgain, CommitDuplicate, FinalizeNoop, FinalizeStale
<1> QED
  BY <1>1, FewerHaveLast DEF ApplyInv

LEMMA FinalizeApplyInv ==
  ASSUME BTreeInv, ApplyInv, CommittedHaveLast, NEW t \in Txn, Finalize(t)
  PROVE  ApplyInv' /\ CommittedHaveLast'
<1>1. /\ life'.phase = "apply" /\ life'.txn = t /\ todo' = ApplyThrough(t)
      /\ UNCHANGED <<persistent, committed>>
  BY DEF Finalize, FinalizeBegin
<1>2. \A u \in Txn, k \in Key : LastThrough(u, k, t) => Deciding(u, k) \in ApplyThrough(t)
  BY DEF LastThrough, Covers, Mentions, Deciding, ApplyThrough, KeyOp
<1>3. \A u \in Txn, k \in Key : LastThrough(u, k, t)' <=> LastThrough(u, k, t)
  BY <1>1 DEF LastThrough, Covers, HasDelta
<1>4. ApplyThrough(t)' = ApplyThrough(t)
  BY <1>1 DEF ApplyThrough, HasDelta
<1>5. \A u \in Txn, k \in Key : Deciding(u, k)' = Deciding(u, k)
  BY <1>1 DEF Deciding
<1>6. ApplyInv'
  BY <1>1, <1>2, <1>3, <1>4, <1>5 DEF ApplyInv
<1> QED
  BY <1>1, <1>6, FewerHaveLast

LEMMA ApplyKeyApplyInv ==
  ASSUME BTreeInv, ApplyInv, CommittedHaveLast, NEW s \in todo, ApplyKey(s)
  PROVE  ApplyInv' /\ CommittedHaveLast'
<1> DEFINE c == life.txn
<1>1. /\ life.phase = "apply" /\ UNCHANGED <<committed, life>>
      /\ \A r \in todo : ~AppliedBefore(r, s)
      /\ todo' = todo \ {s}
      /\ persistent' = IF s.kind = "insert" THEN persistent \cup {s.key}
                                            ELSE persistent \ {s.key}
      /\ todo \subseteq ApplyThrough(c)
  BY DEF ApplyKey, ApplyInv
<1>2. /\ \A u \in Txn, k \in Key : LastThrough(u, k, c)' <=> LastThrough(u, k, c)
      /\ \A u \in Txn, k \in Key : Deciding(u, k)' = Deciding(u, k)
      /\ ApplyThrough(c)' = ApplyThrough(c)
  BY <1>1 DEF LastThrough, Covers, HasDelta, Deciding, ApplyThrough
<1>3. \A r \in todo : /\ r = [txn |-> r.txn, key |-> r.key, kind |-> r.kind]
                      /\ r.txn \in Txn /\ r.txn <= c /\ Covers(r.txn, r.key) /\ r.key \in Key
                      /\ r.kind = IF r.key \in committed[r.txn].inserts THEN "insert" ELSE "delete"
  <2> SUFFICES ASSUME NEW r \in ApplyThrough(c)
               PROVE  /\ r = [txn |-> r.txn, key |-> r.key, kind |-> r.kind]
                      /\ r.txn \in Txn /\ r.txn <= c /\ Covers(r.txn, r.key) /\ r.key \in Key
                      /\ r.kind = IF r.key \in committed[r.txn].inserts THEN "insert" ELSE "delete"
    BY <1>1
  <2>1. r \in KeyOp /\ r.txn <= c /\ HasDelta(r.txn)
    BY DEF ApplyThrough
  <2>2. r = [txn |-> r.txn, key |-> r.key, kind |-> r.kind] /\ r.kind \in {"insert", "delete"}
    BY <2>1 DEF KeyOp
  <2>3. committed[r.txn].inserts \cap committed[r.txn].deletes = {}
    BY <2>1 DEF KeyOp, BTreeInv, DeltaDisjoint
  <2> QED
    BY <2>1, <2>2, <2>3 DEF KeyOp, ApplyThrough, Covers, Mentions
<1>4. \A r \in todo : r = Deciding(r.txn, r.key)
  BY <1>3 DEF Deciding
<1>5. ASSUME NEW u \in Txn, NEW k \in Key, LastThrough(u, k, c)
      PROVE  \/ Deciding(u, k) \in todo'
             \/ /\ \A r \in todo' : r.key # k
                /\ k \in persistent' <=> k \in committed[u].inserts
  <2> DEFINE last == Deciding(u, k)
  <2>1. last \in todo \/ /\ \A r \in todo : r.key # k
                         /\ k \in persistent <=> k \in committed[u].inserts
    BY <1>1, <1>5 DEF ApplyInv
  <2>2. CASE last \in todo /\ s # last
    BY <1>1, <2>2
  <2>3. CASE s = last
    <3>1. \A r \in todo : r.key = k => r = s
      <4> SUFFICES ASSUME NEW r \in todo, r.key = k PROVE r = s
        OBVIOUS
      <4>1. r.txn <= u
        BY <1>3, <1>5 DEF LastThrough
      <4>2. ~(r.txn < u)
        BY <1>1, <2>3 DEF AppliedBefore, Deciding
      <4>3. r.txn = u
        BY <1>3, <4>1, <4>2, TxnNat
      <4> QED
        BY <1>4, <2>3, <4>3
    <3>2. k \in persistent' <=> k \in committed[u].inserts
      BY <1>1, <2>3 DEF Deciding
    <3> QED
      BY <1>1, <3>1, <3>2
  <2>4. CASE last \notin todo
    BY <1>1, <2>1, <2>4
  <2> QED
    BY <2>2, <2>3, <2>4
<1>6. ApplyInv'
  BY <1>1, <1>2, <1>5 DEF ApplyInv
<1> QED
  BY <1>1, <1>6, FewerHaveLast

LEMMA LifecycleApplyInv ==
  ASSUME BTreeInv, ApplyInv, CommittedHaveLast, LifeStep \/ LifeFail
  PROVE  ApplyInv' /\ CommittedHaveLast'
<1>1. CASE \E s \in todo : ApplyKey(s)
  BY <1>1, ApplyKeyApplyInv
<1>2. CASE FinalizePublish
  <2>1. \A u \in Txn : committed'[u] # Absent => committed[u] # Absent
    BY <1>2 DEF FinalizePublish
  <2>2. ApplyInv'
    BY <1>2 DEF FinalizePublish, ApplyInv, BTreeInv, TypeOK, OwnerTypeOK
  <2> QED
    BY <2>1, <2>2, FewerHaveLast
<1>3. CASE LifeRelease \/ LifeReturn
  <2>1. /\ life.phase \notin {"apply", "failed"} /\ life'.phase \notin {"apply", "failed"}
        /\ UNCHANGED <<committed, todo>>
    BY <1>3 DEF LifeRelease, LifeReturn, NoCall, BTreeInv, TypeOK, OwnerTypeOK
  <2> QED
    BY <2>1, FewerHaveLast DEF ApplyInv
<1>4. CASE FinalizeFail
  <2>1. /\ life.phase = "apply" /\ life'.phase = "failed" /\ life'.txn = life.txn
        /\ UNCHANGED <<persistent, committed, todo>>
    BY <1>4 DEF FinalizeFail, BTreeInv, TypeOK, OwnerTypeOK
  <2>2. \A u \in Txn, k \in Key : LastThrough(u, k, life.txn)' <=> LastThrough(u, k, life.txn)
    BY <2>1 DEF LastThrough, Covers, HasDelta
  <2>3. ApplyThrough(life.txn)' = ApplyThrough(life.txn)
    BY <2>1 DEF ApplyThrough, HasDelta
  <2> QED
    BY <2>1, <2>2, <2>3, FewerHaveLast DEF ApplyInv, Deciding
<1> QED
  BY <1>1, <1>2, <1>3, <1>4 DEF LifeStep, LifeFail


-----------------------------------------------------------------------------
(* Reads in progress.                                                      *)

SameSlot(o) ==
  /\ pc'[o] = pc[o] /\ req'[o] = req[o]
  /\ snap'[o] = snap[o] /\ unread'[o] = unread[o] /\ found'[o] = found[o]

\* A step of others keeps a read on its way when it keeps the view that is read,
\* commits nothing there, and writes to canonical storage only beneath the snapshot.
ReadGoesOn(o) ==
  \A t \in Txn, k \in req[o].range : t = req[o].txn =>
    /\ (k \in View(t))' <=> k \in View(t)
    /\ \A u \in Txn : u <= t /\ Covers(u, k)' => Covers(u, k)
    /\ (k \in persistent' <=> k \in persistent) \/ \E u \in Txn : Layer(snap[o], u, k)

LEMMA ReaderKeeps ==
  ASSUME BTreeInv, NEW o \in Op, ReaderInv(o), SameSlot(o),
         pc[o] = "reading" /\ Reading(o) => ReadGoesOn(o)
  PROVE  ReaderInv(o)'
<1>1. IF pc'[o] = "reading" THEN unread'[o] \cap found'[o] = {} ELSE found'[o] = {}
  BY DEF SameSlot, ReaderInv
<1>2. Reading(o)' <=> Reading(o)
  BY DEF SameSlot, Reading
<1>3. ASSUME pc[o] = "reading", Reading(o) PROVE SnapshotCovers(o)' /\ ReadsView(o)'
  <2>1. SnapshotCovers(o) /\ ReadsView(o) /\ ReadGoesOn(o)
    BY <1>3 DEF ReaderInv
  <2>2. req[o].txn \in Txn
    BY <1>3 DEF BTreeInv, Started
  <2>3. \A u, k : Layer(snap[o], u, k)' <=> Layer(snap[o], u, k)
    BY DEF SameSlot, Layer
  <2>4. SnapshotCovers(o)'
    BY <2>1, <2>2, <2>3 DEF SnapshotCovers, SameSlot, ReadGoesOn
  <2>5. ASSUME NEW t \in Txn, NEW k \in req[o].range, t = req[o].txn
        PROVE  Visible(snap[o], k, IF k \in unread[o] THEN k \in persistent' ELSE k \in found[o])
                 <=> (k \in View(t))'
    <3>1. Visible(snap[o], k, IF k \in unread[o] THEN k \in persistent ELSE k \in found[o])
            <=> k \in View(t)
      BY <2>1, <2>5 DEF ReadsView
    <3>2. /\ (k \in View(t))' <=> k \in View(t)
          /\ (k \in persistent' <=> k \in persistent) \/ \E u \in Txn : Layer(snap[o], u, k)
      BY <2>1, <2>5 DEF ReadGoesOn
    <3>3. (\E u \in Txn : Layer(snap[o], u, k)) =>
            \A a, b : Visible(snap[o], k, a) <=> Visible(snap[o], k, b)
      BY DEF Visible, LayersShow, Shows
    <3> QED
      BY <3>1, <3>2, <3>3
  <2>6. ReadsView(o)'
    BY <2>5 DEF ReadsView, SameSlot
  <2> QED
    BY <2>4, <2>6
<1> QED
  BY <1>1, <1>2, <1>3 DEF ReaderInv, SameSlot

\* A slot that is not reading.
LEMMA NotReading ==
  ASSUME NEW o \in Op, pc'[o] # "reading", found'[o] = {}
  PROVE  ReaderInv(o)'
BY DEF ReaderInv


\* A promise that is kept, and whose key is seen as before, stays true.
LEMMA TruthKeeps ==
  ASSUME TellsTruth,
         \A t \in Txn, k \in Key : told'[t][k] # "unknown" =>
           told'[t][k] = told[t][k] /\ ((k \in View(t))' <=> k \in View(t))
  PROVE  TellsTruth'
BY DEF TellsTruth

LEMMA SameStorage ==
  ASSUME UNCHANGED <<persistent, committed, pending>>
  PROVE  /\ \A t \in Txn, k \in Key : (k \in View(t))' <=> k \in View(t)
         /\ \A o \in Op : req[o].range \in SUBSET Key => ReadGoesOn(o)
<1>1. \A t, k : (k \in View(t))' <=> k \in View(t)
  BY DEF View, VisibleSnapshot, HasDelta
<1>2. \A u, k : Covers(u, k)' <=> Covers(u, k)
  BY DEF Covers, HasDelta
<1> QED
  BY <1>1, <1>2 DEF ReadGoesOn

\* Steps that touch neither deltas nor canonical storage, and leave every slot as it
\* was or not reading.
LEMMA QuietStepReads ==
  ASSUME BTreeInv, ReadInv, UNCHANGED <<ownerVars, told>>,
         \A o \in Op : \/ SameSlot(o)
                       \/ /\ pc'[o] # "reading"
                          /\ found'[o] = {} \/ (pc[o] # "reading" /\ found'[o] = found[o])
  PROVE  ReadInv'
<1> USE DEF ownerVars
<1>1. ApplyInv' /\ CommittedHaveLast'
  BY ApplyUnchanged DEF ReadInv
<1>2. /\ \A t \in Txn, k \in Key : (k \in View(t))' <=> k \in View(t)
      /\ \A o \in Op : ReadGoesOn(o)
  BY SameStorage DEF BTreeInv, TypeOK
<1>3. ASSUME NEW o \in Op PROVE ReaderInv(o)'
  <2>1. ReaderInv(o)
    BY DEF ReadInv, ReadersInv
  <2>2. CASE SameSlot(o)
    BY <1>2, <2>1, <2>2, ReaderKeeps
  <2>3. CASE pc'[o] # "reading" /\ (found'[o] = {} \/ (pc[o] # "reading" /\ found'[o] = found[o]))
    BY <2>1, <2>3, NotReading DEF ReaderInv
  <2> QED
    BY <2>2, <2>3
<1>4. TellsTruth'
  BY <1>2, TruthKeeps DEF ReadInv
<1> QED
  BY <1>1, <1>3, <1>4 DEF ReadInv, ReadersInv

LEMMA GiveUpReads ==
  ASSUME BTreeInv, ReadInv, NEW o \in Op, Finish(o), UNCHANGED <<ownerVars, told>>
  PROVE  ReadInv'
<1>1. /\ pc'[o] = "idle" /\ found'[o] = {}
      /\ \A p \in Op : p # o => SameSlot(p)
  BY DEF Finish, SameSlot, BTreeInv, TypeOK
<1> QED
  BY <1>1, QuietStepReads

\* A slot moves to another place than reading.
LEMMA MoveReads ==
  ASSUME BTreeInv, ReadInv, NEW o \in Op, NEW place, pc[o] # "reading", place # "reading",
         pc' = [pc EXCEPT ![o] = place],
         \A p \in Op : p # o => req'[p] = req[p],
         UNCHANGED <<ownerVars, told, snap, unread, found>>
  PROVE  ReadInv'
<1>1. /\ pc'[o] # "reading" /\ found'[o] = found[o]
      /\ \A p \in Op : p # o => SameSlot(p)
  BY DEF SameSlot, BTreeInv, TypeOK
<1> QED
  BY <1>1, QuietStepReads

LEMMA StartReads ==
  ASSUME BTreeInv, ReadInv, NEW o \in Op, NEW t \in Txn, Start(o, t)
  PROVE  ReadInv'
<1>1. ASSUME NEW kind, NEW k, WriteReserve(o, kind, t, k) PROVE ReadInv'
  BY <1>1, MoveReads DEF WriteReserve, BTreeInv, TypeOK
<1>2. ASSUME NEW kind, NEW range, ReadStart(o, kind, t, range) PROVE ReadInv'
  <2>1. CASE kind = "isEmpty"
    BY <1>2, <2>1, MoveReads DEF ReadStart, BTreeInv, TypeOK
  <2>2. CASE kind # "isEmpty"
    BY <1>2, <2>2, MoveReads DEF ReadStart, BTreeInv, TypeOK
  <2> QED
    BY <2>1, <2>2
<1> QED
  BY <1>1, <1>2 DEF Start

LEMMA PendingLookupReads ==
  ASSUME BTreeInv, ReadInv, NEW o \in Op, PendingLookup(o)
  PROVE  ReadInv'
<1>1. CASE pending[req[o].txn] = Absent
  BY <1>1, MoveReads DEF PendingLookup, Goto
<1>2. CASE pending[req[o].txn] # Absent
  BY <1>2, MoveReads DEF PendingLookup, Goto
<1> QED
  BY <1>1, <1>2

LEMMA ReadAcquireReads ==
  ASSUME BTreeInv, ReadInv, NEW o \in Op, ReadAcquire(o)
  PROVE  ReadInv'
BY MoveReads DEF ReadAcquire, Goto

\* The snapshot is taken in one step, so it gives the view.
LEMMA ReadSnapshotReads ==
  ASSUME BTreeInv, ReadInv, NEW o \in Op, ReadSnapshot(o)
  PROVE  ReadInv'
<1> DEFINE t == req[o].txn
<1>1. /\ pc[o] = "snapshot" /\ pc'[o] = "reading" /\ t \in Txn
      /\ snap'[o] = VisibleSnapshot(t) /\ unread'[o] = req[o].range
      /\ UNCHANGED <<ownerVars, req, found, told>>
      /\ \A p \in Op : p # o => SameSlot(p)
  BY DEF ReadSnapshot, SameSlot, BTreeInv, TypeOK, Started
<1>2. ApplyInv' /\ CommittedHaveLast'
  BY <1>1, ApplyUnchanged DEF ReadInv, ownerVars
<1>3. /\ \A u \in Txn, k \in Key : (k \in View(u))' <=> k \in View(u)
      /\ \A p \in Op : ReadGoesOn(p)
  BY <1>1, SameStorage DEF BTreeInv, TypeOK, ownerVars
<1>4. \A p \in Op : p # o => ReaderInv(p)'
  BY <1>1, <1>3, ReaderKeeps DEF ReadInv, ReadersInv
<1>5. ReaderInv(o)'
  <2>1. unread'[o] \cap found'[o] = {}
    BY <1>1 DEF ReadInv, ReadersInv, ReaderInv
  <2>2. \A u \in Txn, k \in Key : u <= t /\ Covers(u, k)' => Layer(snap'[o], u, k)
    BY <1>1, AbsentAssumption DEF VisibleSnapshot, Layer, Covers, HasDelta, ownerVars, BTreeInv,
                                   TypeOK, OwnerTypeOK
  <2>3. SnapshotCovers(o)'
    BY <1>1, <2>2 DEF SnapshotCovers, Layer, BTreeInv, TypeOK
  <2>4. \A k \in Key : Visible(snap'[o], k, k \in persistent') <=> k \in View(t)
    BY <1>1 DEF View, ownerVars
  <2>5. req[o].range \subseteq Key
    BY DEF BTreeInv, TypeOK
  <2>6. ReadsView(o)'
    BY <1>1, <1>3, <2>4, <2>5 DEF ReadsView
  <2> QED
    BY <1>1, <2>1, <2>3, <2>6 DEF ReaderInv
<1>6. TellsTruth'
  BY <1>1, <1>3, TruthKeeps DEF ReadInv
<1> QED
  BY <1>2, <1>4, <1>5, <1>6 DEF ReadInv, ReadersInv

\* Looking a key up moves it from what would be found to what is found.
LEMMA ReadKeyReads ==
  ASSUME BTreeInv, ReadInv, NEW o \in Op, NEW k \in Key, ReadKey(o, k)
  PROVE  ReadInv'
<1>1. /\ pc[o] = "reading" /\ k \in unread[o]
      /\ UNCHANGED <<ownerVars, pc, req, snap, told>>
      /\ unread'[o] = unread[o] \ {k}
      /\ found'[o] = found[o] \cup ({k} \cap persistent)
      /\ \A p \in Op : p # o => SameSlot(p)
  BY DEF ReadKey, SameSlot, BTreeInv, TypeOK
<1>2. ApplyInv' /\ CommittedHaveLast'
  BY <1>1, ApplyUnchanged DEF ReadInv, ownerVars
<1>3. /\ \A u \in Txn, j \in Key : (j \in View(u))' <=> j \in View(u)
      /\ \A p \in Op : ReadGoesOn(p)
  BY <1>1, SameStorage DEF BTreeInv, TypeOK, ownerVars
<1>4. \A p \in Op : p # o => ReaderInv(p)'
  BY <1>1, <1>3, ReaderKeeps DEF ReadInv, ReadersInv
<1>5. ReaderInv(o)'
  <2>1. unread[o] \cap found[o] = {}
    BY <1>1 DEF ReadInv, ReadersInv, ReaderInv
  <2>2. unread'[o] \cap found'[o] = {}
    BY <1>1, <2>1
  <2>3. ASSUME Reading(o) PROVE SnapshotCovers(o)' /\ ReadsView(o)'
    <3>1. SnapshotCovers(o) /\ ReadsView(o)
      BY <1>1, <2>3 DEF ReadInv, ReadersInv, ReaderInv
    <3>2. SnapshotCovers(o)'
      BY <1>1, <3>1 DEF SnapshotCovers, Covers, HasDelta, Layer, ownerVars
    <3>3. \A j : (IF j \in unread'[o] THEN j \in persistent' ELSE j \in found'[o])
                   <=> (IF j \in unread[o] THEN j \in persistent ELSE j \in found[o])
      BY <1>1, <2>1 DEF ownerVars
    <3>4. \A j : Visible(snap'[o], j, IF j \in unread'[o] THEN j \in persistent' ELSE j \in found'[o])
                   <=> Visible(snap[o], j, IF j \in unread[o] THEN j \in persistent ELSE j \in found[o])
      BY <1>1, <3>3 DEF Visible, LayersShow, Layer, Shows
    <3>5. req[o].range \subseteq Key
      BY DEF BTreeInv, TypeOK
    <3>6. ReadsView(o)'
      BY <1>1, <1>3, <3>1, <3>4, <3>5 DEF ReadsView
    <3> QED
      BY <3>2, <3>6
  <2>4. Reading(o)' <=> Reading(o)
    BY <1>1 DEF Reading
  <2> QED
    BY <1>1, <2>2, <2>3, <2>4 DEF ReaderInv
<1>6. TellsTruth'
  BY <1>1, <1>3, TruthKeeps DEF ReadInv
<1> QED
  BY <1>2, <1>4, <1>5, <1>6 DEF ReadInv, ReadersInv

\* The answer of a read that has looked every key up is the view.
LEMMA ResultIsView ==
  ASSUME BTreeInv, ReadInv, NEW o \in Op, pc[o] = "reading", Reading(o), unread[o] = {},
         NEW t \in Txn, t = req[o].txn
  PROVE  \A k \in req[o].range : k \in Result(o) <=> k \in View(t)
<1>1. ReadsView(o)
  BY DEF ReadInv, ReadersInv, ReaderInv
<1> QED
  BY <1>1 DEF ReadsView, Result

LEMMA ReadReturnReads ==
  ASSUME BTreeInv, ReadInv, NEW o \in Op, ReadReturn(o)
  PROVE  ReadInv'
<1>1. /\ pc[o] = "reading" /\ unread[o] = {}
      /\ UNCHANGED ownerVars
      /\ pc'[o] = "idle" /\ found'[o] = {}
      /\ \A p \in Op : p # o => SameSlot(p)
      /\ req[o].txn \in Txn
  BY DEF ReadReturn, Finish, SameSlot, BTreeInv, TypeOK, Started
<1>2. ApplyInv' /\ CommittedHaveLast'
  BY <1>1, ApplyUnchanged DEF ReadInv, ownerVars
<1>3. /\ \A u \in Txn, j \in Key : (j \in View(u))' <=> j \in View(u)
      /\ \A p \in Op : ReadGoesOn(p)
  BY <1>1, SameStorage DEF BTreeInv, TypeOK, ownerVars
<1>4. ReadersInv'
  BY <1>1, <1>3, ReaderKeeps, NotReading DEF ReadInv, ReadersInv
<1>5. TellsTruth'
  <2> PICK t \in Txn : t = req[o].txn
    BY <1>1
  <2>1. CASE told' = told
    BY <1>3, <2>1, TruthKeeps DEF ReadInv
  <2>2. CASE told' # told
    <3>1. /\ Reading(o)
          /\ told' = [told EXCEPT ![t] = [k \in Key |->
                        IF k \notin req[o].range THEN @[k]
                        ELSE IF k \in Result(o) THEN "present" ELSE "absent"]]
      BY <1>1, <2>2 DEF ReadReturn, Reading, ReadHeld
    <3>2. \A k \in req[o].range : k \in Result(o) <=> k \in View(t)
      BY <1>1, <3>1, ResultIsView
    <3>3. \A u \in Txn, k \in Key :
            \/ told'[u][k] = told[u][k]
            \/ u = t /\ told'[u][k] = IF k \in View(t) THEN "present" ELSE "absent"
      BY <3>1, <3>2 DEF BTreeInv, TypeOK
    <3> QED
      BY <1>3, <3>3 DEF TellsTruth, ReadInv
  <2> QED
    BY <2>1, <2>2
<1> QED
  BY <1>2, <1>4, <1>5 DEF ReadInv


-----------------------------------------------------------------------------
(* Writes.                                                                 *)

\* Steps that touch the storage.
LEMMA StorageStepReads ==
  ASSUME BTreeInv, ReadInv, ApplyInv', CommittedHaveLast',
         \A o \in Op : \/ SameSlot(o) /\ (pc[o] = "reading" /\ Reading(o) => ReadGoesOn(o))
                       \/ pc'[o] # "reading" /\ found'[o] = {},
         TellsTruth'
  PROVE  ReadInv'
BY ReaderKeeps, NotReading DEF ReadInv, ReadersInv

\* A step of a write, seen by the reads of its transaction and of others.
LEMMA ReadsBesideWrite ==
  ASSUME BTreeInv, OrderInv, NEW o \in Op, Writing(o),
         UNCHANGED <<persistent, committed>>,
         \A t \in Txn, k \in Key : t # req[o].txn \/ k \notin req[o].range =>
           ((k \in View(t))' <=> k \in View(t)),
         NEW p \in Op, pc[p] = "reading", Reading(p)
  PROVE  ReadGoesOn(p)
<1>1. req[p].txn = req[o].txn => req[p].range \cap req[o].range = {}
  BY DEF OrderInv, PermitsAreReserved
<1>2. \A u, k : Covers(u, k)' <=> Covers(u, k)
  BY DEF Covers, HasDelta
<1>3. req[p].range \subseteq Key
  BY DEF BTreeInv, TypeOK
<1> QED
  BY <1>1, <1>2, <1>3 DEF ReadGoesOn

LEMMA PendingInstallReads ==
  ASSUME BTreeInv, BTreeInv', OrderInv, ReadInv, NEW o \in Op, PendingInstall(o)
  PROVE  ReadInv'
<1>1. /\ pc[o] = "create" /\ pc'[o] = "first" /\ found'[o] = {}
      /\ UNCHANGED <<persistent, committed, life, todo, told>>
      /\ \A p \in Op : p # o => SameSlot(p)
  BY DEF PendingInstall, Goto, SameSlot, BTreeInv, TypeOK, ReadInv, ReadersInv, ReaderInv
<1>2. \A t \in Txn, k \in Key : (k \in View(t))' <=> k \in View(t)
  BY InstallKeepsViews
<1>3. ApplyInv' /\ CommittedHaveLast'
  BY <1>1, ApplyUnchanged DEF ReadInv
<1>4. TellsTruth'
  BY <1>1, <1>2, TruthKeeps DEF ReadInv
<1>5. Writing(o)
  BY <1>1 DEF Writing, WriteHeld
<1>6. \A p \in Op : pc[p] = "reading" /\ Reading(p) => ReadGoesOn(p)
  BY <1>1, <1>2, <1>5, ReadsBesideWrite
<1> QED
  BY <1>1, <1>3, <1>4, <1>6, StorageStepReads

LEMMA WriteFirstReads ==
  ASSUME BTreeInv, BTreeInv', OrderInv, ReadInv, NEW o \in Op, WriteFirst(o)
  PROVE  ReadInv'
<1>1. /\ pc[o] = "first" /\ pc'[o] = "second" /\ found'[o] = {}
      /\ UNCHANGED <<persistent, committed, life, todo>>
      /\ \A p \in Op : p # o => SameSlot(p)
  BY DEF WriteFirst, Goto, SameSlot, BTreeInv, TypeOK, ReadInv, ReadersInv, ReaderInv
<1>2. \A t \in Txn, k \in Key : t # req[o].txn \/ k \notin req[o].range =>
        ((k \in View(t))' <=> k \in View(t))
  BY WriteKeepsViews
<1>3. ApplyInv' /\ CommittedHaveLast'
  BY <1>1, ApplyUnchanged DEF ReadInv
<1>4. Writing(o)
  BY <1>1 DEF Writing, WriteHeld
<1>5. req[o].range = {TheKey(o)} /\ TheKey(o) \in Key /\ req[o].txn \in Txn
  BY <1>1, <1>4, KeyOfWrite DEF BTreeInv, Started
<1>6. \A t \in Txn, k \in Key : told'[t][k] # "unknown" =>
        /\ t # req[o].txn \/ k \notin req[o].range
        /\ told'[t][k] = told[t][k]
  BY <1>5 DEF WriteFirst, BTreeInv, TypeOK
<1>7. TellsTruth'
  BY <1>2, <1>6, TruthKeeps DEF ReadInv
<1>8. \A p \in Op : pc[p] = "reading" /\ Reading(p) => ReadGoesOn(p)
  BY <1>1, <1>2, <1>4, ReadsBesideWrite
<1> QED
  BY <1>1, <1>3, <1>7, <1>8, StorageStepReads

\* When a write returns, its transaction reads what it has written.
LEMMA WriteSecondShows ==
  ASSUME BTreeInv, BTreeInv', NEW o \in Op, WriteSecond(o), NEW t \in Txn, t = req[o].txn,
         NEW k \in Key, k = TheKey(o)
  PROVE  (k \in View(t))' <=> req[o].kind = "insert"
<1>1. /\ pending'[t] = SecondStep(o, pending[t]) /\ pending[t] \in Delta
      /\ pending'[t] # Absent
      /\ pending'[t].inserts \cap pending'[t].deletes = {}
  <2>1. pending'[t] = SecondStep(o, pending[t]) /\ pending[t] \in Delta
    BY DEF WriteSecond, BTreeInv, TypeOK, OwnerTypeOK, DeltaInPlace
  <2>2. pending'[t] # Absent
    BY <2>1, SecondStepKeeps, AbsentAssumption
  <2> QED
    BY <2>1, <2>2 DEF BTreeInv, DeltaDisjoint
<1>2. IF req[o].kind = "insert" THEN k \in pending'[t].inserts ELSE k \in pending'[t].deletes
  BY <1>1 DEF SecondStep, InsertSecond, DeleteSecond, Delta, DeltaOver
<1>3. IF req[o].kind = "insert" THEN OwnIn(t, k)' ELSE OwnOut(t, k)' /\ ~OwnIn(t, k)'
  BY <1>1, <1>2 DEF OwnIn, OwnOut
<1>4. ViewsAreLayered'
  BY ViewLayers, PTL DEF BTreeInv
<1> QED
  BY <1>3, <1>4 DEF ViewsAreLayered

LEMMA WriteSecondReads ==
  ASSUME BTreeInv, BTreeInv', OrderInv, ReadInv, NEW o \in Op, WriteSecond(o)
  PROVE  ReadInv'
<1>1. /\ pc[o] = "second" /\ pc'[o] = "idle" /\ found'[o] = {}
      /\ UNCHANGED <<persistent, committed, life, todo>>
      /\ \A p \in Op : p # o => SameSlot(p)
  BY DEF WriteSecond, Finish, SameSlot, BTreeInv, TypeOK
<1>2. \A t \in Txn, k \in Key : t # req[o].txn \/ k \notin req[o].range =>
        ((k \in View(t))' <=> k \in View(t))
  BY WriteKeepsViews
<1>3. ApplyInv' /\ CommittedHaveLast'
  BY <1>1, ApplyUnchanged DEF ReadInv
<1>4. Writing(o)
  BY <1>1 DEF Writing, WriteHeld
<1>5. PICK k \in Key : k = TheKey(o) /\ req[o].range = {k}
  BY <1>4, KeyOfWrite DEF BTreeInv
<1>6. PICK w \in Txn : w = req[o].txn
  BY <1>1 DEF BTreeInv, Started
<1>7. (k \in View(w))' <=> req[o].kind = "insert"
  BY <1>5, <1>6, WriteSecondShows
<1>8. /\ told'[w][k] = IF req[o].kind = "insert" THEN "present" ELSE "absent"
      /\ \A t \in Txn, j \in Key : t # w \/ j # k => told'[t][j] = told[t][j]
  BY <1>5, <1>6 DEF WriteSecond, BTreeInv, TypeOK
<1>9. TellsTruth'
  BY <1>2, <1>5, <1>6, <1>7, <1>8 DEF TellsTruth, ReadInv
<1>10. \A p \in Op : pc[p] = "reading" /\ Reading(p) => ReadGoesOn(p)
  BY <1>1, <1>2, <1>4, ReadsBesideWrite
<1> QED
  BY <1>1, <1>3, <1>9, <1>10, StorageStepReads


-----------------------------------------------------------------------------
(* The caller and its lifecycle calls.                                     *)

LEMMA LifecycleStepReads ==
  ASSUME BTreeInv, ReadInv, UNCHANGED opVars, ApplyInv', CommittedHaveLast',
         \A o \in Op : pc[o] = "reading" /\ Reading(o) => ReadGoesOn(o),
         \A t \in Txn, k \in Key : told'[t][k] # "unknown" =>
           told'[t][k] = told[t][k] /\ ((k \in View(t))' <=> k \in View(t))
  PROVE  ReadInv'
<1>1. TellsTruth'
  BY TruthKeeps DEF ReadInv
<1> QED
  BY <1>1, StorageStepReads DEF SameSlot, opVars

\* Steps of the caller and of the lifecycle calls that leave the storage alone.
LEMMA NoStorageReads ==
  ASSUME BTreeInv, ReadInv, UNCHANGED <<opVars, persistent, committed, pending>>,
         ApplyInv', CommittedHaveLast',
         \A t \in Txn, k \in Key : told'[t][k] # "unknown" => told'[t][k] = told[t][k]
  PROVE  ReadInv'
<1>1. /\ \A t \in Txn, k \in Key : (k \in View(t))' <=> k \in View(t)
      /\ \A o \in Op : ReadGoesOn(o)
  BY SameStorage DEF BTreeInv, TypeOK
<1> QED
  BY <1>1, LifecycleStepReads

\* What a commit brings does not reach a key that a later transaction has reserved.
LEMMA CommitReachesNone ==
  ASSUME OrderInv, NEW u \in Txn, NEW t \in Txn, u < t, NEW k \in Key,
         k \in reads[t] \cup writes[t], pending[u] # Absent
  PROVE  ~Mentions(pending[u], k)
BY DEF OrderInv, ReservationsAreOrdered, DeltasAreReserved, Mentions

LEMMA CommitReads ==
  ASSUME BTreeInv, BTreeInv', OrderInv, ReadInv, NEW u \in Txn, Commit(u)
  PROVE  ReadInv'
<1>1. /\ \A o \in Op : req[o].txn # u
      /\ committed[u] = Absent
      /\ committed'[u] = IF pending[u] = Absent THEN NoDelta ELSE pending[u]
      /\ \A v \in Txn : v # u => committed'[v] = committed[v]
      /\ UNCHANGED <<opVars, persistent>>
  BY DEF Commit, CommitDecide, Quiet, BTreeInv, TypeOK, OwnerTypeOK
<1>2. \A t \in Txn, k \in Key : told'[t][k] # "unknown" =>
        t # u /\ told'[t][k] = told[t][k] /\ k \in reads[t] \cup writes[t]
  BY DEF Commit, Forget, OrderInv, ToldIsReserved
<1>3. ApplyInv' /\ CommittedHaveLast'
  BY CommitApplyInv DEF ReadInv
<1>4. \A t \in Txn, k \in Key : told'[t][k] # "unknown" => ((k \in View(t))' <=> k \in View(t))
  BY <1>2, CommitKeepsViews
<1>5. ASSUME NEW o \in Op, pc[o] = "reading", Reading(o) PROVE ReadGoesOn(o)
  <2>1. req[o].range \subseteq Key
    BY DEF BTreeInv, TypeOK
  <2> SUFFICES ASSUME NEW t \in Txn, NEW k \in req[o].range, t = req[o].txn
               PROVE  /\ (k \in View(t))' <=> k \in View(t)
                      /\ \A v \in Txn : v <= t /\ Covers(v, k)' => Covers(v, k)
    BY <1>1 DEF ReadGoesOn
  <2>2. k \in Key /\ k \in reads[t] /\ t # u
    BY <1>1, <1>5, <2>1 DEF OrderInv, PermitsAreReserved
  <2>3. (k \in View(t))' <=> k \in View(t)
    BY <2>2, CommitKeepsViews
  <2>4. ASSUME u <= t PROVE ~Covers(u, k)'
    <3>1. u < t
      BY <2>2, <2>4, TxnNat
    <3>2. pending[u] # Absent => ~Mentions(pending[u], k)
      BY <2>2, <3>1, CommitReachesNone
    <3> QED
      BY <1>1, <3>2 DEF Covers, HasDelta
  <2>5. \A v \in Txn : v # u => (Covers(v, k)' <=> Covers(v, k))
    BY <1>1 DEF Covers, HasDelta
  <2> QED
    BY <2>3, <2>4, <2>5
<1> QED
  BY <1>1, <1>2, <1>3, <1>4, <1>5, LifecycleStepReads

LEMMA RollbackReads ==
  ASSUME BTreeInv, BTreeInv', OrderInv, ReadInv, NEW u \in Txn, Rollback(u)
  PROVE  ReadInv'
<1>1. /\ \A o \in Op : req[o].txn # u
      /\ UNCHANGED <<opVars, persistent, committed>>
  BY DEF Rollback, RollbackDecide, Quiet
<1>2. \A t \in Txn, k \in Key : told'[t][k] # "unknown" => t # u /\ told'[t][k] = told[t][k]
  BY DEF Rollback, Forget
<1>3. ApplyInv' /\ CommittedHaveLast'
  BY IdleCallsApplyInv DEF ReadInv
<1>4. \A t \in Txn, k \in Key : t # u => ((k \in View(t))' <=> k \in View(t))
  BY RollbackKeepsViews
<1>5. \A v, k : Covers(v, k)' <=> Covers(v, k)
  BY <1>1 DEF Covers, HasDelta
<1>6. \A o \in Op : ReadGoesOn(o)
  <2>1. \A o \in Op : req[o].range \subseteq Key
    BY DEF BTreeInv, TypeOK
  <2> QED
    BY <1>1, <1>4, <1>5, <2>1 DEF ReadGoesOn
<1> QED
  BY <1>1, <1>2, <1>3, <1>4, <1>6, LifecycleStepReads

LEMMA CallReads ==
  ASSUME BTreeInv, ReadInv, NEW t \in Txn, CommitAgain(t) \/ FinalizeNoop(t) \/ Finalize(t)
  PROVE  ReadInv'
<1>1. UNCHANGED <<opVars, persistent, committed, pending>>
  BY DEF CommitAgain, CommitDuplicate, FinalizeNoop, FinalizeStale, Finalize, FinalizeBegin
<1>2. ApplyInv' /\ CommittedHaveLast'
  BY IdleCallsApplyInv, FinalizeApplyInv DEF ReadInv
<1>3. \A u \in Txn, k \in Key : told'[u][k] # "unknown" => told'[u][k] = told[u][k]
  BY DEF CommitAgain, FinalizeNoop, Finalize, Forget
<1> QED
  BY <1>1, <1>2, <1>3, NoStorageReads

\* While finalize runs, what is read and what has been told is beyond its cutoff.
LEMMA BeyondCutoff ==
  ASSUME BTreeInv, OrderInv, life.phase = "apply"
  PROVE  /\ \A o \in Op : req[o].txn \in Txn => req[o].txn > life.txn
         /\ \A t \in Txn, k \in Key : told[t][k] # "unknown" => t > life.txn
BY TxnAssumption DEF BTreeInv, FinalizeAlone, OrderInv, ToldIsReserved

LEMMA ApplyKeyReads ==
  ASSUME BTreeInv, BTreeInv', OrderInv, ReadInv, NEW s \in todo, ApplyKey(s),
         UNCHANGED <<opVars, told>>
  PROVE  ReadInv'
<1> USE DEF ReadInv
<1>1. /\ life.phase = "apply"
      /\ s \in KeyOp /\ s.txn <= life.txn /\ Covers(s.txn, s.key)
      /\ UNCHANGED committed
      /\ \A k : k # s.key => (k \in persistent' <=> k \in persistent)
  BY DEF ApplyKey, ApplyInv, ApplyThrough, Covers, Mentions
<1>2. ApplyInv' /\ CommittedHaveLast'
  BY ApplyKeyApplyInv
<1>3. \A t \in Txn, k \in Key : t > life.txn => ((k \in View(t))' <=> k \in View(t))
  BY ApplyKeepsViews
<1>4. ASSUME NEW o \in Op, pc[o] = "reading", Reading(o) PROVE ReadGoesOn(o)
  <2>1. req[o].range \subseteq Key
    BY DEF BTreeInv, TypeOK
  <2> SUFFICES ASSUME NEW t \in Txn, NEW k \in req[o].range, t = req[o].txn
               PROVE  /\ (k \in View(t))' <=> k \in View(t)
                      /\ \A v \in Txn : v <= t /\ Covers(v, k)' => Covers(v, k)
                      /\ k = s.key => \E v \in Txn : Layer(snap[o], v, k)
    BY <1>1 DEF ReadGoesOn
  <2>2. k \in Key /\ t > life.txn
    BY <1>1, <2>1, BeyondCutoff
  <2>3. SnapshotCovers(o)
    BY <1>4 DEF ReadersInv, ReaderInv
  <2>4. s.txn \in Txn /\ s.txn <= t
    BY <1>1, <2>2, LifeType, TxnNat DEF KeyOp, BTreeInv
  <2>5. k = s.key => Layer(snap[o], s.txn, k)
    BY <1>1, <2>3, <2>4 DEF SnapshotCovers
  <2>6. \A v \in Txn : Covers(v, k)' <=> Covers(v, k)
    BY <1>1 DEF Covers, HasDelta
  <2> QED
    BY <1>3, <2>2, <2>4, <2>5, <2>6
<1>5. \A t \in Txn, k \in Key : told'[t][k] # "unknown" => t > life.txn
  BY <1>1, BeyondCutoff
<1> QED
  BY <1>2, <1>3, <1>4, <1>5, LifecycleStepReads

LEMMA FinalizePublishReads ==
  ASSUME BTreeInv, BTreeInv', OrderInv, ReadInv, FinalizePublish, UNCHANGED <<opVars, told, closed>>
  PROVE  ReadInv'
<1> USE DEF ReadInv
<1>1. /\ life.phase = "apply"
      /\ UNCHANGED persistent
      /\ \A u \in Txn, k \in Key : Covers(u, k)' => Covers(u, k)
  BY DEF FinalizePublish, Covers, HasDelta
<1>2. ApplyInv' /\ CommittedHaveLast'
  BY LifecycleApplyInv DEF LifeStep
<1>3. \A t \in Txn, k \in Key : t > life.txn => ((k \in View(t))' <=> k \in View(t))
  BY PublishKeepsViews
<1>4. ASSUME NEW o \in Op, pc[o] = "reading", Reading(o) PROVE ReadGoesOn(o)
  <2>1. req[o].range \subseteq Key
    BY DEF BTreeInv, TypeOK
  <2> QED
    BY <1>1, <1>3, <2>1, BeyondCutoff DEF ReadGoesOn
<1>5. \A t \in Txn, k \in Key : told'[t][k] # "unknown" => t > life.txn
  BY <1>1, BeyondCutoff
<1> QED
  BY <1>2, <1>3, <1>4, <1>5, LifecycleStepReads

LEMMA LifecycleReads ==
  ASSUME BTreeInv, BTreeInv', OrderInv, ReadInv, LifeStep \/ LifeFail
  PROVE  ReadInv'
<1>1. UNCHANGED <<opVars, told, closed>>
  BY DEF LifeStep, LifeFail
<1>2. CASE \E s \in todo : ApplyKey(s)
  BY <1>1, <1>2, ApplyKeyReads
<1>3. CASE FinalizePublish
  BY <1>1, <1>3, FinalizePublishReads
<1>4. CASE LifeRelease \/ LifeReturn \/ FinalizeFail
  <2>1. UNCHANGED <<persistent, committed, pending>>
    BY <1>4 DEF LifeRelease, LifeReturn, FinalizeFail
  <2>2. ApplyInv' /\ CommittedHaveLast'
    BY LifecycleApplyInv DEF ReadInv
  <2> QED
    BY <1>1, <2>1, <2>2, NoStorageReads
<1> QED
  BY <1>2, <1>3, <1>4 DEF LifeStep, LifeFail

-----------------------------------------------------------------------------
(* The invariant.                                                          *)

LEMMA ReadInit == Init => ReadInv
<1> SUFFICES ASSUME Init PROVE ReadInv
  OBVIOUS
<1> USE DEF Init, OwnerInit
<1>1. ApplyInv
  BY DEF ApplyInv, NoCall
<1>2. CommittedHaveLast
  BY DEF CommittedHaveLast
<1>3. ReadersInv
  BY DEF ReadersInv, ReaderInv
<1>4. TellsTruth
  BY DEF TellsTruth
<1> QED
  BY <1>1, <1>2, <1>3, <1>4 DEF ReadInv

LEMMA ReadStep ==
  ASSUME BTreeInv, BTreeInv', OrderInv, ReadInv, [Next]_vars
  PROVE  ReadInv'
<1>1. ASSUME NEW o \in Op, NEW t \in Txn, Start(o, t) PROVE ReadInv'
  BY <1>1, StartReads
<1>2. ASSUME NEW o \in Op, WriteNext(o) PROVE ReadInv'
  <2>1. CASE WriteReject(o)
    BY <2>1, GiveUpReads DEF WriteReject
  <2>2. CASE PendingLookup(o)
    BY <2>2, PendingLookupReads
  <2>3. CASE PendingInstall(o)
    BY <2>3, PendingInstallReads
  <2>4. CASE WriteFirst(o)
    BY <2>4, WriteFirstReads
  <2>5. CASE WriteSecond(o)
    BY <2>5, WriteSecondReads
  <2> QED
    BY <1>2, <2>1, <2>2, <2>3, <2>4, <2>5 DEF WriteNext
<1>3. ASSUME NEW o \in Op, ReadNext(o) PROVE ReadInv'
  BY <1>3, ReadAcquireReads, ReadSnapshotReads, ReadKeyReads, ReadReturnReads DEF ReadNext
<1>4. ASSUME NEW o \in Op, Abandon(o) PROVE ReadInv'
  BY <1>4, GiveUpReads DEF Abandon
<1>5. ASSUME NEW t \in Txn,
             CloseTxn(t) \/ Commit(t) \/ Rollback(t) \/ CommitAgain(t) \/ Finalize(t) \/ FinalizeNoop(t)
      PROVE  ReadInv'
  <2>1. CASE CloseTxn(t)
    BY <2>1, QuietStepReads DEF CloseTxn, SameSlot, opVars
  <2> QED
    BY <1>5, <2>1, CommitReads, RollbackReads, CallReads
<1>6. CASE LifeStep \/ LifeFail
  BY <1>6, LifecycleReads
<1>7. CASE UNCHANGED vars
  BY <1>7, QuietStepReads DEF vars, SameSlot, opVars
<1> QED
  BY <1>1, <1>2, <1>3, <1>4, <1>5, <1>6, <1>7 DEF Next, Decide

LEMMA ReadInvariance == Spec => [](BTreeInv /\ OrderInv /\ ReadInv)
<1>1. BTreeInv /\ BTreeInv' /\ OrderInv /\ ReadInv /\ [Next]_vars => ReadInv'
  BY ReadStep
<1> QED
  BY <1>1, ReadInit, OrderInvariance, PTL DEF Spec

\* What an undecided transaction was last told of a key, by a read or by its own write,
\* is what it would read now, whatever the other calls and the lifecycle do meanwhile.
THEOREM PromisesAreKept == Spec => []TellsTruth
<1>1. ReadInv => TellsTruth
  BY DEF ReadInv
<1> QED
  BY <1>1, ReadInvariance, PTL

\* A scan composes the answer of one atomic read from its snapshot and from what it
\* finds in canonical storage, which finalize may rewrite under it.
THEOREM ScansAreAtomic == Spec => []ScanIsAtomic
<1>1. BTreeInv /\ ReadInv => ScanIsAtomic
  <2> SUFFICES ASSUME BTreeInv, ReadInv, NEW o \in Op, pc[o] = "reading", req[o].kind # "isEmpty",
                      NEW k \in req[o].range \ unread[o]
               PROVE  Visible(snap[o], k, k \in found[o]) <=> k \in View(req[o].txn)
    BY DEF ScanIsAtomic
  <2>1. ReadsView(o)
    BY DEF ReadInv, ReadersInv, ReaderInv, Reading, ReadHeld
  <2>2. req[o].txn \in Txn
    BY DEF BTreeInv, Started
  <2> QED
    BY <2>1, <2>2 DEF ReadsView
<1> QED
  BY <1>1, ReadInvariance, PTL


-----------------------------------------------------------------------------
(* What moves a view.                                                      *)

LEMMA ViewMovesStep ==
  ASSUME BTreeInv, BTreeInv', OrderInv, ReadInv, [Next]_vars
  PROVE  ViewMoves
<1> SUFFICES ASSUME NEW t \in Txn, NEW k \in Key,
                    t > finalized', ~(life'.call = "finalize" /\ t <= life'.txn),
                    ~((k \in View(t))' <=> k \in View(t)),
                    pending'[t] = pending[t]
             PROVE  /\ \E u \in Txn : u < t /\ committed[u] = Absent /\ committed'[u] # Absent
                    /\ k \notin reads[t] \cup writes[t]
  BY DEF ViewMoves
<1>1. ~UNCHANGED <<persistent, committed>>
  <2> SUFFICES ASSUME UNCHANGED <<persistent, committed>> PROVE FALSE
    OBVIOUS
  <2>1. (OwnIn(t, k)' <=> OwnIn(t, k)) /\ (OwnOut(t, k)' <=> OwnOut(t, k))
    BY DEF OwnIn, OwnOut
  <2> QED
    BY <2>1, SameViewOwn DEF BTreeInv
<1>2. \/ \E u \in Txn : Commit(u)
      \/ \E s \in todo : ApplyKey(s)
      \/ FinalizePublish
  <2>1. \A o \in Op, u \in Txn : Start(o, u) => UNCHANGED <<persistent, committed>>
    BY DEF Start, WriteReserve, ReadStart, ownerVars
  <2>2. \A o \in Op : WriteNext(o) => UNCHANGED <<persistent, committed>>
    BY DEF WriteNext, WriteReject, PendingLookup, PendingInstall, WriteFirst, WriteSecond, ownerVars
  <2>3. \A o \in Op : ReadNext(o) \/ Abandon(o) => UNCHANGED <<persistent, committed>>
    BY DEF ReadNext, ReadAcquire, ReadSnapshot, ReadKey, ReadReturn, Abandon, ownerVars
  <2>4. \A u \in Txn : CloseTxn(u) \/ Rollback(u) \/ CommitAgain(u) \/ Finalize(u) \/ FinalizeNoop(u)
                         => UNCHANGED <<persistent, committed>>
    BY DEF CloseTxn, Rollback, RollbackDecide, CommitAgain, CommitDuplicate, Finalize, FinalizeBegin,
           FinalizeNoop, FinalizeStale, ownerVars
  <2>5. LifeRelease \/ LifeReturn \/ LifeFail => UNCHANGED <<persistent, committed>>
    BY DEF LifeRelease, LifeReturn, LifeFail, FinalizeFail
  <2>6. UNCHANGED vars => UNCHANGED <<persistent, committed>>
    BY DEF vars, ownerVars
  <2> QED
    BY <1>1, <2>1, <2>2, <2>3, <2>4, <2>5, <2>6 DEF Next, Decide, LifeStep
<1>3. ASSUME NEW u \in Txn, Commit(u)
      PROVE  /\ \E v \in Txn : v < t /\ committed[v] = Absent /\ committed'[v] # Absent
             /\ k \notin reads[t] \cup writes[t]
  <2>1. /\ committed[u] = Absent /\ committed'[u] # Absent
        /\ pending'[u] = Absent
    BY <1>3, AbsentAssumption DEF Commit, CommitDecide, BTreeInv, TypeOK, OwnerTypeOK
  <2>2. t # u \/ pending[u] = Absent
    BY <2>1
  <2>3. u < t /\ k \notin reads[t] \cup writes[t]
    BY <1>3, <2>2, CommitKeepsViews
  <2> QED
    BY <2>1, <2>3
<1>4. life.txn \in Nat /\ t \in Nat
  BY LifeType, TxnNat DEF BTreeInv
<1>5. ~(\E s \in todo : ApplyKey(s))
  <2> SUFFICES ASSUME NEW s \in todo, ApplyKey(s) PROVE FALSE
    OBVIOUS
  <2>1. t > life.txn
    BY <1>4 DEF ApplyKey, BTreeInv, FinalizeAlone
  <2> QED
    BY <2>1, ApplyKeepsViews DEF ReadInv
<1>6. ~FinalizePublish
  <2> SUFFICES ASSUME FinalizePublish PROVE FALSE
    OBVIOUS
  <2>1. t > life.txn
    BY DEF FinalizePublish
  <2> QED
    BY <2>1, PublishKeepsViews DEF ReadInv
<1> QED
  BY <1>2, <1>3, <1>5, <1>6

\* The view of a transaction beyond the frontier moves only with its own delta, or by
\* the commit of an earlier transaction at a key it has neither read nor written:
\* applying, pruning and releasing move nothing.
THEOREM ViewsMoveByCommit == Spec => ViewMovesOnlyByCommit
<1>1. BTreeInv /\ BTreeInv' /\ OrderInv /\ ReadInv /\ [Next]_vars => [ViewMoves]_vars
  BY ViewMovesStep
<1> QED
  BY <1>1, ReadInvariance, PTL DEF Spec, ViewMovesOnlyByCommit
=============================================================================
