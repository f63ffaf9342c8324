--------------------------- MODULE CollectionOwner ---------------------------
(***************************************************************************)
(* The state and the lifecycle that every persistent collection shares     *)
(* (src/src/persistence.rs): canonical storage, committed and pending      *)
(* deltas, the finalized frontier, and the three lifecycle calls.          *)
(*                                                                         *)
(* A lifecycle call is one action per region between two awaits or two     *)
(* locks.  The caller serializes lifecycle calls, so one record, `life',   *)
(* holds the call in progress.  A call that returns an error without       *)
(* touching the state (Outdated, Conflict) is not an action.               *)
(***************************************************************************)
EXTENDS TxnSemaphore, BTreeDelta

CONSTANTS Absent,   \* no entry in a map
          NoDelta   \* a committed entry without a delta (Option::None)

VARIABLES persistent,  \* keys in canonical storage
          committed,   \* State::committed
          pending,     \* State::pending
          finalized,   \* State::finalized, 0 when there is none
          life,        \* the lifecycle call in progress
          todo         \* key operations that finalize has still to apply

ownerVars == <<persistent, committed, pending, finalized, life, todo>>

Delta == DeltaOver(Key)

ASSUME AbsentAssumption == Absent \notin Delta
                        /\ NoDelta \notin Delta
                        /\ Absent # NoDelta

\* One native key operation of Delta::apply_to.
KeyOp == [txn : Txn, kind : {"insert", "delete"}, key : Key]

Phase == {"idle", "release", "apply", "ok", "failed"}

OwnerTypeOK ==
  /\ persistent \subseteq Key
  /\ committed \in [Txn -> Delta \cup {Absent, NoDelta}]
  /\ pending \in [Txn -> Delta \cup {Absent}]
  /\ finalized \in Txn \cup {0}
  /\ life \in [call : {"none", "commit", "rollback", "finalize"},
               txn : Txn \cup {0}, phase : Phase]
  /\ todo \subseteq KeyOp

NoCall == [call |-> "none", txn |-> 0, phase |-> "idle"]

\* CollectionOwner::new, over canonical storage of any content.
OwnerInit ==
  /\ persistent \in SUBSET Key
  /\ committed = [t \in Txn |-> Absent]
  /\ pending = [t \in Txn |-> Absent]
  /\ finalized = 0
  /\ life = NoCall
  /\ todo = {}

\* State::assert_writable; its errors are Outdated and Committed.
AssertWritable(t) == t > finalized /\ committed[t] = Absent

HasDelta(t) == committed[t] \notin {Absent, NoDelta}

-----------------------------------------------------------------------------
(* Visibility.                                                             *)

\* visible_snapshot: the committed deltas no later than t and t's own pending
\* delta.  The handle of canonical storage is shared, not copied: a reader
\* looks at `persistent' when it gets there.
VisibleSnapshot(t) ==
  [layers |-> [u \in Txn |-> IF u <= t /\ HasDelta(u) THEN committed[u]
                                                      ELSE Absent],
   own |-> pending[t]]

Snapshot == [layers : [Txn -> Delta \cup {Absent}], own : Delta \cup {Absent}]

Layer(s, u, k) == s.layers[u] # Absent /\ Mentions(s.layers[u], k)

\* Applying the layers in order leaves what the last one that mentions k says,
\* or what canonical storage says when none does.
LayersShow(s, k, base) ==
  \/ base /\ \A u \in Txn : ~Layer(s, u, k)
  \/ \E u \in Txn : /\ Layer(s, u, k)
                    /\ \A v \in Txn : Layer(s, v, k) => v <= u
                    /\ k \in s.layers[u].inserts

\* is_row_visible and the stream composition: the layers, then t's own delta.
Visible(s, k, base) ==
  IF s.own = Absent THEN LayersShow(s, k, base)
                    ELSE Shows(s.own, k, LayersShow(s, k, base))

\* What a read at t that ran in one step would return.
View(t) == {k \in Key : Visible(VisibleSnapshot(t), k, k \in persistent)}

-----------------------------------------------------------------------------
(* Commit and rollback.                                                    *)

\* The call has returned from its locked region and will next release.
Decided(name, t) == [call |-> name, txn |-> t, phase |-> "release"]

\* Mutant of CommitDecide: no early return for a committed transaction.
CommitDecide_Again(t) ==
  /\ life.phase = "idle"
  /\ t > finalized
  /\ committed' = [committed EXCEPT ![t] = IF pending[t] = Absent THEN NoDelta
                                                                  ELSE pending[t]]
  /\ pending' = [pending EXCEPT ![t] = Absent]
  /\ life' = Decided("commit", t)
  /\ UNCHANGED <<persistent, finalized, todo, semVars>>

\* Mutant of CommitDecide: a commit without a delta returns before the release.
CommitDecide_EmptyReturns(t) ==
  /\ life.phase = "idle"
  /\ t > finalized
  /\ committed[t] = Absent
  /\ committed' = [committed EXCEPT ![t] = IF pending[t] = Absent THEN NoDelta
                                                                  ELSE pending[t]]
  /\ pending' = [pending EXCEPT ![t] = Absent]
  /\ life' = IF pending[t] = Absent
               THEN [call |-> "commit", txn |-> t, phase |-> "ok"]
               ELSE Decided("commit", t)
  /\ UNCHANGED <<persistent, finalized, todo, semVars>>

\* commit, under the state lock: pending moves to committed, also when there is
\* no pending delta.
CommitDecide(t) ==
  /\ life.phase = "idle"
  /\ t > finalized
  /\ committed[t] = Absent
  /\ committed' = [committed EXCEPT ![t] = IF pending[t] = Absent THEN NoDelta
                                                                  ELSE pending[t]]
  /\ pending' = [pending EXCEPT ![t] = Absent]
  /\ life' = Decided("commit", t)
  /\ UNCHANGED <<persistent, finalized, todo, semVars>>

\* commit of a committed transaction returns Ok before it reaches the release.
CommitDuplicate(t) ==
  /\ life.phase = "idle"
  /\ t > finalized
  /\ committed[t] # Absent
  /\ life' = [call |-> "commit", txn |-> t, phase |-> "ok"]
  /\ UNCHANGED <<persistent, committed, pending, finalized, todo, semVars>>

\* rollback, under the state lock.
RollbackDecide(t) ==
  /\ life.phase = "idle"
  /\ t > finalized
  /\ committed[t] = Absent
  /\ pending' = [pending EXCEPT ![t] = Absent]
  /\ life' = Decided("rollback", t)
  /\ UNCHANGED <<persistent, committed, finalized, todo, semVars>>

-----------------------------------------------------------------------------
(* Finalize.                                                               *)

\* finalize at or before the frontier is a no-op.
FinalizeStale(t) ==
  /\ life.phase = "idle"
  /\ t <= finalized
  /\ life' = [call |-> "finalize", txn |-> t, phase |-> "ok"]
  /\ UNCHANGED <<persistent, committed, pending, finalized, todo, semVars>>

\* Mutant of ApplyThrough: every committed delta is applied, not those up to t.
ApplyThrough_Everything(t) ==
  {s \in KeyOp : /\ HasDelta(s.txn)
                 /\ s.key \in IF s.kind = "insert" THEN committed[s.txn].inserts
                                                   ELSE committed[s.txn].deletes}

\* The key operations of apply_to for the committed deltas up to t.
ApplyThrough(t) ==
  {s \in KeyOp : /\ s.txn <= t
                 /\ HasDelta(s.txn)
                 /\ s.key \in IF s.kind = "insert" THEN committed[s.txn].inserts
                                                   ELSE committed[s.txn].deletes}

\* Mutant of FinalizeBegin: the committed deltas are taken out, not copied.
FinalizeBegin_Takes(t) ==
  /\ life.phase = "idle"
  /\ t > finalized
  /\ todo' = ApplyThrough(t)
  /\ life' = [call |-> "finalize", txn |-> t, phase |-> "apply"]
  /\ committed' = [u \in Txn |-> IF u > t THEN committed[u] ELSE Absent]
  /\ UNCHANGED <<persistent, pending, finalized, semVars>>

\* finalize, under the read lock: collect what is to be applied.
FinalizeBegin(t) ==
  /\ life.phase = "idle"
  /\ t > finalized
  /\ todo' = ApplyThrough(t)
  /\ life' = [call |-> "finalize", txn |-> t, phase |-> "apply"]
  /\ UNCHANGED <<persistent, committed, pending, finalized, semVars>>

\* Mutant of AppliedBefore: the newest delta is applied first.
AppliedBefore_Newest(s, r) ==
  s.txn > r.txn \/ (s.txn = r.txn /\ s.kind = "insert" /\ r.kind = "delete")

\* s is applied before r: by transaction, inserts before deletes.
AppliedBefore(s, r) ==
  s.txn < r.txn \/ (s.txn = r.txn /\ s.kind = "insert" /\ r.kind = "delete")

\* One key of apply_to, in place in canonical storage, without the state lock.
\* The keys of one tree are applied in any order.
ApplyKey(s) ==
  /\ life.phase = "apply"
  /\ s \in todo
  /\ \A r \in todo : ~AppliedBefore(r, s)
  /\ persistent' = IF s.kind = "insert" THEN persistent \cup {s.key}
                                        ELSE persistent \ {s.key}
  /\ todo' = todo \ {s}
  /\ UNCHANGED <<committed, pending, finalized, life, semVars>>

\* apply_to returns an error, or the call is dropped at an await: the rest is
\* left unapplied.  The caller must recover; it makes no further lifecycle call.
FinalizeFail ==
  /\ life.phase = "apply"
  /\ todo # {}
  /\ life' = [life EXCEPT !.phase = "failed"]
  /\ UNCHANGED <<persistent, committed, pending, finalized, todo, semVars>>

\* Mutant of FinalizePublish: the frontier is one past the cutoff.
FinalizePublish_PastCutoff ==
  /\ life.phase = "apply"
  /\ todo = {}
  /\ committed' = [u \in Txn |-> IF u > life.txn THEN committed[u] ELSE Absent]
  /\ pending' = [u \in Txn |-> IF u > life.txn THEN pending[u] ELSE Absent]
  /\ finalized' = life.txn + 1
  /\ life' = [life EXCEPT !.phase = "release"]
  /\ UNCHANGED <<persistent, todo, semVars>>

\* Mutant of FinalizePublish: pending deltas through the cutoff are kept.
FinalizePublish_KeepsPending ==
  /\ life.phase = "apply"
  /\ todo = {}
  /\ committed' = [u \in Txn |-> IF u > life.txn THEN committed[u] ELSE Absent]
  /\ finalized' = life.txn
  /\ life' = [life EXCEPT !.phase = "release"]
  /\ UNCHANGED <<persistent, pending, todo, semVars>>

\* finalize, under the write lock: prune and advance the frontier.
FinalizePublish ==
  /\ life.phase = "apply"
  /\ todo = {}
  /\ committed' = [u \in Txn |-> IF u > life.txn THEN committed[u] ELSE Absent]
  /\ pending' = [u \in Txn |-> IF u > life.txn THEN pending[u] ELSE Absent]
  /\ finalized' = life.txn
  /\ life' = [life EXCEPT !.phase = "release"]
  /\ UNCHANGED <<persistent, todo, semVars>>

\* Mutant of LifeRelease: rollback does not reach the semaphore.
LifeRelease_NotRollback ==
  /\ life.phase = "release"
  /\ CASE life.call = "finalize" -> SemReleaseThrough(life.txn)
       [] life.call = "commit" -> SemRelease(life.txn)
       [] OTHER -> UNCHANGED semVars
  /\ life' = [life EXCEPT !.phase = "ok"]
  /\ UNCHANGED <<persistent, committed, pending, finalized, todo>>

\* Mutant of LifeRelease: every decision drops the past, as finalize does.
LifeRelease_DropsPast ==
  /\ life.phase = "release"
  /\ SemReleaseThrough(life.txn)
  /\ life' = [life EXCEPT !.phase = "ok"]
  /\ UNCHANGED <<persistent, committed, pending, finalized, todo>>

\* The last statement of a call that decided: semaphore.finalize.
LifeRelease ==
  /\ life.phase = "release"
  /\ IF life.call = "finalize" THEN SemReleaseThrough(life.txn)
                               ELSE SemRelease(life.txn)
  /\ life' = [life EXCEPT !.phase = "ok"]
  /\ UNCHANGED <<persistent, committed, pending, finalized, todo>>

\* The call returns Ok to its caller.
LifeReturn ==
  /\ life.phase = "ok"
  /\ life' = NoCall
  /\ UNCHANGED <<persistent, committed, pending, finalized, todo, semVars>>
=============================================================================
