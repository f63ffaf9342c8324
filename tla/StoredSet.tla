------------------------------ MODULE StoredSet ------------------------------
(***************************************************************************)
(* The TransactionalSet with the storage of its canonical contents, which  *)
(* a finalize rewrites in place before it prunes the versions it has       *)
(* merged (finalize in src/src/persistence.rs).  `canon' is what storage   *)
(* holds now: half-way through a finalize a key may stand before, after or *)
(* between the versions that are merged, all of which are still listed.    *)
(*                                                                         *)
(* BTreeRefinement shows that the storage of a BTree is rewritten in these *)
(* steps; Restore has a reader of it.                                      *)
(***************************************************************************)
EXTENDS TransactionalSet

VARIABLE merge  \* the finalize in flight: its cutoff and what it has still to apply

storedVars == <<setVars, merge>>

NoMerge == [phase |-> "idle", through |-> 0, todo |-> {}]

StoredInit == SetInit /\ merge = NoMerge

\* Callers keep new work out of what is being finalized.
Working(t) == t > merge.through

\* The changes, as <<transaction, key>>, that a finalize through t applies.
Unmerged(t) ==
  {s \in committed \X Key : s[1] <= t /\ change[s[1]][s[2]] # "same"}

\* finalize, under the read lock: collect what is to be applied; prune nothing.
MergeBegin(t) ==
  /\ merge.phase = "idle"
  /\ t > frontier
  /\ merge' = [phase |-> "apply", through |-> t, todo |-> Unmerged(t)]
  /\ told' = [u \in Txn |-> IF u <= t THEN Unknown ELSE told[u]]
  /\ UNCHANGED <<canon, change, committed, frontier>>

\* One key of one delta, the deltas in the order of their transactions.
MergeKey(u, k) ==
  /\ merge.phase = "apply"
  /\ <<u, k>> \in merge.todo /\ \A s \in merge.todo : u <= s[1]
  /\ canon' = IF change[u][k] = "in" THEN canon \cup {k} ELSE canon \ {k}
  /\ merge' = [merge EXCEPT !.todo = @ \ {<<u, k>>}]
  /\ UNCHANGED <<change, committed, frontier, told>>

\* A native step fails, or the call is dropped: the rest is left unapplied, and no
\* further lifecycle call is made.
MergeFail ==
  /\ merge.phase = "apply" /\ merge.todo # {}
  /\ merge' = [merge EXCEPT !.phase = "failed"]
  /\ UNCHANGED setVars

\* finalize, under the write lock: prune and advance the frontier.
MergePublish ==
  /\ merge.phase = "apply" /\ merge.todo = {}
  /\ change' = [u \in Txn |-> IF u <= merge.through THEN [k \in Key |-> "same"]
                                                    ELSE change[u]]
  /\ committed' = {u \in committed : u > merge.through}
  /\ frontier' = merge.through
  /\ merge' = NoMerge
  /\ UNCHANGED <<canon, told>>

StoredWrite(t) ==
  /\ Working(t)
  /\ \E k \in Key, c \in {"in", "out"} : WriteBegins(t, k, c) \/ Write(t, k, c)
  /\ UNCHANGED merge

StoredRead(t) ==
  /\ Working(t)
  /\ \E range \in SUBSET Key : Read(t, range)
  /\ UNCHANGED merge

\* Lifecycle calls are serialized.
StoredCommit(t) == merge.phase = "idle" /\ SetCommit(t) /\ UNCHANGED merge
StoredRollback(t) == merge.phase = "idle" /\ SetRollback(t) /\ UNCHANGED merge

Materialize ==
  \/ \E u \in Txn, k \in Key : MergeKey(u, k)
  \/ MergePublish
  \/ MergeFail

StoredNext ==
  \/ \E t \in Txn : \/ StoredWrite(t)
                    \/ StoredRead(t)
                    \/ StoredCommit(t)
                    \/ StoredRollback(t)
                    \/ MergeBegin(t)
  \/ Materialize

StoredSpec == StoredInit /\ [][StoredNext]_storedVars
=============================================================================
