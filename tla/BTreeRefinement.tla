--------------------------- MODULE BTreeRefinement ---------------------------
(***************************************************************************)
(* The BTree, whose operations take many interleaved steps, implements two *)
(* specifications whose reads and writes are atomic.                       *)
(*                                                                         *)
(* TransactionalSet: finalize takes effect when it begins; what it has     *)
(* still to apply counts as applied, and what it has to prune as pruned.   *)
(*                                                                         *)
(* StoredSet: canonical contents are what storage holds, and the deltas    *)
(* are listed until they are pruned.                                       *)
(***************************************************************************)
EXTENDS BTree

\* The transaction through which finalize has taken effect.
FrontierBar ==
  IF life.call = "finalize" /\ life.phase \in {"apply", "failed"} THEN life.txn
                                                                  ELSE finalized

\* Canonical storage once every key operation in todo has been applied.
CanonBar ==
  LET on(k) == {s \in todo : s.key = k}
  IN  {k \in Key : \/ on(k) = {} /\ k \in persistent
                   \/ \E s \in on(k) : /\ \A r \in on(k) : ~AppliedBefore(s, r)
                                       /\ s.kind = "insert"}

DeltaBar(d) == [k \in Key |-> IF k \in d.inserts THEN "in"
                              ELSE IF k \in d.deletes THEN "out" ELSE "same"]

ChangeBar ==
  [t \in Txn |-> IF t <= FrontierBar THEN [k \in Key |-> "same"]
                 ELSE IF pending[t] # Absent THEN DeltaBar(pending[t])
                 ELSE IF HasDelta(t) THEN DeltaBar(committed[t])
                 ELSE [k \in Key |-> "same"]]

CommittedBar == {t \in Txn : t > FrontierBar /\ committed[t] # Absent}

Abstract == INSTANCE TransactionalSet
              WITH canon <- CanonBar, change <- ChangeBar,
                   committed <- CommittedBar, frontier <- FrontierBar

\* Every behaviour of the BTree is one of the atomic multi-version set: reads
\* that take many steps, writes that await half-way, and a finalize that
\* rewrites canonical storage in place have the effect of single steps.
ImplementsTransactionalSet == Abstract!SetSpec

-----------------------------------------------------------------------------
\* What each transaction changes by the deltas that are listed.
ListedChange ==
  [t \in Txn |-> IF pending[t] # Absent THEN DeltaBar(pending[t])
                 ELSE IF HasDelta(t) THEN DeltaBar(committed[t])
                 ELSE [k \in Key |-> "same"]]

ListedCommitted == {t \in Txn : committed[t] # Absent}

MergeBar ==
  IF life.call = "finalize" /\ life.phase \in {"apply", "failed"}
    THEN [phase |-> life.phase, through |-> life.txn,
          todo |-> {<<s.txn, s.key>> : s \in todo}]
    ELSE [phase |-> "idle", through |-> 0, todo |-> {}]

Stored == INSTANCE StoredSet
            WITH canon <- persistent, change <- ListedChange,
                 committed <- ListedCommitted, frontier <- finalized, merge <- MergeBar

\* What whoever looks at canonical storage and at the listed deltas may meet: storage
\* is rewritten delta by delta and key by key, each change that is being merged is
\* listed until all are in storage, and reads and writes have the effect of single
\* steps meanwhile.
ImplementsStoredSet == Stored!StoredSpec
=============================================================================
