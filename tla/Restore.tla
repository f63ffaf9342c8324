-------------------------------- MODULE Restore --------------------------------
(***************************************************************************)
(* restore_from of a persistent BTree or Table (src/src/btree/file.rs,     *)
(* src/src/table/file.rs): a transaction replaces what it changes in a     *)
(* collection by what turns the collection into another, its source.       *)
(*                                                                         *)
(* The delta is built in a workspace of the call, over many awaits (one of *)
(* a key, or of a delta, is a step), while other transactions are decided  *)
(* and materialized; one locked step puts it in place.  The collection is  *)
(* the StoredSet, so that the copy is taken of storage that a finalize may *)
(* be rewriting, and begins before, within or after it.  The source is any *)
(* other collection: what it shows the transaction is one snapshot, known  *)
(* when it is read.                                                        *)
(***************************************************************************)
EXTENDS StoredSet

VARIABLE work  \* the restoration in flight: its workspace and where it is

restoreVars == <<storedVars, work>>

NoWork == [phase |-> "idle", txn |-> 0, todo |-> {}, layers |-> {},
           inserts |-> {}, deletes |-> {}]

RestoreInit == StoredInit /\ work = NoWork

\* The permit keeps the transaction's other calls away, and the reservation of all
\* keys the later transactions and the writes of earlier ones, until it is decided.
Holds(u) ==
  /\ work.phase # "idle"
  /\ u = work.txn \/ (u > work.txn /\ Open(work.txn))
HoldsWrite(u) == Holds(u) \/ (work.phase # "idle" /\ Open(work.txn))

\* Mutant of CommittedLayers: what a finalize in flight merges counts as stored.
CommittedLayers_Merged(t) ==
  {[txn |-> u, delta |-> change[u]] : u \in {v \in committed : merge.through < v /\ v <= t}}

\* The deltas committed no later than t, as the owner lists them now: also those that
\* a finalize in flight has applied, in part or all.
CommittedLayers(t) ==
  {[txn |-> u, delta |-> change[u]] : u \in {v \in committed : v <= t}}

\* apply_to, on the deletes of the workspace.
ApplyLayer(keys, d) == (keys \cup {k \in Key : d[k] = "in"}) \ {k \in Key : d[k] = "out"}

RestoreBegin(t) ==
  /\ work.phase = "idle"
  /\ Open(t) /\ Working(t) /\ merge.phase # "failed"
  /\ \A k \in Key : Settled(t, k) /\ Undisturbed(t, k)
  /\ work' = [NoWork EXCEPT !.phase = "seed", !.txn = t, !.todo = Key,
                            !.layers = CommittedLayers(t)]
  /\ UNCHANGED storedVars

\* for_restore: what canonical storage holds of k now becomes a delete.
RestoreSeed(k) ==
  /\ work.phase = "seed" /\ k \in work.todo
  /\ work' = [work EXCEPT !.todo = @ \ {k},
                          !.deletes = IF k \in canon THEN @ \cup {k} ELSE @,
                          !.phase = IF work.todo = {k} THEN "apply" ELSE "seed"]
  /\ UNCHANGED storedVars

\* Mutant of RestoreApply: the newest delta is applied first.
RestoreApply_Newest(d) ==
  /\ work.phase = "apply" /\ \A e \in work.layers : d.txn >= e.txn
  /\ work' = [work EXCEPT !.layers = @ \ {d}, !.deletes = ApplyLayer(@, d.delta)]
  /\ UNCHANGED storedVars

\* The committed deltas are applied to the deletes, one after the other.
RestoreApply(d) ==
  /\ work.phase = "apply" /\ \A e \in work.layers : d.txn <= e.txn
  /\ work' = [work EXCEPT !.layers = @ \ {d}, !.deletes = ApplyLayer(@, d.delta)]
  /\ UNCHANGED storedVars

\* Each key that the source shows is inserted, which takes it out of the deletes.
RestoreInsert(shown) ==
  /\ work.phase = "apply" /\ work.layers = {}
  /\ work' = [work EXCEPT !.phase = "install", !.inserts = shown, !.deletes = @ \ shown]
  /\ UNCHANGED storedVars

\* The delta takes the place of the pending one, whatever that held.
RestoreInstall ==
  LET t == work.txn IN
  /\ work.phase = "install"
  /\ Open(t)
  /\ change' = [change EXCEPT ![t] = [k \in Key |-> IF k \in work.inserts THEN "in"
                                                    ELSE IF k \in work.deletes THEN "out"
                                                    ELSE "same"]]
  /\ told' = [told EXCEPT ![t] = [k \in Key |-> IF k \in work.inserts THEN "present"
                                                                      ELSE "absent"]]
  /\ work' = NoWork
  /\ UNCHANGED <<canon, committed, frontier, merge>>

\* assert_writable fails, a native step does, or the call is dropped at an await.
RestoreEnds ==
  /\ work.phase # "idle"
  /\ work' = NoWork
  /\ UNCHANGED storedVars

\* While it restores, a transaction is neither rolled back nor finalized undecided;
\* it may be committed.
Around ==
  /\ \/ \E t \in Txn :
          \/ ~HoldsWrite(t) /\ StoredWrite(t)
          \/ ~Holds(t) /\ StoredRead(t)
          \/ StoredCommit(t)
          \/ work.txn # t /\ StoredRollback(t)
          \/ (Open(work.txn) => t < work.txn) /\ MergeBegin(t)
     \/ Materialize
  /\ UNCHANGED work

RestoreNext ==
  \/ Around
  \/ \E t \in Txn : RestoreBegin(t)
  \/ \E k \in Key : RestoreSeed(k)
  \/ \E d \in work.layers : RestoreApply(d)
  \/ \E shown \in SUBSET Key : RestoreInsert(shown)
  \/ RestoreInstall
  \/ RestoreEnds

RestoreSpec == RestoreInit /\ [][RestoreNext]_restoreVars
=============================================================================
