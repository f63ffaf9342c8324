-------------------------------- MODULE BTree --------------------------------
(***************************************************************************)
(* The transactional BTree of src/src/btree/file.rs over the shared owner: *)
(* concurrent reads and writes, each a sequence of steps between awaits    *)
(* and locks, the lifecycle calls, and the caller's part of the contract   *)
(* (src/TRANSACTIONAL_COLLECTION_CONTRACT.md, "Lifecycle").                *)
(*                                                                         *)
(* An Op is a slot that runs one call at a time and is used again.         *)
(***************************************************************************)
EXTENDS CollectionOwner

CONSTANTS Op,        \* concurrent calls
          ReadKinds, \* the whole-collection reads that are made
          LateWork   \* whether callers still read and write in a
                     \* transaction after they have closed it

ASSUME OpAssumption == /\ ReadKinds \subseteq {"scan", "isEmpty"}
                       /\ LateWork \in BOOLEAN

VARIABLES pc,      \* where each call is
          req,     \* its kind, transaction and key range
          snap,    \* the snapshot a read has taken
          unread,  \* keys a read has still to look up in canonical storage
          found,   \* keys a read has found in canonical storage
          told,    \* history: what each transaction was last told of each key
          closed   \* transactions in which the caller has stopped new work

opVars == <<pc, req, snap, unread, found>>
vars == <<semVars, ownerVars, opVars, told, closed>>

WriteKinds == {"insert", "delete"}
NoReq == [kind |-> "none", txn |-> 0, range |-> {}]

\* Program counters under a write permit, and under a read permit.
WriteHeld == {"lookup", "create", "first", "second"}
ReadHeld == {"snapshot", "reading"}

Answer == {"unknown", "present", "absent"}

TypeOK ==
  /\ SemTypeOK
  /\ OwnerTypeOK
  /\ pc \in [Op -> {"idle", "waiting"} \cup ReadHeld \cup WriteHeld]
  /\ req \in [Op -> [kind : {"none", "contains"} \cup WriteKinds \cup ReadKinds,
                     txn : Txn \cup {0}, range : SUBSET Key]]
  /\ snap \in [Op -> Snapshot \cup {Absent}]
  /\ unread \in [Op -> SUBSET Key]
  /\ found \in [Op -> SUBSET Key]
  /\ told \in [Txn -> [Key -> Answer]]
  /\ closed \subseteq Txn

Init ==
  /\ SemInit
  /\ OwnerInit
  /\ pc = [o \in Op |-> "idle"]
  /\ req = [o \in Op |-> NoReq]
  /\ snap = [o \in Op |-> Absent]
  /\ unread = [o \in Op |-> {}]
  /\ found = [o \in Op |-> {}]
  /\ told = [t \in Txn |-> [k \in Key |-> "unknown"]]
  /\ closed = {}

-----------------------------------------------------------------------------
(* Permits and the caller's obligations.                                   *)

HeldFor(t, states) == UNION {req[o].range : o \in {p \in Op : /\ pc[p] \in states
                                                              /\ req[p].txn = t
                                                              /\ req[p].kind # "isEmpty"}}

\* The transactions up to which, or in which, a lifecycle call is running.
UnderDecision(t) ==
  /\ life.phase # "idle"
  /\ IF life.call = "finalize" THEN t <= life.txn ELSE t = life.txn

\* Callers keep new work out of a transaction while it is being decided.
MayStart(t) ==
  /\ life.phase # "failed"
  /\ ~UnderDecision(t)
  /\ t \in closed => LateWork

\* The operations of t are finished or cancelled, and its streams released.
Quiet(t) == t \in closed /\ \A o \in Op : req[o].txn # t

\* What a call leaves behind in its slot when it returns or is dropped.
Finish(o) ==
  /\ pc' = [pc EXCEPT ![o] = "idle"]
  /\ req' = [req EXCEPT ![o] = NoReq]
  /\ snap' = [snap EXCEPT ![o] = Absent]
  /\ unread' = [unread EXCEPT ![o] = {}]
  /\ found' = [found EXCEPT ![o] = {}]

Goto(o, place) ==
  /\ pc' = [pc EXCEPT ![o] = place]
  /\ UNCHANGED <<req, snap, unread, found>>

Undecided(t) == t > finalized /\ committed[t] = Absent

TheKey(o) == CHOOSE k \in Key : req[o].range = {k}

-----------------------------------------------------------------------------
(* insert_row and delete_row.                                              *)

\* try_write of the key; when the semaphore refuses, the call returns its error.
WriteReserve(o, kind, t, k) ==
  /\ pc[o] = "idle"
  /\ MayStart(t)
  /\ CanWrite(t, {k}, HeldFor(t, ReadHeld \cup WriteHeld))
  /\ ReserveWrite(t, {k})
  /\ pc' = [pc EXCEPT ![o] = "lookup"]
  /\ req' = [req EXCEPT ![o] = [kind |-> kind, txn |-> t, range |-> {k}]]
  /\ UNCHANGED <<ownerVars, snap, unread, found, told, closed>>

\* assert_writable fails: the error drops the permit but not the reservation.
WriteReject(o) ==
  /\ pc[o] \in {"lookup", "create"}
  /\ ~AssertWritable(req[o].txn)
  /\ Finish(o)
  /\ UNCHANGED <<semVars, ownerVars, told, closed>>

\* pending_delta_for_txn, first locked region.
PendingLookup(o) ==
  /\ pc[o] = "lookup"
  /\ AssertWritable(req[o].txn)
  /\ Goto(o, IF pending[req[o].txn] = Absent THEN "create" ELSE "first")
  /\ UNCHANGED <<semVars, ownerVars, told, closed>>

\* Mutant of PendingInstall: the new delta is installed without a second look.
PendingInstall_Overwrites(o) ==
  LET t == req[o].txn IN
  /\ pc[o] = "create"
  /\ AssertWritable(t)
  /\ pending' = [pending EXCEPT ![t] = EmptyDelta]
  /\ Goto(o, "first")
  /\ UNCHANGED <<semVars, persistent, committed, finalized, life, todo, told, closed>>

\* pending_delta_for_txn, second locked region, after the new delta's storage
\* has been created: a delta installed meanwhile is kept.
PendingInstall(o) ==
  LET t == req[o].txn IN
  /\ pc[o] = "create"
  /\ AssertWritable(t)
  /\ pending' = IF pending[t] = Absent THEN [pending EXCEPT ![t] = EmptyDelta]
                                       ELSE pending
  /\ Goto(o, "first")
  /\ UNCHANGED <<semVars, persistent, committed, finalized, life, todo, told, closed>>

\* The delta after the first and after the second await of the call.
FirstStep(o, d) == IF req[o].kind = "insert" THEN InsertFirst(d, TheKey(o))
                                             ELSE DeleteFirst(d, TheKey(o))
SecondStep(o, d) == IF req[o].kind = "insert" THEN InsertSecond(d, TheKey(o))
                                              ELSE DeleteSecond(d, TheKey(o))

\* Until the call returns, its transaction has no promise about the key.
WriteFirst(o) ==
  LET t == req[o].txn IN
  /\ pc[o] = "first"
  /\ pending' = [pending EXCEPT ![t] = FirstStep(o, @)]
  /\ told' = [told EXCEPT ![t][TheKey(o)] = "unknown"]
  /\ Goto(o, "second")
  /\ UNCHANGED <<semVars, persistent, committed, finalized, life, todo, closed>>

\* The last native step, after which the call drops its permit and returns Ok.
WriteSecond(o) ==
  LET t == req[o].txn IN
  /\ pc[o] = "second"
  /\ pending' = [pending EXCEPT ![t] = SecondStep(o, @)]
  /\ told' = [told EXCEPT ![t][TheKey(o)] =
                IF req[o].kind = "insert" THEN "present" ELSE "absent"]
  /\ Finish(o)
  /\ UNCHANGED <<semVars, persistent, committed, finalized, life, todo, closed>>

-----------------------------------------------------------------------------
(* contains_row, the ordered scans (keys, for_each_row_in_order, count),   *)
(* and is_empty.                                                           *)

\* Mutant of ReadStart: no read takes a permit.
ReadStart_NoPermit(o, kind, t, range) ==
  /\ pc[o] = "idle"
  /\ MayStart(t)
  /\ pc' = [pc EXCEPT ![o] = "snapshot"]
  /\ req' = [req EXCEPT ![o] = [kind |-> kind, txn |-> t, range |-> range]]
  /\ UNCHANGED <<semVars, ownerVars, snap, unread, found, told, closed>>

\* is_empty takes no permit: it goes straight to its snapshot.
ReadStart(o, kind, t, range) ==
  /\ pc[o] = "idle"
  /\ MayStart(t)
  /\ pc' = [pc EXCEPT ![o] = IF kind = "isEmpty" THEN "snapshot" ELSE "waiting"]
  /\ req' = [req EXCEPT ![o] = [kind |-> kind, txn |-> t, range |-> range]]
  /\ UNCHANGED <<semVars, ownerVars, snap, unread, found, told, closed>>

\* acquire_read_permit.
ReadAcquire(o) ==
  LET t == req[o].txn IN
  /\ pc[o] = "waiting"
  /\ CanRead(t, req[o].range, HeldFor(t, WriteHeld))
  /\ ReserveRead(t, req[o].range)
  /\ Goto(o, "snapshot")
  /\ UNCHANGED <<ownerVars, told, closed>>

ReadSnapshot(o) ==
  /\ pc[o] = "snapshot"
  /\ snap' = [snap EXCEPT ![o] = VisibleSnapshot(req[o].txn)]
  /\ unread' = [unread EXCEPT ![o] = req[o].range]
  /\ pc' = [pc EXCEPT ![o] = "reading"]
  /\ UNCHANGED <<semVars, ownerVars, req, found, told, closed>>

\* Look one key up in canonical storage.
ReadKey(o, k) ==
  /\ pc[o] = "reading"
  /\ k \in unread[o]
  /\ unread' = [unread EXCEPT ![o] = @ \ {k}]
  /\ found' = [found EXCEPT ![o] = @ \cup ({k} \cap persistent)]
  /\ UNCHANGED <<semVars, ownerVars, pc, req, snap, told, closed>>

\* The rows the read returns.
Result(o) == {k \in req[o].range : Visible(snap[o], k, k \in found[o])}

\* The answer, which is a promise to a transaction that is still undecided.
ReadReturn(o) ==
  LET t == req[o].txn IN
  /\ pc[o] = "reading"
  /\ unread[o] = {}
  /\ told' = IF Undecided(t) /\ req[o].kind # "isEmpty"
               THEN [told EXCEPT ![t] = [k \in Key |->
                       IF k \notin req[o].range THEN @[k]
                       ELSE IF k \in Result(o) THEN "present" ELSE "absent"]]
               ELSE told
  /\ Finish(o)
  /\ UNCHANGED <<semVars, ownerVars, closed>>

\* A call is dropped at an await, or its native step fails: permits go, nothing
\* is undone.
Abandon(o) ==
  /\ pc[o] \notin {"idle", "lookup"}
  /\ Finish(o)
  /\ UNCHANGED <<semVars, ownerVars, told, closed>>

-----------------------------------------------------------------------------
(* The caller and its lifecycle calls.                                     *)

CloseTxn(t) ==
  /\ t \notin closed
  /\ closed' = closed \cup {t}
  /\ UNCHANGED <<semVars, ownerVars, opVars, told>>

Forget(S) == [t \in Txn |-> IF t \in S THEN [k \in Key |-> "unknown"] ELSE told[t]]

Commit(t) ==
  /\ Quiet(t)
  /\ CommitDecide(t)
  /\ told' = Forget({t})
  /\ UNCHANGED <<opVars, closed>>

CommitAgain(t) ==
  /\ Quiet(t)
  /\ CommitDuplicate(t)
  /\ UNCHANGED <<opVars, told, closed>>

Rollback(t) ==
  /\ Quiet(t)
  /\ RollbackDecide(t)
  /\ told' = Forget({t})
  /\ UNCHANGED <<opVars, closed>>

Finalize(t) ==
  /\ \A u \in Txn : u <= t => Quiet(u)
  /\ FinalizeBegin(t)
  /\ told' = Forget({u \in Txn : u <= t})
  /\ UNCHANGED <<opVars, closed>>

FinalizeNoop(t) ==
  /\ \A u \in Txn : u <= t => Quiet(u)
  /\ FinalizeStale(t)
  /\ UNCHANGED <<opVars, told, closed>>

LifeStep ==
  /\ \/ \E s \in todo : ApplyKey(s)
     \/ FinalizePublish
     \/ LifeRelease
     \/ LifeReturn
  /\ UNCHANGED <<opVars, told, closed>>

LifeFail == FinalizeFail /\ UNCHANGED <<opVars, told, closed>>

-----------------------------------------------------------------------------
WriteNext(o) ==
  \/ WriteReject(o)
  \/ PendingLookup(o)
  \/ PendingInstall(o)
  \/ WriteFirst(o)
  \/ WriteSecond(o)

ReadNext(o) ==
  \/ ReadAcquire(o)
  \/ ReadSnapshot(o)
  \/ \E k \in Key : ReadKey(o, k)
  \/ ReadReturn(o)

Start(o, t) ==
  \/ \E kind \in WriteKinds, k \in Key : WriteReserve(o, kind, t, k)
  \/ \E k \in Key : ReadStart(o, "contains", t, {k})
  \/ \E kind \in ReadKinds : ReadStart(o, kind, t, Key)

Decide(t) == Commit(t) \/ Rollback(t)

Next ==
  \/ \E o \in Op : \/ \E t \in Txn : Start(o, t)
                   \/ WriteNext(o)
                   \/ ReadNext(o)
                   \/ Abandon(o)
  \/ \E t \in Txn : \/ CloseTxn(t)
                    \/ Decide(t)
                    \/ CommitAgain(t)
                    \/ Finalize(t)
                    \/ FinalizeNoop(t)
  \/ LifeStep
  \/ LifeFail

Spec == Init /\ [][Next]_vars

\* Tasks are polled, a started lifecycle call is driven on, and the caller
\* closes every transaction and gets round to deciding it.
Fairness ==
  /\ \A o \in Op : WF_vars(WriteNext(o)) /\ WF_vars(ReadNext(o))
  /\ \A t \in Txn : WF_vars(CloseTxn(t)) /\ SF_vars(Decide(t))
  /\ WF_vars(LifeStep)

FairSpec == Spec /\ Fairness
-----------------------------------------------------------------------------
(* Safety.                                                                 *)

\* No delta both inserts and deletes a key.  Visibility lets inserts win
\* (is_row_visible) and materialization lets deletes win (apply_to), so a key in
\* both would be read one way before finalize and another way after it.
DeltaDisjoint ==
  \A t \in Txn :
    /\ pending[t] # Absent => pending[t].inserts \cap pending[t].deletes = {}
    /\ HasDelta(t) => committed[t].inserts \cap committed[t].deletes = {}

\* What an undecided transaction was last told of a key, by the answer of a read
\* or by the success of its own write, is what it would read now: own writes are
\* not lost, reads repeat, and no commit or finalize of another transaction
\* changes an answer (the snapshot of the contract, "Visibility and ordering").
TellsTruth ==
  \A t \in Txn, k \in Key :
    told[t][k] # "unknown" => (told[t][k] = "present" <=> k \in View(t))

\* A scan reads canonical storage key by key while finalize rewrites it, and
\* still composes the answer that one atomic read would give.
ScanIsAtomic ==
  \A o \in Op :
    pc[o] = "reading" /\ req[o].kind # "isEmpty" =>
      \A k \in req[o].range \ unread[o] :
        Visible(snap[o], k, k \in found[o]) <=> k \in View(req[o].txn)

\* "An earlier overlapping pending mutation must be resolved before a later
\* conflicting access proceeds": no read works on a snapshot while an earlier
\* transaction has a pending change in its range.
NoReadPastPending ==
  \A o \in Op, u \in Txn :
    pc[o] = "reading" /\ u < req[o].txn /\ pending[u] # Absent =>
      \A k \in req[o].range : ~Mentions(pending[u], k)

\* When commit or rollback returns Ok, its transaction has no reservation left.
DecisionReleases ==
  life.phase = "ok" /\ life.call \in {"commit", "rollback"} =>
    reads[life.txn] = {} /\ writes[life.txn] = {}

\* The part of DecisionReleases that concerns reads.  A transaction that is still
\* read after its commit, as the tests do, has a reservation again, and a
\* duplicate commit does not release it.
DecisionReleasesReads ==
  life.phase = "ok" /\ life.call \in {"commit", "rollback"} => reads[life.txn] = {}

\* Through the frontier nothing but canonical storage is left, so the workspace
\* of every transaction it covers can be removed.
FrontierIsPruned ==
  \A t \in Txn : t <= finalized => pending[t] = Absent /\ committed[t] = Absent

-----------------------------------------------------------------------------
(* The inductive strengthening of DeltaDisjoint.                           *)

Writing(o) == pc[o] \in WriteHeld

\* A call in progress has a transaction.
Started == \A o \in Op : pc[o] # "idle" => req[o].txn \in Txn

\* A write in progress holds one key of its transaction, which no other write of
\* that transaction holds.
WritePermits ==
  /\ \A o \in Op : Writing(o) => /\ req[o].kind \in WriteKinds
                                /\ \E k \in Key : req[o].range = {k}
  /\ \A o, p \in Op : Writing(o) /\ Writing(p) /\ req[o].txn = req[p].txn =>
       o = p \/ req[o].range \cap req[p].range = {}

\* The delta that a write has looked up stays installed while it writes to it.
DeltaInPlace ==
  \A o \in Op : pc[o] \in {"first", "second"} => pending[req[o].txn] # Absent

\* Between the two awaits of a write its key is off the side it is leaving.
HalfWritten ==
  \A o \in Op : pc[o] = "second" =>
    req[o].range \cap (IF req[o].kind = "insert" THEN pending[req[o].txn].deletes
                                                 ELSE pending[req[o].txn].inserts) = {}

\* While finalize runs, calls run only in transactions beyond its cutoff.
FinalizeAlone ==
  /\ life.phase = "idle" => life.call = "none"
  /\ life.phase = "apply" => life.call = "finalize"
  /\ life.call = "finalize" =>
       \A o \in Op : req[o].txn # 0 => req[o].txn > life.txn

BTreeInv ==
  /\ TypeOK
  /\ Started
  /\ WritePermits
  /\ DeltaInPlace
  /\ HalfWritten
  /\ FinalizeAlone
  /\ DeltaDisjoint

-----------------------------------------------------------------------------
(* What a step may never do.                                               *)

\* The keys visible to a transaction above the frontier change only by its own
\* pending delta, or by the commit of an earlier transaction at a key which it
\* has neither read nor written.  Applying, pruning and releasing change nothing.
ViewMoves ==
  \A t \in Txn, k \in Key :
    (t > finalized' /\ ~(life'.call = "finalize" /\ t <= life'.txn)
       /\ (k \in View(t)) # (k \in View(t))') =>
      \/ pending'[t] # pending[t]
      \/ /\ \E u \in Txn : u < t /\ committed[u] = Absent /\ committed'[u] # Absent
         /\ k \notin reads[t] \cup writes[t]

ViewMovesOnlyByCommit == [][ViewMoves]_vars

\* A decision is final: what was committed stays as it was until the frontier,
\* which never goes back, has passed it.
DecisionIsFinal ==
  [][/\ finalized' >= finalized
     /\ \A t \in Txn : committed[t] # Absent /\ committed'[t] # committed[t]
                         => finalized' >= t]_vars

-----------------------------------------------------------------------------
(* Liveness.                                                               *)

\* A read that waits for an earlier transaction is not left waiting, unless a
\* failed finalize has stopped the collection.
BlockedReadsProceed ==
  \A o \in Op : pc[o] = "waiting" ~> (pc[o] # "waiting" \/ life.phase = "failed")
=============================================================================
