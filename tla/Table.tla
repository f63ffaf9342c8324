-------------------------------- MODULE Table --------------------------------
(***************************************************************************)
(* The transactional Table of src/src/table/file.rs: row writes of several *)
(* awaits, bulk update and truncate of a range, reads, and the lifecycle.  *)
(*                                                                         *)
(* The owner is the one that BTree has; BTreeRefinement shows that its     *)
(* lifecycle calls have the effect of single steps, and so they are single *)
(* steps here.  Callers decide a transaction when no call of it is left.   *)
(***************************************************************************)
EXTENDS TableDelta

CONSTANTS Op,       \* concurrent calls
          Ranges,   \* sets of rows: the ranges of update and truncate
          Absent,   \* no entry in a map
          NoDelta   \* a committed entry without a delta

ASSUME TableAssumption == /\ Ranges \subseteq SUBSET Row
                          /\ Absent \notin Delta /\ NoDelta \notin Delta
                          /\ Absent # NoDelta

VARIABLES persistent, committed, pending, finalized,  \* the State of the owner
          pc,    \* where each call is
          req,   \* its kind, transaction, rows and value
          left,  \* rows a call has still to write
          was,   \* history: what its transaction read when a call reserved
          told   \* history: what each transaction was last told of each key

tableVars == <<persistent, committed, pending, finalized>>
vars == <<semVars, tableVars, pc, req, left, was, told>>

Unknown == "unknown"
Puts == {"upsert", "insert", "update"}
NoReq == [kind |-> "none", txn |-> 0, range |-> {}, val |-> NoRow]

HasDelta(u) == committed[u] \notin {Absent, NoDelta}
Open(t) == t > finalized /\ committed[t] = Absent

\* A loop over the committed deltas of a snapshot, those no later than t in their
\* order: what Over makes of base.
ThroughCommitted(Over(_, _), base, t) ==
  LET upTo[n \in Nat] ==
        IF n = 0 THEN base
        ELSE IF n \in Txn /\ HasDelta(n) THEN Over(upTo[n - 1], committed[n])
        ELSE upTo[n - 1]
  IN  upTo[t]

\* resolve_row over visible_snapshot, whose last layer is the transaction's own.
Beneath(t) == ThroughCommitted(ResolveThrough, persistent, t)
View(t) == IF pending[t] = Absent THEN Beneath(t) ELSE ResolveThrough(Beneath(t), pending[t])

\* rows, for_each_visible_row_until, and the streams of update and truncate.
RangeRead(t, range) ==
  LET Merge(rows, d) == MergeInto(rows, d, range)
      below == ThroughCommitted(Merge, RowsIn(persistent, range), t)
  IN  IF pending[t] = Absent THEN below ELSE Merge(below, pending[t])

\* What finalize makes of canonical storage.
Materialized(t) == ThroughCommitted(ApplyTo, persistent, t)

TypeOK ==
  /\ SemTypeOK
  /\ persistent \in Native
  /\ committed \in [Txn -> Delta \cup {Absent, NoDelta}]
  /\ pending \in [Txn -> Delta \cup {Absent}]
  /\ finalized \in Txn \cup {0}
  /\ pc \in [Op -> {"idle", "check", "lookup", "create", "look",
                    "leaveDeletes", "leaveInserts", "join"}]
  /\ req \in [Op -> [kind : Puts \cup {"none", "delete", "truncate"}, txn : Txn \cup {0},
                     range : SUBSET Row, val : Val \cup {NoRow}]]
  /\ left \in [Op -> SUBSET Row]
  /\ was \in [Op -> Native]
  /\ told \in [Txn -> [Key -> Val \cup {NoRow, Unknown}]]

Init ==
  /\ SemInit
  /\ persistent \in Native
  /\ committed = [t \in Txn |-> Absent]
  /\ pending = [t \in Txn |-> Absent]
  /\ finalized = 0
  /\ pc = [o \in Op |-> "idle"]
  /\ req = [o \in Op |-> NoReq]
  /\ left = [o \in Op |-> {}]
  /\ was = [o \in Op |-> NoRows]
  /\ told = [t \in Txn |-> [k \in Key |-> Unknown]]

-----------------------------------------------------------------------------
(* What a call is to do.                                                   *)

RowsOf(k) == {r \in Row : r.key = k}

\* One key is reserved for a row, every key for a range.
Reserved(o) == IF req[o].kind \in {"update", "truncate"} THEN Key
                                                         ELSE {r.key : r \in req[o].range}

\* The value that the call is to leave at k, if its transaction reads v there.
Goal(o, k, v) ==
  IF \/ req[o].kind \in {"upsert", "insert", "delete"} /\ k \in Reserved(o)
     \/ [key |-> k, val |-> v] \in req[o].range
    THEN req[o].val
    ELSE v

\* Mutant of HeldFor: the permit is dropped where it is made, not where the call
\* returns.
HeldFor_Dropped(t) == {}

\* What permits of calls in flight cover.
HeldFor(t) == UNION {Reserved(o) : o \in {p \in Op : req[p].txn = t}}

Finish(o) ==
  /\ pc' = [pc EXCEPT ![o] = "idle"]
  /\ req' = [req EXCEPT ![o] = NoReq]
  /\ left' = [left EXCEPT ![o] = {}]
  /\ was' = [was EXCEPT ![o] = NoRows]

\* The call returns Ok: what it was to do is done.
Acknowledge(o) ==
  /\ Finish(o)
  /\ told' = [told EXCEPT ![req[o].txn] =
       [k \in Key |-> IF k \in Reserved(o) THEN Goal(o, k, was[o][k]) ELSE @[k]]]

Goto(o, place) ==
  /\ pc' = [pc EXCEPT ![o] = place]
  /\ UNCHANGED <<req, was>>

\* Where the writing of a row begins: upsert leaves the deletes first.
FirstPlace(o) == IF req[o].kind \in Puts THEN "leaveDeletes" ELSE "leaveInserts"

\* try_write, before anything else the call does with the table.
Reserve(o, kind, t, range, val) ==
  LET keys == IF kind \in {"update", "truncate"} THEN Key ELSE {r.key : r \in range}
  IN  /\ pc[o] = "idle"
      /\ CanWrite(t, keys, HeldFor(t))
      /\ ReserveWrite(t, keys)
      /\ pc' = [pc EXCEPT ![o] = IF kind = "insert" THEN "check" ELSE "lookup"]
      /\ req' = [req EXCEPT ![o] = [kind |-> kind, txn |-> t, range |-> range, val |-> val]]
      /\ left' = [left EXCEPT ![o] = IF kind \in {"upsert", "insert"}
                                       THEN {r \in range : r.val = val} ELSE {}]
      /\ was' = [was EXCEPT ![o] = View(t)]
      /\ UNCHANGED <<tableVars, told>>

StartWrite(o, t) ==
  \/ \E kind \in {"upsert", "insert"}, r \in Row : Reserve(o, kind, t, RowsOf(r.key), r.val)
  \/ \E k \in Key : Reserve(o, "delete", t, RowsOf(k), NoRow)
  \/ \E range \in Ranges, v \in Val : Reserve(o, "update", t, range, v)
  \/ \E range \in Ranges : Reserve(o, "truncate", t, range, NoRow)

-----------------------------------------------------------------------------
(* The steps of a write.                                                   *)

\* insert_row: the key must have no visible row.
InsertCheck(o) ==
  /\ pc[o] = "check"
  /\ \A r \in left[o] : View(req[o].txn)[r.key] = NoRow
  /\ Goto(o, "lookup")
  /\ UNCHANGED <<semVars, tableVars, left, told>>

\* insert_row finds a row, or assert_writable fails: the call returns an error.
WriteReject(o) ==
  /\ \/ pc[o] = "check" /\ \E r \in left[o] : View(req[o].txn)[r.key] # NoRow
     \/ pc[o] \in {"lookup", "create"} /\ ~Open(req[o].txn)
  /\ Finish(o)
  /\ UNCHANGED <<semVars, tableVars, told>>

\* After pending_delta_for_txn a row write knows its row; the others look first.
AfterLookup(o) == IF req[o].kind \in {"upsert", "insert"} THEN FirstPlace(o) ELSE "look"

\* pending_delta_for_txn, first locked region.
PendingLookup(o) ==
  /\ pc[o] = "lookup"
  /\ Open(req[o].txn)
  /\ Goto(o, IF pending[req[o].txn] = Absent THEN "create" ELSE AfterLookup(o))
  /\ UNCHANGED <<semVars, tableVars, left, told>>

\* Mutant of PendingInstall: the new delta is installed without a second look.
PendingInstall_Overwrites(o) ==
  LET t == req[o].txn IN
  /\ pc[o] = "create"
  /\ Open(t)
  /\ pending' = [pending EXCEPT ![t] = EmptyDelta]
  /\ Goto(o, AfterLookup(o))
  /\ UNCHANGED <<semVars, persistent, committed, finalized, left, told>>

\* pending_delta_for_txn, second locked region.
PendingInstall(o) ==
  LET t == req[o].txn IN
  /\ pc[o] = "create"
  /\ Open(t)
  /\ pending' = IF pending[t] = Absent THEN [pending EXCEPT ![t] = EmptyDelta]
                                       ELSE pending
  /\ Goto(o, AfterLookup(o))
  /\ UNCHANGED <<semVars, persistent, committed, finalized, left, told>>

\* Mutant of LookDelete: a row is deleted although nobody sees one.
LookDelete_Unseen(o) ==
  LET t == req[o].txn
      k == CHOOSE k \in Key : k \in Reserved(o)
  IN  /\ pc[o] = "look" /\ req[o].kind = "delete"
      /\ left' = [left EXCEPT ![o] = {[key |-> k, val |-> View(t)[k]]}]
      /\ Goto(o, "leaveInserts")
      /\ UNCHANGED <<semVars, tableVars, told>>

\* delete_row: a row that is deleted already needs nothing; else it is the
\* inserted row, or the visible one.
LookDelete(o) ==
  LET t == req[o].txn
      k == CHOOSE k \in Key : k \in Reserved(o)
  IN  /\ pc[o] = "look" /\ req[o].kind = "delete"
      /\ IF pending[t].deletes[k] # NoRow
           THEN Acknowledge(o)
           ELSE /\ left' = [left EXCEPT ![o] = {r \in RowsOf(k) : r.val = View(t)[k]}]
                /\ Goto(o, "leaveInserts")
                /\ UNCHANGED told
      /\ UNCHANGED <<semVars, tableVars>>

\* update and truncate: the rows to write are read through the layers.
LookRange(o) ==
  LET t == req[o].txn
      rows == RangeRead(t, req[o].range)
  IN  /\ pc[o] = "look" /\ req[o].kind \in {"update", "truncate"}
      /\ IF rows = {}
           THEN Acknowledge(o)
           ELSE /\ left' = [left EXCEPT ![o] =
                     IF req[o].kind = "truncate" THEN rows
                     ELSE {[r EXCEPT !.val = req[o].val] : r \in rows}]
                /\ Goto(o, FirstPlace(o))
                /\ UNCHANGED told
      /\ UNCHANGED <<semVars, tableVars>>

\* The key that the call works on now.  Bulk writes go by the order of keys, for
\* which CHOOSE stands; the model does not depend on what the order is.
Current(o) == IF left[o] # {} THEN (CHOOSE r \in left[o] : TRUE).key
                              ELSE CHOOSE k \in Key : k \in Reserved(o)

\* From its first native step until it returns, the call leaves its transaction
\* no promise about the keys it writes.
Forgotten(o) == [told EXCEPT ![req[o].txn] =
                   [k \in Key |-> IF k \in Reserved(o) THEN Unknown ELSE @[k]]]

LeaveDeletesStep(o) ==
  LET t == req[o].txn IN
  /\ pc[o] = "leaveDeletes"
  /\ pending' = [pending EXCEPT ![t] = LeaveDeletes(@, Current(o))]
  /\ told' = Forgotten(o)
  /\ Goto(o, "leaveInserts")
  /\ UNCHANGED <<semVars, persistent, committed, finalized, left>>

\* A delete of a row that nobody sees ends here.
LeaveInsertsStep(o) ==
  LET t == req[o].txn IN
  /\ pc[o] = "leaveInserts"
  /\ pending' = [pending EXCEPT ![t] = LeaveInserts(@, Current(o))]
  /\ IF left[o] = {} THEN Acknowledge(o)
                     ELSE told' = Forgotten(o) /\ Goto(o, "join") /\ UNCHANGED left
  /\ UNCHANGED <<semVars, persistent, committed, finalized>>

\* The last native step of a row; then the next row, or Ok.
JoinStep(o) ==
  LET t == req[o].txn
      r == CHOOSE r \in left[o] : r.key = Current(o)
  IN  /\ pc[o] = "join"
      /\ pending' = [pending EXCEPT ![t] = IF req[o].kind \in Puts THEN JoinInserts(@, r)
                                                                   ELSE JoinDeletes(@, r)]
      /\ IF left[o] = {r}
           THEN Acknowledge(o)
           ELSE /\ left' = [left EXCEPT ![o] = @ \ {r}]
                /\ Goto(o, FirstPlace(o))
                /\ UNCHANGED told
      /\ UNCHANGED <<semVars, persistent, committed, finalized>>

\* A call is dropped at an await, or a native step fails: nothing is undone.
Abandon(o) ==
  /\ pc[o] \notin {"idle", "lookup"}
  /\ Finish(o)
  /\ UNCHANGED <<semVars, tableVars, told>>

-----------------------------------------------------------------------------
(* Reads and the lifecycle.                                                *)

\* read_row and contains_row.
ReadRow(t, k) ==
  /\ CanRead(t, {k}, HeldFor(t))
  /\ ReserveRead(t, {k})
  /\ told' = IF Open(t) THEN [told EXCEPT ![t][k] = View(t)[k]] ELSE told
  /\ UNCHANGED <<tableVars, pc, req, left, was>>

\* rows, for_each_row_in_order and count, over the whole table.
ReadAll(t) ==
  LET rows == RangeRead(t, Row)
  IN  /\ CanRead(t, Key, HeldFor(t))
      /\ ReserveRead(t, Key)
      /\ told' = IF Open(t)
                   THEN [told EXCEPT ![t] = [k \in Key |->
                          IF rows \cap RowsOf(k) = {} THEN NoRow
                          ELSE (CHOOSE r \in rows : r.key = k).val]]
                   ELSE told
      /\ UNCHANGED <<tableVars, pc, req, left, was>>

Quiet(t) == \A o \in Op : req[o].txn # t
Forget(S) == [t \in Txn |-> IF t \in S THEN [k \in Key |-> Unknown] ELSE told[t]]

Commit(t) ==
  /\ Quiet(t)
  /\ Open(t)
  /\ committed' = [committed EXCEPT ![t] = IF pending[t] = Absent THEN NoDelta
                                                                  ELSE pending[t]]
  /\ pending' = [pending EXCEPT ![t] = Absent]
  /\ told' = Forget({t})
  /\ SemRelease(t)
  /\ UNCHANGED <<persistent, finalized, pc, req, left, was>>

Rollback(t) ==
  /\ Quiet(t)
  /\ Open(t)
  /\ pending' = [pending EXCEPT ![t] = Absent]
  /\ told' = Forget({t})
  /\ SemRelease(t)
  /\ UNCHANGED <<persistent, committed, finalized, pc, req, left, was>>

Finalize(t) ==
  /\ \A u \in Txn : u <= t => Quiet(u)
  /\ t > finalized
  /\ persistent' = Materialized(t)
  /\ committed' = [u \in Txn |-> IF u > t THEN committed[u] ELSE Absent]
  /\ pending' = [u \in Txn |-> IF u > t THEN pending[u] ELSE Absent]
  /\ finalized' = t
  /\ told' = Forget({u \in Txn : u <= t})
  /\ SemReleaseThrough(t)
  /\ UNCHANGED <<pc, req, left, was>>

-----------------------------------------------------------------------------
WriteNext(o) ==
  \/ InsertCheck(o)
  \/ WriteReject(o)
  \/ PendingLookup(o)
  \/ PendingInstall(o)
  \/ LookDelete(o)
  \/ LookRange(o)
  \/ LeaveDeletesStep(o)
  \/ LeaveInsertsStep(o)
  \/ JoinStep(o)
  \/ Abandon(o)

Next ==
  \/ \E o \in Op : WriteNext(o) \/ \E t \in Txn : StartWrite(o, t)
  \/ \E t \in Txn : \/ \E k \in Key : ReadRow(t, k)
                    \/ ReadAll(t)
                    \/ Commit(t)
                    \/ Rollback(t)
                    \/ Finalize(t)

Spec == Init /\ [][Next]_vars
-----------------------------------------------------------------------------
(* Properties.                                                             *)

\* No delta inserts and deletes rows of one key: point reads let the inserts win
\* (resolve_row), range reads and materialization the deletes (merge_into,
\* apply_to).
RowsDisjoint ==
  \A t \in Txn, k \in Key :
    /\ pending[t] # Absent => NoRow \in {pending[t].inserts[k], pending[t].deletes[k]}
    /\ HasDelta(t) => NoRow \in {committed[t].inserts[k], committed[t].deletes[k]}

\* What an undecided transaction was told of a key -- by a read, or by the success
\* of a row write, of an update or of a truncate, which promise the rows of their
\* range and leave the others -- is what it reads, whatever else is decided and
\* materialized meanwhile.
TellsTruth ==
  \A t \in Txn, k \in Key : told[t][k] # Unknown => View(t)[k] = told[t][k]

\* "Iteration, ranges, projections, limits, updates, and truncation preserve this
\* same snapshot": a range read returns the rows of the snapshot that are in range.
RangeReadsAgree ==
  \A t \in Txn : Quiet(t) =>
    \A range \in Ranges :
      RangeRead(t, range) = RowsIn(View(t), range)

\* A write that is dropped at an await leaves each key as it was, as it was to be,
\* or -- since an upsert leaves both sides of the delta before it joins one -- as the
\* committed transactions left it; the transaction may still be committed.
DroppedWriteIsBounded ==
  \A o \in Op : \A k \in Reserved(o) :
    LET t == req[o].txn
    IN  Open(t) =>
          View(t)[k] \in {was[o][k], Goal(o, k, was[o][k]),
                          Beneath(t)[k]}

\* What insert_row has checked holds until its first native step: no row has
\* appeared at its key across the awaits that create its delta.
InsertFindsNoRow ==
  \A o \in Op :
    /\ req[o].kind = "insert"
    /\ pc[o] \in {"lookup", "create", "leaveDeletes"}
    /\ Open(req[o].txn)
    => \A k \in Reserved(o) : View(req[o].txn)[k] = NoRow
=============================================================================
