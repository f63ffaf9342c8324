# A TLA+ model of tc-collection

`tc-collection` keeps TinyChain's transactional collections: BTree, Table and
Tensor. BTree and Table are persistent and multi-version. Several transactions
read and write them at once, each transaction is committed or rolled back, and
`finalize(cutoff)` merges what is committed into canonical storage. This
directory models the transactional core, the views and routes over it, and the
Tensor's operations; checks them with TLC on small instances; and proves with TLAPS,
for every instance, every invariant that TLC checks (some of the BTree and the Table
under a hypothesis that a finding is about).

Source paths are those of `PROJECT.json`: the repository is the directory `src/`; line numbers are in `PROJECT.json`
("map", from each definition to the lines it models).

## 1. Inventory

| Part | State | Operations | What makes it correct |
|---|---|---|---|
| Range semaphore (`txn_lock`, external) | read and write reservations by transaction, permits held | `read` (waits), `try_write` (fails), `finalize` | a write never passes a later transaction's use; a read never passes an earlier pending write |
| Collection owner (`src/src/persistence.rs`) | `State`: canonical storage, committed and pending deltas, `finalized` frontier | `visible_snapshot`, `commit`, `rollback`, `finalize`, `acquire_read_permit` | snapshot reads; atomic and final decisions; in-place merge invisible to later transactions |
| BTree (`src/src/btree/file.rs`) | deltas of inserts and deletes, each a native tree | `insert_row`, `delete_row`, `contains_row`, `keys`, `count`, `is_empty`, slices, `restore_from`, `load`, `sync` | no acknowledged write is lost; scans are snapshots; restore replaces all or nothing |
| Table (`src/src/table/file.rs`) | deltas of rows to upsert and to delete, secondary indexes | `upsert_row`, `insert_row`, `delete_row`, `read_row`, range reads, `update`, `truncate` | as BTree, and range and order reads agree with row reads |
| Table schema (`src/src/table/schema.rs`) | none | construction, validation, projection, the form as a value | rows fit the table and every index; a schema survives storage; a projection keeps columns and schema in step |
| Table views (`src/src/table/view.rs`, `stream.rs`, `mod.rs`) | source, range, order, limit, columns | `slice`, `order_by`, `limit`, `select`, `update`, `truncate` | "preserve this same snapshot" and their own bounds |
| Table routes (`src/src/table/public/`) | none | GET/PUT/POST/DELETE with a selector | the selector's choice of key or range |
| BTree slices, collection dispatch (`src/src/collection.rs`, `btree/route.rs`, `class.rs`) | none of its own | `slice`, `copy_into`, `restore_from`, `load`, `sync`, `hash`, lifecycle dispatch | slice bounds intersect; identity and kind checks fail closed |
| Tensor (`src/src/tensor/`) | a dense buffer, in memory | shape, broadcast, transpose, reduce, matmul, read, write | offsets and coordinates agree; the laws of broadcasting, reduction and products; no value is lost on the way |
| Codecs, views, routes (`decode.rs`, `encode.rs`, `view.rs`, `*/codec.rs`, `route.rs`, `tensor/wire.rs`) | none | streaming (de)serialization, dispatch | pure I/O |
| Storage traits (`persistent_file.rs`, `txn.rs`, `lib.rs`) | none | traits over freqfs | none |

**How the parts interact.** A handler opens a permit at the semaphore, then
takes the state lock for a short region (`std::sync::RwLock`, never held across
an await), then awaits native storage. Nothing else orders two handlers of one
transaction or of two. A lifecycle call takes the state lock, releases it,
(for finalize) awaits native storage without any permit, takes it again, and
only then releases reservations. The host serializes lifecycle calls, and stops,
drains and cancels a transaction's work before it decides it; the collection
does not check that.

**What is hard.** Reads of several awaits against an in-place merge; two first
writes of one transaction racing to create its delta; writes that are half done
when their future is dropped; the window between a decision and the release of
its reservations; duplicate, stale and late calls; a finalize that fails half-way.
`PROJECT.json` lists each hazard at its line with the properties that cover it.

## 2. The modules

The transactional core:

| Module | Models |
|---|---|
| `TxnSemaphore` | the semaphore, as far as the repository uses it and its tests show it |
| `BTreeDelta` | one delta: the two native steps of `insert` and of `delete`, and how a delta shows a key |
| `CollectionOwner` | `persistence.rs`: visibility and the lifecycle calls, step by step between locks and awaits |
| `BTree` | the BTree over the owner: concurrent calls (`Op`), their permits, dropped calls, and the caller's obligations; all BTree properties |
| `TransactionalSet` | the abstract specification: a multi-version set whose operations are atomic |
| `StoredSet` | the same with canonical storage, which finalize rewrites key by key and delta by delta before it prunes |
| `BTreeRefinement` | the refinement mappings from `BTree` to `TransactionalSet` and to `StoredSet` |
| `Restore` | `restore_from` over the `StoredSet`, key by key, among the steps of other transactions and of finalize |
| `TableDelta` | one delta of a Table: the native steps of `upsert`, `delete_from_inserts` and `add_to_deletes`; point reads, range reads and materialization through one delta |
| `Table` | the Table over the owner: row writes, `update` and `truncate` await by await, reads, the lifecycle; all Table properties |

What callers see of it:

| Module | Models |
|---|---|
| `TableSchema` | `table/schema.rs`: construction, validation, `project`, and the two casts between a schema and a value |
| `TableViews` | `table/view.rs`, `stream.rs` and the read side of `table/file.rs`: streams merged in an order, slices, caps, selections, copies |
| `TableRoutes` | `table/public/` and `table/mod.rs`: selectors and every route; writes through views; the row-by-row rewrite of local tables |
| `BTreeViews` | `BTreeView` and `btree/route.rs`: slices of slices, counts, copies |
| `Collection` | `collection.rs`: one set of operations over the classes; `copy_into`, `restore_from`, `is_persistent` |
| `Tensor` | values and their widths, coordinates and offsets, the operations that change the shape |
| `TensorOps` | reductions, elementwise operations, products |
| `TensorRoutes` | `tensor/route.rs`: a caller calls one route after another; all Tensor properties |
| `Sorting` | a finite set as a sequence in a given order, for the modules above |

`TableRoutes` extends `TableViews`, which extends `TableSchema`; `Collection` puts
`TableRoutes` and `BTreeViews` together; `Restore` extends `StoredSet`, which
extends `TransactionalSet`; `BTree` implements both (`BTreeRefinement`). `MCBTree`, `MCBTreeCalls`, `MCTable`,
`MCTableCalls`, `MCRestore`, `MCTableViews`, `MCCollection` and `MCTensor` are the
instances for TLC; those named `Calls` bound the calls of a behaviour.
The modules whose names end in `_proofs` hold the theorems (section 4), with
`InductionLemmas` under those of the Table, the views and the Tensor.

State correspondence: `persistent`, `committed`, `pending`, `finalized` are the
fields of `State`; `committed[t]` is `Absent` (no entry), `NoDelta`
(`Some(t) -> None`) or a delta. `life` and `todo` are the locals of the lifecycle
call in progress. `pc`, `req`, `snap`, `unread`, `found` are the locals of each
call in flight. `told` is a history variable: the last answer of a read or the
last acknowledged write, by transaction and key. `closed` is the host's own
record of the transactions it has stopped.

Step correspondence of a write: `WriteReserve` (`try_write`), `PendingLookup` and
`PendingInstall` (the two locked regions of `pending_delta_for_txn`, with the
creation of delta storage between them), `WriteFirst` and `WriteSecond` (the two
native awaits). Of a read: `ReadStart`, `ReadAcquire` (the semaphore's wait),
`ReadSnapshot`, one `ReadKey` per key of canonical storage, `ReadReturn`. Of
finalize: `FinalizeBegin`, one `ApplyKey` per key of each delta,
`FinalizePublish`, `LifeRelease`, `LifeReturn`. `Abandon` is a future dropped at
an await, or a native error; `FinalizeFail` is the same for finalize, after which
the contract forbids further lifecycle calls.

In `Table` a write is `Reserve` (`try_write`), for an insert `InsertCheck`, then
`PendingLookup` and `PendingInstall`, then for a delete `LookDelete` and for
`update` and `truncate` `LookRange`, and then, for each row, the native awaits
`LeaveDeletesStep`, `LeaveInsertsStep`, `JoinStep` (an upsert makes all three, a
delete the last two). `was` and `told` are history variables: what the
transaction read when the call reserved, and what it was last told of a key. The loops
of the code over the deltas of a snapshot are one operator, `ThroughCommitted`, which
`Beneath` (row reads), `RangeRead` and `Materialized` (finalize) give the step of a layer.

In `StoredSet` reads, writes, commit and rollback are those of `TransactionalSet`, and a
finalize is the steps that whoever looks at storage can tell apart: `MergeBegin` collects
the deltas and prunes none, one `MergeKey` per key of each delta rewrites storage,
`MergePublish` prunes and advances the frontier; `MergeFail` stops it half-way. `canon` is
what storage holds, so that half-way a key may stand before, after or between the deltas
that are merged, all still listed in `committed`.

In `Restore` the local state of a restoration is `work`: `RestoreBegin` takes the permit of
all keys and, under the state lock, the committed deltas as they are listed, before, half-way
through or after a finalize; one `RestoreSeed` per key is the copy of physical storage in
`for_restore`, between which that finalize, or the next, goes on; one `RestoreApply` per
committed delta applies it to the copy, also those that were in it already, and
`RestoreInsert` inserts what the source shows; `RestoreInstall` is the locked step that puts
the result in the place of the pending delta. `RestoreEnds` is an error or a dropped call at
any of them. What is left to chance is what the source shows: any set of keys. A Table's
`restore_from` (`src/src/table/file.rs:369`) takes the same steps over rows, which the set
tells apart by key only; that its storage is that of `StoredSet` is shown for the BTree alone.

In `TableRoutes` a caller holds `view`, over `source`: a persistent table as one
transaction sees it (canonical rows, inserts, deletes) or a local table, which has rows
alone. A route is one step (`Get`, `Post`, `PutRange`, `PutRow`, `Delete`, `Insert`,
`Counting`, `Limit`, `Order`, `Select`), and so are the methods of views that no route
reaches (`ViewSlice`, `ViewLimit`, `ViewSelect`). The rewrite of a local table is
`RewriteDelete` and `RewriteUpsert` for each row; `RewriteDropped` is its future
dropped. `was` holds the rows that were visible when the last call began. The streams
(`RowStream`, `Merged`, `Diffed`) are those of the code, collator included: that is
what makes an ordered view differ from the snapshot (findings).

In `BTreeViews` the caller's view is a pair of bounds and a direction; `asked` is a
history variable, the keys that all slices together asked for.

### Abstractions

- Keys are members of a small set. Schema validation and key normalization are
  data, and happen before the modelled code.
- A delta is a value in the snapshot of a reader, where the code keeps a shared
  handle. The two agree while a permit protects the reader, since a committed
  delta does not change and the writes of the reader's own transaction are kept
  out by its permit. `is_empty` has no permit; the run that concerns it needs only
  the state at its snapshot.
- The native tree's own locks are not modelled: a scan and a merge interleave key
  by key, which allows at least what the locks allow.
- A scan composes its streams when the last key has been read. Deltas do not
  change meanwhile, so the order of the reads of delta and canonical storage
  matters only for canonical storage, which is read key by key.
- A row of a Table is a key and one value; a range is a set of rows. The two kinds
  of range that matter are those over the key columns, where a row cannot leave its
  range, and those over an indexed value column, where it can (`MCKeyRanges`,
  `MCValRanges`). Columns, projections and orders are in `TableViews`.
- `Table` makes a read, and a lifecycle call, a single step. What happens inside
  them is the owner's code, shared with the BTree, whose interleavings `BTree` has
  and `BTreeRefinement` shows to have the effect of single steps.
- `update` and `truncate` stream the rows they write. The model reads them at once,
  under a permit of the whole table; the stream moves in key order and only rows
  it has passed are written.
- Calls that fail without touching state (Conflict from `try_write`, Outdated,
  Conflict from `rollback`) are stutters.
- The state lock's poisoning and the `expect`s on storage errors are not modelled.
- In `TableViews` and `TableRoutes` a call of a persistent table is atomic, and one
  transaction calls: the interleavings are those of `Table`. A text cell holds the
  rank of its text. A bound of a range admits a set of the cells of the instance
  (`Cells`). What the collate and b_table crates do (merging and subtracting sorted
  streams, intersecting ranges, reading in an order with the key as the last of it) is
  modelled from how the code uses them.
- A BTree key is one integer in `BTreeViews`: bounds of slices are of one value.
- The values of a tensor are whole numbers, and the widths of f32, f64 and u64 are
  parameters, small in the instance. `div`, `mean`, `norm` and `std`, which leave the
  whole numbers, are left out; so are NaN and infinities.

### The semaphore's contract

`txn_lock` is not in the repository. What the model assumes of it is what the
code and tests rely on: `try_write` fails if an earlier transaction has an
unresolved write in the range or a later one has read or written it
(`btree/tests.rs`: `overlapping_write_in_past_txn_fails_closed`,
`concurrent_writer_conflict_matrix`); `read` waits behind earlier writes
(`blocked_reader_cancellation`); a reservation outlives its permit until
`Semaphore::finalize` (`finalize_conflicts_with_future_read`,
`snapshot_scan` tests); `try_write` is asked before `assert_writable`
(`cannot_write_after_commit_or_finalize`).

## 3. The runs

| Run | Instance | Shows |
|---|---|---|
| `btree_order` | 3 txns, 1 key, 1 slot, late work, point reads, any number of calls | `TellsTruth` and `ViewMovesOnlyByCommit` across transactions; `DecisionIsFinal`, `FrontierIsPruned`, `TypeOK` |
| `btree_refines` | 2 txns, 2 keys, 2 slots, 3 calls | the BTree implements `TransactionalSet`, and its storage and listed deltas are those of `StoredSet`; `ScanIsAtomic`: a scan against an in-place merge; `DeltaDisjoint` and `TellsTruth` with racing writes of one transaction; `NoReadPastPending`; `DecisionReleases` |
| `btree_live` | 2 txns, 1 key, 2 slots, point reads | `BlockedReadsProceed` under fairness |
| `restore` | 3 txns, 2 keys | `PromiseKept`: what any transaction was told stays true while one restores the collection from a copy of storage that finalize is rewriting, begun before, half-way through or after it |
| `table_calls` | 2 txns, 2 keys, 2 values, 2 slots, 2 writes, key ranges | `TellsTruth` across commits and materialization; `RangeReadsAgree` over layers; `RowsDisjoint`, `InsertFindsNoRow`, `DroppedWriteIsBounded` with bulk writes and dropped calls; `TypeOK` |
| `collection_routes` | 2 calls from tables of 1 or 2 key columns, persistent and local; trees of up to 4 keys, any number of calls | `CountIsRows`, `CopyIsView`, `IndexRowsFit`, `SchemaRoundTrip`, `SelectorsAgree`, `WritesStayInside`, `RewriteLosesOneRow`, `SliceIsIntersection`, `PersistentIsWhole`, `TypeOK` |
| `tensor_routes` | every route on tensors of rank 0 to 3, dimensions 0 to 2 | `WellFormed`, `OffsetsAgree`, `ElementwiseMeaning`, `BroadcastReduceIsAdjoint`, `BatchedMatmulIsMatmul`, `ReduceAxisByAxis`, `ExtremesAreValues`, `ShapeChangeKeepsValues`, `WriteIsLocal` |
| `duplicate_commit` | 2 txns, 1 key, 2 slots, late work | **violated**: see findings |
| `is_empty` | 2 txns, 1 key, 2 slots, with `is_empty` | **violated**: see findings |
| `table_value_range` | 1 txn, 1 key, 2 values, ranges over the value | **violated**: see findings |
| `selection_cap` | 2 calls of `TableRoutes` | **violated**: see findings |
| `ordered_views` | 2 calls of `TableRoutes` | **violated**: see findings |

**Bounds.** Two transactions with two slots reach every race of two calls; two keys
are needed for a scan that sees half a merge and for two writes of one delta; three
transactions for a waiting one between an undecided and a decided one. `MaxCalls`
bounds the calls of a behaviour so that two of everything fit: two writes race, and a
third call reads what they leave. Keys and slots are interchangeable and reduced by
symmetry, except in the liveness run, and except keys in the Table runs, where bulk
writes take them in an order. In `table_calls` canonical rows start with one value, so
that two tell a row's old value from its new one. In `restore` (`MCRestore`) a restoration whose
transaction has been decided can only fail; without that bound there are 6.5 million states
instead of 1.6 million, and the run passes too. `LateWork = TRUE` lets callers go on
reading and writing in a transaction they have closed, which is not forbidden once it is
decided. The tables of `collection_routes` have a delta row that ties with a canonical
one, one that replaces one, and deleted ones; two calls are a write after a view was
made, or a view of a view. The bounds of its slices are at two of four keys, included
and excluded, so that every pair meets in either order. The operands of `tensor_routes`
have one rank more and one less than the tensor, and a dimension of 1 and of 0 on
either side.

`CHECK_DEADLOCK FALSE`: `Restore` stops when all is finalized;
a BTree, and `Restore`, may stop after a failed finalize; the runs that count calls of routes stop at
their bound. The two runs of `Table` check that it does not stop.

**Fairness.** Weak fairness of each call's steps: a task that can run is polled.
Weak fairness of `LifeStep`: the host drives a lifecycle call it has started (the
contract makes it do so before any other). Weak fairness of `CloseTxn` and strong
fairness of `Decide`: every transaction ends, in commit or rollback; strong because
deciding it is enabled again and again only between other lifecycle calls. Writes
are given no fairness to start, and calls may be dropped at any time.

### Findings

- A duplicate `commit` returns before `semaphore.finalize`
  (`src/src/persistence.rs:111`), so it does not release what was reserved since the
  first commit; the contract says duplicate decisions release. The write side
  (`DecisionReleases`) fails in the same way.
- `is_empty` reads without a permit (`src/src/btree/file.rs:657`) and so answers past an
  earlier transaction's pending change; the contract says such a change is resolved
  before a later conflicting access proceeds.
- A range over a value column returns rows that are no longer in it
  (`src/src/table/file.rs:205`). A delta is merged into a range read after its inserts
  and its deletes have been filtered by the range themselves, and an upsert records
  no delete; so when a transaction moves a row out of the range, nothing hides the
  older row. `update` and `truncate` read the same way: a truncate of the old range
  deletes the moved row. The contract says ranges, updates and truncation preserve
  the snapshot. For ranges over key columns `RangeReadsAgree` and `TellsTruth` hold.
- A selection made from a limited view forgets the cap everywhere but in `rows`
  (`src/src/table/view.rs:484`): `count`, `is_empty` and `for_each_row_in_order` go to the
  slice below. The comment on `Limited::select` says that it preserves the cap.
  `CountIsRows` covers every other view.
- An ordered view of a persistent table is not the snapshot in another order
  (`src/src/table/file.rs:39`). The layers are merged and subtracted by a collator that
  compares the order columns alone. Rows of two layers that tie become one, a deleted
  row takes those that tie with it along, and a row whose order column was updated is
  shown beside its old version. In the natural order, and on local tables, views are
  exact (`CountIsRows`, `CopyIsView`).

Not a finding, since no document speaks of it: an upsert of a Table delta leaves both
sides before it joins the inserts (`src/src/table/file.rs:183`), so an upsert that is
dropped between its awaits uncovers the committed row, and a write its transaction
had acknowledged earlier is lost. `DroppedWriteIsBounded` says that this is the worst
that happens. In the same
way a refused upsert of a row of a local table has already deleted the old row
(`src/src/table/mod.rs:254`), and an update with a value of the wrong type drops the pending
version of the row it stops at (`src/src/table/file.rs:726`); the model has both. Through a
slice of a BTree, `contains`, `insert` and `delete` are of the whole tree, where `count`
and `is_empty` keep to the bounds (`PutKey`, `DeleteKey`). Commit, rollback and finalize
of a view of a Table do nothing and answer Ok (`src/src/collection.rs:433`). A selector with
a misspelt column may be taken for a key. Two columns may have one name, and then an
index over the second has the type of the later one. `IndexRowsFit` excludes it, and so do
`CopyIsView` for a selection and `SelectorsAgree` for a key read as a range, which find a
column by its name.
`can_cast_from` of a schema accepts values that `opt_cast_from` refuses.

## 4. What is proved

The theorems bound neither transactions, keys, calls nor behaviours; neither rows,
columns, ranges nor schemas; neither ranks, dimensions nor widths. All but one row say of
every instance what a run says of a small one.

| Module | Theorem | States |
|---|---|---|
| `TransactionalSet_proofs` | `SetKeepsPromises` | the atomic set keeps `PromiseKept` |
| `BTree_proofs` | `TypeCorrect`, `DeltasAreDisjoint` | `TypeOK`, `DeltaDisjoint` |
| | `NothingIsLeftBehind`, `DecisionsAreFinal` | `FrontierIsPruned`, `DecisionIsFinal` |
| | `ReadsWaitForEarlier` | `NoReadPastPending`, unless there is `is_empty` |
| | `DecisionsRelease` | `DecisionReleases`, unless callers work late |
| | `PromisesAreKept`, `ScansAreAtomic` | `TellsTruth`, `ScanIsAtomic` |
| | `ViewsMoveByCommit` | `ViewMovesOnlyByCommit` |
| `BTreeRefinement_proofs` | `BTreeImplementsSet` | `ImplementsTransactionalSet` |
| | `BTreeImplementsStoredSet` | `ImplementsStoredSet` |
| `Restore_proofs` | `StoredKeepsPromises` | `PromiseKept`, of the set whose storage is rewritten in steps |
| | `RestoreKeepsPromises` | `PromiseKept`, restorations included |
| `Table_proofs` | `TypesHold`, `RowsAreDisjoint`, `InsertsAreNew` | `TypeOK`, `RowsDisjoint`, `InsertFindsNoRow` |
| | `TransactionsReadWhatTheyWereTold` | `TellsTruth`, if ranges are over key columns |
| | `DroppedWritesAreBounded`, `RangeReadsAreOfTheSnapshot` | `DroppedWriteIsBounded`, `RangeReadsAgree`, if ranges are over key columns |
| | `WholeReadsAreOfTheSnapshot`, `FinalizeStoresWhatIsRead` | a read of the whole table, and what finalize stores, are what row reads return |
| `Collection_proofs` | `RoutesKeepTypes`, `SlicesIntersect` | `TypeOK` of the views, `SliceIsIntersection` |
| | `CountsAgree`, `CopiesAreTheirViews` | `CountIsRows`, `CopyIsView` |
| | `SlicesConfineWrites`, `DroppedRewriteLosesOne` | `WritesStayInside`, `RewriteLosesOneRow` |
| | `IndicesTakeEveryRow`, `SchemasReadBack` | `IndexRowsFit`, `SchemaRoundTrip` |
| | `SelectorsMeanOneThing`, `PersistentCollectionsAreWhole` | `SelectorsAgree`, `PersistentIsWhole` |
| `Tensor_proofs` | `TensorsWellFormed`, `OffsetsAlwaysAgree` | `WellFormed`, `OffsetsAgree` |
| | `WritesAreLocal`, `ShapeChangesKeepValues` | `WriteIsLocal`, `ShapeChangeKeepsValues` |
| | `ElementwiseAsMeant`, `BatchedProductsAreProducts` | `ElementwiseMeaning`, `BatchedMatmulIsMatmul` |
| | `ExtremesAreMet` | `ExtremesAreValues`, and without its bound on the values |
| | `ReducingAxisByAxis`, `BroadcastReduceIsAlwaysAdjoint` | `ReduceAxisByAxis`, `BroadcastReduceIsAdjoint` |

**Assumptions.** Transactions are positive integers (`TxnAssumption`, `OrderAssumption`);
`Absent` and `NoDelta` are not deltas (`AbsentAssumption`, `TableAssumption`); a row of a
Table has some value, if only that of no columns, and no value is `NoRow`
(`NoRowAssumption`). The sources of a caller of tables are tables, with finitely many rows
and one for each key, and what requests carry has the types of the code's parameters
(`TableAssumption` of `TableRoutes`, which also keeps tuples out of cells, since a selector
reads a tuple as bounds; `TreeAssumption`; `InputAssumption` for tensors). f32 holds fewer
whole numbers than f64, and f64 fewer than u64 (`WidthAssumption`). Some
theorems have a hypothesis, and each is what a finding is about:
`ReadsWaitForEarlier` that `is_empty` is not among the reads (run `is_empty` refutes it
otherwise), `DecisionsRelease` that `LateWork` is false (run `duplicate_commit`), and three
of the Table that every range is over the key columns (`KeyRanges`, which the ranges of run
`table_calls` satisfy; run `table_value_range` refutes it for others). The rest of the BTree
holds with `is_empty` and with late work, the rest of the Table with any ranges.
Two properties of sums have theirs in their statement: floats round, and a sum that is
rounded depends on the order of its terms. They are about tensors that are `Exact`: the
distances of their values from zero add up (or multiply) to what their dtype still counts
one by one.

**The atomic set.** An answer, or an acknowledged write, of an open transaction stays what
it reads. The invariant is `PromiseInv`: promises belong to open transactions
(`ToldAreOpen`), and when a transaction has a promise about a key no earlier open
transaction has changed it (`EarlierAreSettled`) — without which a commit would break the
promise. The step for finalize (`MergeKeeps`) splits on whether a later version covers the
key.

**The BTree, in four layers** (`BTree_proofs`; the last `BTreeRefinement_proofs`), each an invariant that the next assumes.

1. `BTreeInv`. `DeltaDisjoint` is not inductive: the second native step of
   a write adds its key to one side whatever the other holds. `HalfWritten` says the other
   side does not hold it, which survives the other writes of the transaction because permits
   are exclusive (`WritePermits`, from `CanWrite`), and lifecycle calls because the host
   makes none while a call of the transaction runs (`Quiet`, `FinalizeAlone`).
2. `OrderInv`: what the reservations order. A pending change has a
   write reservation, a promise or a read in progress has a reservation, and no reservation
   is beside an earlier unresolved write; a transaction through the frontier has no delta.
   `DecisionsRelease` adds that nothing is reserved again after a decision, and so needs
   that nobody works late.
3. `ReadInv`: what finalize may do to canonical storage while others
   read it. A key that it has applied is as the last delta through the cutoff says
   (`ApplyInv`), a reader's snapshot covers every key that is still to be applied
   (`SnapshotCovers`), and so what a scan has found and its snapshot compose its view
   (`ReadsView`) — which is `ScanIsAtomic` — and an answer is true when it is given.
   `TellsTruth` then survives commits by `OrderInv`. That committed deltas have a last one
   at every key (`CommittedHaveLast`) is proved as an invariant of behaviours, from the
   commits one after the other: it takes the place of an induction over finite sets.
4. The refinements. Under the mapping to `TransactionalSet`, a finalize takes effect
   when it begins: the mapped canonical contents are what is committed through the mapped
   frontier, and so in-place merging is a stutter. `BarViews` says that mapped views are
   the views of the BTree; reservations give the guards of the abstract steps
   (`ReservedIsSettled`, `WrittenIsUndisturbed`). One lemma for each action says which
   abstract step, or stutter, it is. Under the mapping to `StoredSet` canonical storage and
   the listed deltas are taken as they are, and the steps of a finalize are its steps; reads
   and writes mean the same there because what a finalize in flight has to merge is listed
   until it is pruned (`StoredViews`).

**Restore.** First the set with its storage: `StoredInv` is `PromiseInv`, which speaks of
views through the listed deltas, and `MergeInv`. `MergeInv` says that a key with nothing left
to apply is in storage what the last merged delta makes it, and that of any other that last
delta is still to come. So no `MergeKey` changes a view, a finalize that stops half-way
leaves all as it was, and to prune is the atomic finalize, which keeps `PromiseInv`.
Then the restoration: `RestoreInv` beside `StoredInv`. The delta to install is built in a
copy of storage which finalize is rewriting with the very deltas that are applied to the copy
afterwards. `BuiltInv` says why that is right: a key that no listed delta touches is
the same in storage before and after, and of any other the last delta decides,
applied twice or not. `AloneInv` is what the reservation of all keys gives: earlier open
transactions have changed nothing, later ones have neither changed nor read anything.
With `BTreeImplementsStoredSet` the storage that is copied, and the deltas that are listed at
its start, are those of a BTree, half-way through a finalize included.

**The Table, in three parts.**

1. The loops. A read, a range read and finalize each go through the
   committed deltas, and what they compute is proved by induction over the transactions.
   The prover has no induction rule that takes a predicate, so the lemma `Induction` takes a
   set, and rests on the least element of a set of numbers; `Recursion` gives the recursive
   functions their equations. From these: a range read layer by layer is what row reads see
   in the range, if rows of one key are in the range together (`RangeReadIsView`);
   materialization, where deletes win, agrees with row reads, where inserts win, if no delta
   has both (`MaterializedIsRead`); and a key's answer changes only with a transaction that
   touches it (`BeneathStays`) and not with finalize (`FinalizeStays`).
2. Calls are in order (`CallsInOrder`): which kind of call is at which place, that a row is
   left to write where one is taken, and that a call past `assert_writable` has an undecided
   transaction and its delta. `TypeOK` is not inductive without it.
3. `TableInv`. At each key a call holds a permit for, `KeyInv` follows the three native
   awaits: before them the transaction reads there what it read when the call reserved; in
   between, one side of the delta is known to be empty -- the strengthening that
   `RowsDisjoint` needs -- and what is read is the old row, the new one or what lies
   beneath, which is `DroppedWriteIsBounded`; behind them it is what the call was to leave,
   which is what its success promises. `Permits` keeps the calls of one transaction apart,
   `SemOrder`, `DeltaReserved` and `ToldReserved` the transactions: a commit adds rows only
   where its transaction reserved to write, and there no later one has been told anything.
   A step of a call is shown once to leave all other calls alone (`OwnStep`,
   `OwnStepKeeps`), and a decision to leave the other transactions alone
   (`LifecycleStep`, `LifecycleKeeps`). TLC checked `TableInv` on the instance of
   `table_calls`.

**The views and routes, in four parts** (`Collection_proofs`). The model's functions over
streams are recursive functions, which the lemmas of `InductionLemmas` unfold
(`FiniteRecursion`, `GridRecursion` and the inductions that go with them); a definition by
`CHOOSE` of a sorted sequence is met by `InOrderExists` and is the only one by
`StreamsUnique`.

1. Streams. A stream in key order of the rows in a range exists and is one; merging two by
   key is the stream of the union, and subtracting one the stream of the difference, both by
   induction over the grid of their places. So the layers of a persistent table, merged and
   subtracted as the code does it, are the stream of the visible rows, if deletes and
   inserts have no key in common: `Visible` says which rows those are. Counts, copies and
   whole reads follow. A copy goes through a projection, and so needs that a column has one
   place.
2. Schemas. A schema is what `NewSchema` makes of its key, values and the columns that its
   indices name (`IsSchema`). That this holds of every projection (`Project`) and of what is
   read back from a value is proved from what indices are, columns named and then the key.
   A selector's key, as a range of points, admits the rows of that key.
3. `TableInv`. A write of a persistent table differs from what was there at the keys of its
   targets alone (`Changed`, which is closed under the loops over rows). A rewrite of a local
   table is followed step by step by `Rewriting`: the rows are those it found or those it
   wants, every key it found is there or is wanted, and while it upserts, the one key that
   is missing is that of the row it has in hand. `WritesStayInside` and
   `RewriteLosesOneRow` are two of its consequences.
4. `TreeInv`: the bounds of a view admit what all slices together asked for, since the
   tighter of two bounds admits what both do.

**The Tensor** (`Tensor_proofs`). `IsTensor` is inductive as it stands: one lemma for each
operation says that what it answers is a tensor. They rest on three groups of lemmas.

1. Places. `Blocks` (the products of the dimensions from the right) and `Offsets` (the sums
   from the right) are what `Strides`, `CoordOffset`, `Unravel` and `CoordFromOffset` have
   in common, and by induction over the axes each of these is given by them. So coordinates
   and offsets are one to one, whatever the dimensions (`OffsetOfUnravel`,
   `UnravelOfOffset`), and there are as many coordinates as values (`CoordsCount`).
2. Widths. A value rounded to a width is one the width holds (`RoundIsRepresentable`), and
   one that is held is rounded to itself (`RepresentableIsStable`); a wider float holds what
   a narrower does.
3. Loops. A sum in f64 of given terms is one number (`SumsExist`), so two products with the
   same terms at a place agree there: this gives the batched product, and the transpose. A
   reduction goes through the values in order (`ReduceMeans`), and by induction an
   accumulator holds the extremes of the values that fell on it (`RunsMeet`); some value
   falls on each (`SomethingFalls`).
4. Sums and products. What is bounded as a whole is bounded at every step of the loop and in
   every group (`BoundedParts`, `BoundedGroups`), so nothing is rounded and an accumulator
   holds the sum of what fell on it (`RunsTotal`). Values may then be grouped as one likes
   (`Regroup`): by two groupings one after the other as by the one they make
   (`GroupsOfGroups`), which is a reduction axis by axis; and with a common factor taken out
   of each group (`SumsOfRepeated`), which is the adjoint.
5. Dimensions of one. A shape without them has the same places (`SqueezedPlace`). So axes
   that a reduction drops keep every value where it is, and the leading axes that
   `broadcast_reduce` sums away leave the places a broadcast takes its values from
   (`BroadcastUndone`).

**Only model-checked.** Liveness (`BlockedReadsProceed`), which the prover does not do, and
the violated properties of the findings.

## 5. Not modelled

- Codecs, encoders and views of streams: I/O over the formats of other crates.
- `load`, `sync` and `sync_all`, and with them crashes: what is durable is up to freqfs
  and to the host's log, of which the repository has no code. A finalize that fails is
  modelled up to where the contract forbids to go on.
- `hash`: a digest of the schema and of the streams that are modelled.
- Restoration of two collections from each other in one transaction, which waits for
  itself: `Restore` has one collection.
- The decoding of requests (states into values and maps), the routes that only show a
  schema, `from_put`, and the parsing of class paths.
- Keys of several columns in slices of a BTree; `div`, `mean`, `norm` and `std` of a
  Tensor; arithmetic that wraps on shapes of 2^32 and more.

## 6. Plan

Modelled and checked: everything in the table of section 1 that has state or an
algorithm, but what section 5 lists. Proved: every invariant that a run checks and every
action property and both refinements. Next would
be a table whose rows have the columns of `TableSchema` under the interleavings of `Table`.
