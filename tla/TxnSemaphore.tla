---------------------------- MODULE TxnSemaphore ----------------------------
(***************************************************************************)
(* The transactional range semaphore of the txn_lock crate, modelled from  *)
(* how src/src/persistence.rs, src/src/btree/file.rs and their tests use   *)
(* it.  The crate itself is not part of the repository.                    *)
(*                                                                         *)
(* A read or a write at transaction t leaves a RESERVATION of its key      *)
(* range, which outlives the permit and is dropped by finalize.  Permits   *)
(* that are still held are known to the module that holds them, which      *)
(* passes the keys they cover as `held'.                                   *)
(***************************************************************************)
EXTENDS Naturals

CONSTANTS Txn,  \* transaction identities, totally ordered
          Key   \* the keys of the collection

ASSUME TxnAssumption == Txn \subseteq Nat \ {0}

VARIABLES reads,   \* keys reserved for reading, by transaction
          writes   \* keys reserved for writing, by transaction

semVars == <<reads, writes>>

SemTypeOK ==
  /\ reads \in [Txn -> SUBSET Key]
  /\ writes \in [Txn -> SUBSET Key]

SemInit ==
  /\ reads = [t \in Txn |-> {}]
  /\ writes = [t \in Txn |-> {}]

\* An earlier transaction has an unresolved write in the range.
EarlierWrite(t, range) == \E u \in Txn : u < t /\ writes[u] \cap range # {}

\* A later transaction has already read or written in the range.
LaterUse(t, range) ==
  \E u \in Txn : u > t /\ (reads[u] \cup writes[u]) \cap range # {}

\* Semaphore::read proceeds; while it is false the caller waits.
CanRead(t, range, held) == ~EarlierWrite(t, range) /\ range \cap held = {}

\* Semaphore::try_write succeeds; while it is false the call returns an error.
CanWrite(t, range, held) ==
  /\ ~EarlierWrite(t, range)
  /\ ~LaterUse(t, range)
  /\ range \cap held = {}

ReserveRead(t, range) ==
  /\ reads' = [reads EXCEPT ![t] = @ \cup range]
  /\ UNCHANGED writes

ReserveWrite(t, range) ==
  /\ writes' = [writes EXCEPT ![t] = @ \cup range]
  /\ UNCHANGED reads

\* Semaphore::finalize(t, false): drop the reservations of t.
SemRelease(t) ==
  /\ reads' = [reads EXCEPT ![t] = {}]
  /\ writes' = [writes EXCEPT ![t] = {}]

\* Semaphore::finalize(t, true): drop every reservation up to t.
SemReleaseThrough(t) ==
  /\ reads' = [u \in Txn |-> IF u <= t THEN {} ELSE reads[u]]
  /\ writes' = [u \in Txn |-> IF u <= t THEN {} ELSE writes[u]]
=============================================================================
