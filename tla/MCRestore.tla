------------------------------- MODULE MCRestore -------------------------------
(* Small instances of Restore for TLC. *)
EXTENDS Restore, TLC

MCSymmetry == Permutations(Key)

\* A bound: once its transaction is decided, a restoration only fails.  Its steps are
\* private until it looks again whether the transaction is open.
MCNext ==
  /\ RestoreNext
  /\ work.phase # "idle" /\ ~Open(work.txn) => work' = NoWork

MCSpec == RestoreInit /\ [][MCNext]_restoreVars
=============================================================================
