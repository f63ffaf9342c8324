\* Three calls in a behaviour, of two transactions on two keys.
SPECIFICATION MCSpec
CONSTANTS
  Txn = {1, 2}
  Key = {k1, k2}
  Op = {o1, o2}
  Absent = Absent
  NoDelta = NoDelta
  ReadKinds = {"scan"}
  LateWork = FALSE
  MaxCalls = 3
SYMMETRY MCSymmetry
INVARIANTS
  DeltaDisjoint
  TellsTruth
  NoReadPastPending
  ScanIsAtomic
  DecisionReleases
PROPERTIES
  ImplementsTransactionalSet
  ImplementsStoredSet
CHECK_DEADLOCK FALSE
