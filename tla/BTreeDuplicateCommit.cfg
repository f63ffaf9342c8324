\* A transaction is read again after its commit.
SPECIFICATION Spec
CONSTANTS
  Txn = {1, 2}
  Key = {k1}
  Op = {o1, o2}
  Absent = Absent
  NoDelta = NoDelta
  ReadKinds = {"scan"}
  LateWork = TRUE
SYMMETRY MCSymmetry
INVARIANTS
  DecisionReleasesReads
CHECK_DEADLOCK FALSE
