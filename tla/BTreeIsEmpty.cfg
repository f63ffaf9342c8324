\* is_empty among the reads.
SPECIFICATION Spec
CONSTANTS
  Txn = {1, 2}
  Key = {k1}
  Op = {o1, o2}
  Absent = Absent
  NoDelta = NoDelta
  ReadKinds = {"scan", "isEmpty"}
  LateWork = FALSE
SYMMETRY MCSymmetry
INVARIANTS
  NoReadPastPending
CHECK_DEADLOCK FALSE
