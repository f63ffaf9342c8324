\* Point reads only, no symmetry: a liveness property.
SPECIFICATION FairSpec
CONSTANTS
  Txn = {1, 2}
  Key = {k1}
  Op = {o1, o2}
  Absent = Absent
  NoDelta = NoDelta
  ReadKinds = {}
  LateWork = FALSE
PROPERTIES
  BlockedReadsProceed
CHECK_DEADLOCK FALSE
