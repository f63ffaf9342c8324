SPECIFICATION MCSpec
CONSTANTS
  Txn = {1, 2, 3}
  Key = {k1, k2}
SYMMETRY MCSymmetry
INVARIANTS
  PromiseKept
CHECK_DEADLOCK FALSE
