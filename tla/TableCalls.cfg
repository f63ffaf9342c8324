\* Two writes in a behaviour, of two transactions on two keys.
SPECIFICATION MCSpec
CONSTANTS
  Txn = {1, 2}
  Key = {k1, k2}
  Val = {v1, v2}
  Op = {o1, o2}
  NoRow = NoRow
  Absent = Absent
  NoDelta = NoDelta
  MaxCalls = 2
  Ranges <- MCKeyRanges
SYMMETRY MCSymmetry
INVARIANTS
  TypeOK
  RangeReadsAgree
  RowsDisjoint
  TellsTruth
  InsertFindsNoRow
  DroppedWriteIsBounded
CHECK_DEADLOCK FALSE
