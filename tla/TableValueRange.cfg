\* Ranges over an indexed value column.
SPECIFICATION Spec
CONSTANTS
  Txn = {1}
  Key = {k1}
  Val = {v1, v2}
  Op = {o1}
  NoRow = NoRow
  Absent = Absent
  NoDelta = NoDelta
  Ranges <- MCValRanges
SYMMETRY MCSymmetry
INVARIANTS
  RangeReadsAgree
