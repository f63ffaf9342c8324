\* Three transactions, of which each may be finalized while others run, with calls
\* also after a decision; point reads only: on one key a scan is one.
SPECIFICATION Spec
CONSTANTS
  Txn = {1, 2, 3}
  Key = {k1}
  Op = {o1}
  Absent = Absent
  NoDelta = NoDelta
  ReadKinds = {}
  LateWork = TRUE
SYMMETRY MCSymmetry
INVARIANTS
  TypeOK
  FrontierIsPruned
  TellsTruth
PROPERTIES
  DecisionIsFinal
  ViewMovesOnlyByCommit
CHECK_DEADLOCK FALSE
