\* One call of each route on each literal; the widths stand for 24, 53 and 64 bits.
CONSTANTS
  F32Exact = 32
  F64Exact = 64
  U64Max = 255
  Complex = Complex
  Literals <- MCLiterals
  Operands <- MCOperands
  ShapeArgs <- MCShapeArgs
  BoundArgs <- MCBoundArgs
  Numbers <- MCNumbers
  MaxCalls = 1
SPECIFICATION Spec
INVARIANTS
  WellFormed
  OffsetsAgree
  ElementwiseMeaning
  BroadcastReduceIsAdjoint
  BatchedMatmulIsMatmul
  ReduceAxisByAxis
  ExtremesAreValues
  ShapeChangeKeepsValues
  WriteIsLocal
CHECK_DEADLOCK FALSE
