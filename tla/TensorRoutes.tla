---------------------------- MODULE TensorRoutes ----------------------------
(***************************************************************************)
(* The route family of a Tensor, src/src/tensor/route.rs: a caller holds a *)
(* tensor, calls one route of it after another, and goes on with the       *)
(* tensor it is answered.  A refused call leaves the tensor as it was.     *)
(***************************************************************************)
EXTENDS TensorOps

CONSTANTS Literals,   \* the parts of the tensors a behaviour starts from
          Operands,   \* the tensors passed as parameters
          ShapeArgs,  \* the shapes and axes passed as keys
          BoundArgs,  \* the bounds of an axis passed in a slice
          Numbers,    \* the numbers written
          MaxCalls    \* routes called in a behaviour

Coords(shape) ==
  LET C[i \in 0..Len(shape)] ==
        IF i = 0 THEN {<<>>} ELSE {Append(c, x) : c \in C[i - 1], x \in 0..(shape[i] - 1)}
  IN C[Len(shape)]

InWidth(dtype, v) ==
  CASE dtype = "f32" -> v = F32(v) [] dtype = "f64" -> v = F64(v) [] dtype = "u64" -> v \in 0..U64Max

\* A tensor has one value per coordinate, each within the width of its dtype.
IsTensor(t) ==
  /\ t \in [dtype : Dtype, shape : Seq(Nat), values : Seq(Int)]
  /\ Len(t.values) = Cardinality(Coords(t.shape))
  /\ \A i \in DOMAIN t.values : InWidth(t.dtype, t.values[i])

\* What the types of the code's parameters promise.
ASSUME InputAssumption ==
  /\ \A p \in Literals : p.shape \in Seq(Nat) /\ p.values \in Seq(Int \cup {Complex})
  /\ \A t \in Operands : IsTensor(t)
  /\ ShapeArgs \subseteq Seq(Nat)
  /\ \A b \in BoundArgs :
       b.at \in BOOLEAN /\ b.args \in Seq(Int) /\ (b.at => Len(b.args) = 1)
  /\ Numbers \subseteq Int \cup {Complex}

VARIABLES tensor,     \* the tensor the caller holds
          reply,      \* how the last call was answered
          calls

vars == <<tensor, reply, calls>>

Init ==
  /\ \E p \in Literals : tensor = TensorFromParts(p.dtype, p.shape, p.values)
  /\ tensor # Err
  /\ reply = "none"
  /\ calls = 0

\* A number is answered as a value, a tensor as a collection.
Answer(result) ==
  /\ calls < MaxCalls
  /\ calls' = calls + 1
  /\ reply' = IF result.dtype \in Dtype THEN "tensor" ELSE result.dtype
  /\ tensor' = IF result.dtype \in Dtype THEN result ELSE tensor

Truthy(t, all) ==
  Scalar(Truth(IF all THEN \A i \in DOMAIN t.values : t.values[i] # 0
               ELSE \E i \in DOMAIN t.values : t.values[i] # 0))

AxesOf(t) == {i - 1 : i \in DOMAIN t.shape}

GetSlice == \E n \in 0..3 : \E bounds \in [1..n -> BoundArgs] : Answer(Slice(tensor, bounds))
GetBroadcast == \E s \in ShapeArgs : Answer(Broadcast(tensor, s))
GetCast == \E d \in Dtype \cup {"i32"} : Answer(Cast(tensor, d))
GetExpandDims ==
  \/ Answer(ExpandLast(tensor))
  \/ \E axes \in ShapeArgs : Answer(ExpandDims(tensor, axes))
GetReshape == \E s \in ShapeArgs : Answer(Reshape(tensor, s))
GetTranspose == \E perm \in ShapeArgs : Answer(TensorTranspose(tensor, perm))
PostTruthy == \E all \in BOOLEAN : Answer(Truthy(tensor, all))
PostCond == \E then, orElse \in Operands : Answer(Cond(tensor, then, orElse))
PostReduce ==
  \E op \in ReduceOp, keepdims \in BOOLEAN :
    \E axes \in {AxesOf(tensor)} \cup SUBSET (0..2) : Answer(ReduceAxes(tensor, op, axes, keepdims))
PostBroadcastReduce == \E s \in ShapeArgs : Answer(BroadcastReduceSum(tensor, s))
PostMatmul == \E r \in Operands : Answer(BatchedMatmul(tensor, r))
PostAdd == \E r \in Operands : Answer(BroadcastAdd(tensor, r))
PostBinary ==
  \E r \in Operands, op \in BinaryOps \ {"add"} : Answer(BinaryOp(tensor, r, op))
PostNot == Answer(UnaryNot(tensor))

\* Not routes: the owner of a tensor reads and writes one value of it.
Read == \E c \in ShapeArgs : Answer(ReadValue(tensor, c))
Write == \E c \in ShapeArgs, n \in Numbers : Answer(WriteValue(tensor, c, n))

Next ==
  \/ GetSlice \/ GetBroadcast \/ GetCast \/ GetExpandDims \/ GetReshape \/ GetTranspose
  \/ PostTruthy \/ PostCond \/ PostReduce \/ PostBroadcastReduce
  \/ PostMatmul \/ PostAdd \/ PostBinary \/ PostNot
  \/ Read \/ Write

Spec == Init /\ [][Next]_vars

------------------------------------------------------------------------------
(* Properties *)

\* Every tensor a route answers is one: no value is missing or read from outside
\* the buffer, and each is within its dtype, though results travel through f64.
WellFormed == IsTensor(tensor)

\* The four ways the code goes between a coordinate and its place in the buffer
\* (offset with strides, offset without, and their two inverses) agree.
OffsetsAgree ==
  LET strides == Strides(tensor.shape) IN
  \A c \in Coords(tensor.shape) :
    LET offset == CoordOffset(tensor.shape, c) IN
    /\ offset < Len(tensor.values)
    /\ OffsetFromCoord(c, strides) = offset
    /\ CoordFromOffset(offset, tensor.shape, strides) = c
    /\ Unravel(offset, tensor.shape) = c

\* What a shape broadcast to another means: an axis counted from the right is
\* the same axis, and a missing or single axis is repeated.
Repeated(t, coord) ==
  LET skip == Len(coord) - Len(t.shape)
  IN F64(At(t, [i \in DOMAIN t.shape |-> IF t.shape[i] = 1 THEN 0 ELSE coord[skip + i]]))

\* An elementwise operation of two tensors of different shapes is the operation
\* of the two tensors broadcast to a common shape, coordinate by coordinate; it
\* is refused just when there is no such shape, and the typed add, which has its
\* own shape rule, answers the same.
ElementwiseMeaning ==
  \A r \in Operands :
    LET shape == BroadcastShape(tensor.shape, r.shape)
        diff == BinaryOp(tensor, r, "sub")
    IN /\ diff # Err <=> CanBroadcastTo(tensor.shape, shape) /\ CanBroadcastTo(r.shape, shape)
       /\ diff # Err =>
            /\ diff.shape = shape
            /\ diff.dtype = "f64" => \A c \in Coords(shape) :
                 At(diff, c) = F64(Repeated(tensor, c) - Repeated(r, c))
            /\ Broadcast(tensor, shape).shape = shape
       /\ ValidPair(tensor, r) => BroadcastAdd(tensor, r) = BinaryOp(tensor, r, "add")

\* The sum or the product of whole numbers, and how far any part of it may get from zero.
Unit(op) == IF op = "product" THEN 1 ELSE 0
Both(op, x, y) == IF op = "product" THEN x * y ELSE x + y
Combined(op, n, f) ==
  LET c[k \in 0..n] == IF k = 0 THEN Unit(op) ELSE Both(op, c[k - 1], f[k]) IN c[n]
Reach(op, v) == IF op = "product" /\ v = 0 THEN 1 ELSE Abs(v)

\* Whatever values of a tensor are summed or multiplied, its dtype holds the result.
Exact(op, t) ==
  /\ t.dtype \in Float
  /\ Combined(op, Len(t.values), [k \in 1..Len(t.values) |-> Reach(op, t.values[k])])
       <= (IF t.dtype = "f32" THEN F32Exact ELSE F64Exact)

Inner(left, right) ==
  Combined("sum", Len(left.values), [k \in 1..Len(left.values) |-> left.values[k] * right.values[k]])

\* broadcast_reduce undoes broadcast the way a gradient needs: it accepts every
\* shape that broadcasts to the tensor's, and summing x broadcast against a
\* gradient is summing x against the gradient reduced to x's shape.
BroadcastReduceIsAdjoint ==
  \A x \in Operands :
    Exact("sum", tensor) /\ x.dtype \in Float /\ tensor.values # <<>> /\ CanBroadcastTo(x.shape, tensor.shape)
    => LET reduced == BroadcastReduceSum(tensor, x.shape)
       IN /\ reduced # Err /\ reduced.shape = x.shape
          /\ Inner(Broadcast(x, tensor.shape), tensor) = Inner(x, reduced)

\* The entry at row i and column j of the matrix of t that falls at a batch position.
Entry(t, coord, i, j) ==
  LET n == Len(t.shape)
      skip == Len(coord) - n
  IN At(t, [a \in 1..n |-> IF a = n - 1 THEN i ELSE IF a = n THEN j
                           ELSE IF t.shape[a] = 1 THEN 0 ELSE coord[skip + a]])

\* A batched product is, at every position of the batch, the product of the two
\* matrices broadcast to it; on two matrices it is the unbatched product, whose
\* transpose is the product of the transposes in the other order.
BatchedMatmulIsMatmul ==
  \A r \in Operands :
    LET p == BatchedMatmul(tensor, r)
        n == Len(p.shape)
        inner == tensor.shape[Len(tensor.shape)]
    IN p # Err =>
       /\ p.dtype = "f64" => \A c \in Coords(p.shape) :
            At(p, c) = Dot(inner, LAMBDA k : Entry(tensor, c, c[n - 1], k) * Entry(r, c, k, c[n]))
       /\ Len(tensor.shape) = 2 /\ Len(r.shape) = 2 =>
            /\ p = Matmul(tensor, r)
            /\ Reversed(p) = Matmul(Reversed(r), Reversed(tensor))

\* Reducing several axes at once is reducing them one after the other, and dropping
\* the reduced axes changes the shape alone.
ReduceAxisByAxis ==
  Exact("sum", tensor) /\ tensor.values # <<>> =>
    \A op \in ReduceOp, a \in AxesOf(tensor), b \in AxesOf(tensor) :
      (op = "product" => Exact(op, tensor)) =>
      LET both == ReduceAxes(tensor, op, {a, b}, TRUE)
      IN /\ both = ReduceAxes(ReduceAxes(tensor, op, {a}, TRUE), op, {b} \ {a}, TRUE)
         /\ both.values = ReduceAxes(tensor, op, {a, b}, FALSE).values

\* The extremes over any axes, with or without those axes in the shape, are at each
\* place values of the tensor that fall on it, and none that does passes them.
ExtremesOf(t) ==
  \A axes \in SUBSET AxesOf(t), keepdims \in BOOLEAN :
    LET least == ReduceAxes(t, "min", axes, keepdims)
        greatest == ReduceAxes(t, "max", axes, keepdims)
        falls(o) == {c \in Coords(t.shape) : ReducedCoord(c, axes, keepdims) = o}
    IN \A o \in Coords(ReducedShape(t.shape, axes, keepdims)) :
         /\ \E c, d \in falls(o) : At(least, o) = At(t, c) /\ At(greatest, o) = At(t, d)
         /\ \A c \in falls(o) : At(least, o) <= At(t, c) /\ At(t, c) <= At(greatest, o)

\* Reductions to an extreme are what they should be.  The code takes sums and products
\* on the way, and rounds them: a run keeps to values whose sum is exact.
ExtremesAreValues == Exact("sum", tensor) /\ tensor.values # <<>> => ExtremesOf(tensor)

\* Changing the shape keeps every value: the detour through f64 is exact for
\* floats, and for u64 up to the last whole number f64 holds.
ShapeChangeKeepsValues ==
  (\A i \in DOMAIN tensor.values : tensor.values[i] <= F64Exact) =>
    LET flat == Reshape(tensor, <<Len(tensor.values)>>)
    IN /\ Reshape(flat, tensor.shape) = tensor
       /\ \A axes \in ShapeArgs :
            LET wide == ExpandDims(tensor, axes)
            IN wide # Err => Reshape(wide, tensor.shape) = tensor

\* A value written is the value read back, as its dtype holds it, and no other
\* value of the tensor changes.
WriteIsLocal ==
  \A c, d \in Coords(tensor.shape), n \in Numbers :
    LET written == WriteValue(tensor, c, n)
    IN written # Err =>
         ReadValue(written, d) =
           IF c = d THEN Scalar(ToComponent(tensor.dtype, n)) ELSE ReadValue(tensor, d)
=============================================================================
