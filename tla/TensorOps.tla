----------------------------- MODULE TensorOps -----------------------------
(***************************************************************************)
(* Reductions, elementwise operations and matrix products of tensors:      *)
(* src/src/tensor/core.rs, and the typed operations of add.rs, matmul.rs   *)
(* and broadcast_reduce.rs that the routes call.  Arithmetic is done in    *)
(* f64 whatever the dtype.  "div", "mean", "norm" and "std" leave the      *)
(* whole numbers and are left out: they share the traversal of the others. *)
(***************************************************************************)
EXTENDS Tensor

ReduceOp == {"sum", "product", "min", "max"}
BinaryOps == {"add", "sub", "mul", "and", "or", "xor"}

------------------------------------------------------------------------------
(* Reduction *)

\* One accumulator per output position; the first value starts it.
FreshAccum == [initialized |-> FALSE, sum |-> 0, product |-> 0, min |-> 0, max |-> 0]

\* Mutant of AccumUpdate: the extremes start from zero.
AccumUpdate_Zero(acc, v) ==
  [initialized |-> TRUE, sum |-> F64(acc.sum + v),
   product |-> IF acc.initialized THEN F64(acc.product * v) ELSE v,
   min |-> IF v < acc.min THEN v ELSE acc.min,
   max |-> IF v > acc.max THEN v ELSE acc.max]

AccumUpdate(acc, v) ==
  IF ~acc.initialized
  THEN [initialized |-> TRUE, sum |-> v, product |-> v, min |-> v, max |-> v]
  ELSE [acc EXCEPT !.sum = F64(@ + v), !.product = F64(@ * v),
                   !.min = IF v < @ THEN v ELSE @, !.max = IF v > @ THEN v ELSE @]

AccumFinalize(acc, op) ==
  CASE op = "sum" -> acc.sum [] op = "product" -> acc.product
    [] op = "min" -> acc.min [] op = "max" -> acc.max

\* Mutant of KeptAxes: axes are counted from one.
KeptAxes_FromOne(rank, axes) == Ascending({i \in 1..rank : i \notin axes})

\* The shape left when the axes of a mask are summed away, and the coordinate
\* of the output that an input coordinate falls on.
KeptAxes(rank, axes) == Ascending({i \in 1..rank : i - 1 \notin axes})
ReducedShape(shape, axes, keepdims) ==
  IF keepdims THEN [i \in DOMAIN shape |-> IF i - 1 \in axes THEN 1 ELSE shape[i]]
  ELSE LET kept == KeptAxes(Len(shape), axes) IN [j \in DOMAIN kept |-> shape[kept[j]]]
ReducedCoord(coord, axes, keepdims) ==
  IF keepdims THEN [i \in DOMAIN coord |-> IF i - 1 \in axes THEN 0 ELSE coord[i]]
  ELSE LET kept == KeptAxes(Len(coord), axes) IN [j \in DOMAIN kept |-> coord[kept[j]]]

ReduceAxes(t, op, axes, keepdims) ==
  LET values == ValuesF64(t)
      outShape == ReducedShape(t.shape, axes, keepdims)
      inStrides == Strides(t.shape)
      outStrides == Strides(outShape)
      target(i) ==
        OffsetFromCoord(ReducedCoord(CoordFromOffset(i - 1, t.shape, inStrides), axes, keepdims),
                        outStrides) + 1
      acc[i \in 0..Len(values)] ==
        IF i = 0 THEN [o \in 1..Size(outShape) |-> FreshAccum]
        ELSE [acc[i - 1] EXCEPT ![target(i)] = AccumUpdate(@, values[i])]
      out == [o \in 1..Size(outShape) |-> AccumFinalize(acc[Len(values)][o], op)]
  IN IF values = <<>> \/ \E a \in axes : a >= Len(t.shape) THEN Err
     ELSE IF outShape = <<>> THEN Scalar(out[1])
     ELSE FromF64Like(t.dtype, outShape, out)

\* Sum a gradient back to the shape it was broadcast from.
BroadcastReducible(input, target) ==
  /\ Len(target) <= Len(input)
  /\ \A i \in DOMAIN target :
       LET dim == input[Len(input) - Len(target) + i]
       IN dim = target[i] \/ (target[i] = 1 /\ dim > 1)

\* Mutant of BroadcastReduceAxes: the leading axes are not summed away.
BroadcastReduceAxes_Trailing(input, target) ==
  LET leading == Len(input) - Len(target)
  IN {leading + i - 1 : i \in {j \in DOMAIN target : target[j] # input[leading + j]}}

BroadcastReduceAxes(input, target) ==
  LET leading == Len(input) - Len(target)
  IN 0..(leading - 1) \cup
     {leading + i - 1 : i \in {j \in DOMAIN target : target[j] # input[leading + j]}}

BroadcastReduceSum(t, target) ==
  LET axes == BroadcastReduceAxes(t.shape, target)
      reduced == IF axes = {} THEN t ELSE ReduceAxes(t, "sum", axes, TRUE)
  IN IF ~(t.dtype \in Float /\ BroadcastReducible(t.shape, target)) THEN Err
     ELSE IF reduced.dtype \notin Dtype THEN Err
     ELSE Reshape(reduced, target)

------------------------------------------------------------------------------
(* Elementwise operations *)

\* core.rs aligns the two shapes by index from the right.
DimAt(shape, ndim, i) ==
  IF i > ndim - Len(shape) THEN shape[i - (ndim - Len(shape))] ELSE 1
MaxRank(left, right) == IF Len(left) > Len(right) THEN Len(left) ELSE Len(right)
Compatible(left, right) ==
  LET n == MaxRank(left, right)
  IN \A i \in 1..n : \/ DimAt(left, n, i) = DimAt(right, n, i)
                     \/ 1 \in {DimAt(left, n, i), DimAt(right, n, i)}
BroadcastShape(left, right) ==
  LET n == MaxRank(left, right)
  IN [i \in 1..n |-> IF DimAt(left, n, i) = 1 THEN DimAt(right, n, i) ELSE DimAt(left, n, i)]

Truth(b) == IF b THEN 1 ELSE 0
ApplyOp(op, l, r) ==
  CASE op = "add" -> F64(l + r)
    [] op = "sub" -> F64(l - r)
    [] op = "mul" -> F64(l * r)
    [] op = "and" -> Truth(l # 0 /\ r # 0)
    [] op = "or"  -> Truth(l # 0 \/ r # 0)
    [] op = "xor" -> Truth((l # 0) # (r # 0))

BinaryOp(left, right, op) ==
  LET lv == ValuesF64(left)
      rv == ValuesF64(right)
      value(coord) ==
        ApplyOp(op,
          lv[CoordOffset(left.shape, ProjectBroadcastIndex(coord, left.shape)) + 1],
          rv[CoordOffset(right.shape, ProjectBroadcastIndex(coord, right.shape)) + 1])
  IN IF ~Compatible(left.shape, right.shape) THEN Err
     ELSE LET shape == BroadcastShape(left.shape, right.shape)
          IN FromF64Like(left.dtype, shape, Fill(shape, value))

UnaryNot(t) ==
  LET values == ValuesF64(t)
  IN FromF64Like(t.dtype, t.shape, [i \in DOMAIN values |-> Truth(values[i] = 0)])

Cond(c, then, orElse) ==
  LET cv == ValuesF64(c)
      tv == ValuesF64(then)
      ev == ValuesF64(orElse)
      picks(i) == cv[IF Len(cv) = 1 THEN 1 ELSE i] # 0
  IN IF Len(tv) # Len(ev) \/ Len(cv) \notin {1, Len(tv)} THEN Err
     ELSE FromF64Like(then.dtype, then.shape, [i \in DOMAIN tv |-> IF picks(i) THEN tv[i] ELSE ev[i]])

\* The typed operations take two floats of one dtype.
ValidPair(left, right) == left.dtype \in Float /\ right.dtype = left.dtype

ExactShapeAdd(left, right) ==
  IF ValidPair(left, right) /\ left.shape = right.shape THEN BinaryOp(left, right, "add") ELSE Err

\* add.rs and matmul.rs count axes from the right and reverse the result.
DimFromRight(shape, i) == IF i < Len(shape) THEN shape[Len(shape) - i] ELSE 1
MergeDims(l, r) == IF l = r \/ r = 1 THEN l ELSE IF l = 1 THEN r ELSE -1
MergeFromRight(left, right) ==
  Reverse([i \in 1..MaxRank(left, right) |->
             MergeDims(DimFromRight(left, i - 1), DimFromRight(right, i - 1))])

BroadcastAdd(left, right) ==
  LET shape == MergeFromRight(left.shape, right.shape)
      l == Broadcast(left, shape)
      r == Broadcast(right, shape)
  IN IF ~ValidPair(left, right) THEN Err
     ELSE IF left.shape = right.shape THEN ExactShapeAdd(left, right)
     ELSE IF -1 \in Range(shape) \/ Err \in {l, r} THEN Err
     ELSE ExactShapeAdd(l, r)

------------------------------------------------------------------------------
(* Matrix products *)

Dot(n, Term(_)) ==
  LET sum[k \in 0..n] == IF k = 0 THEN 0 ELSE F64(sum[k - 1] + F64(Term(k - 1))) IN sum[n]

\* core.rs: two matrices of any dtypes.
Matmul(left, right) ==
  IF Len(left.shape) # 2 \/ Len(right.shape) # 2 THEN Err
  ELSE LET rows == left.shape[1]
           inner == left.shape[2]
           cols == right.shape[2]
           lv == ValuesF64(left)
           rv == ValuesF64(right)
           cell(i) ==
             Dot(inner, LAMBDA k : lv[(i \div cols) * inner + k + 1] * rv[k * cols + (i % cols) + 1])
       IN IF right.shape[1] # inner THEN Err
          ELSE FromF64Like(left.dtype, <<rows, cols>>, [i \in 1..(rows * cols) |-> cell(i - 1)])

\* Mutant of BroadcastBatchOffset: a batch of one is not repeated from the right axis.
BroadcastBatchOffset_Left(index, outBatch, srcBatch) ==
  LET out == Unravel(index, outBatch)
  IN CoordOffset(srcBatch, [i \in DOMAIN srcBatch |-> out[i] % srcBatch[i]])

BroadcastBatchOffset(index, outBatch, srcBatch) ==
  LET out == Unravel(index, outBatch)
      idx == [i \in DOMAIN srcBatch |->
                IF srcBatch[i] = 1 THEN 0 ELSE out[Len(outBatch) - Len(srcBatch) + i]]
  IN CoordOffset(srcBatch, idx)

\* matmul.rs: stacks of matrices, broadcast over the leading axes.
BatchedMatmul(left, right) ==
  IF ~ValidPair(left, right) \/ Len(left.shape) < 2 \/ Len(right.shape) < 2 THEN Err
  ELSE
  LET aRank == Len(left.shape)
      bRank == Len(right.shape)
      rows == left.shape[aRank - 1]
      inner == left.shape[aRank]
      cols == right.shape[bRank]
      aBatch == SubSeq(left.shape, 1, aRank - 2)
      bBatch == SubSeq(right.shape, 1, bRank - 2)
      batch == MergeFromRight(aBatch, bBatch)
      cell(i) ==
        LET b == i \div (rows * cols)
            row == (i \div cols) % rows
            col == i % cols
            a0 == BroadcastBatchOffset(b, batch, aBatch) * rows * inner
            b0 == BroadcastBatchOffset(b, batch, bBatch) * inner * cols
        IN Dot(inner, LAMBDA k : left.values[a0 + row * inner + k + 1]
                                 * right.values[b0 + k * cols + col + 1])
  IN IF right.shape[bRank - 1] # inner \/ -1 \in Range(batch) THEN Err
     ELSE LET shape == batch \o <<rows, cols>>
          IN IF left.dtype = "f32"
             THEN Dense("f32", shape, [i \in 1..Size(shape) |-> F32(cell(i - 1))])
             ELSE Dense("f64", shape, [i \in 1..Size(shape) |-> cell(i - 1)])
=============================================================================
