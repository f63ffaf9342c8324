------------------------------- MODULE Tensor -------------------------------
(***************************************************************************)
(* The in-memory Tensor of src/src/tensor: shapes, coordinates, broadcast, *)
(* reduction and matrix products over row-major buffers.  A tensor is its  *)
(* dtype, its shape and its flattened values; the values are whole numbers *)
(* and the widths of f32, f64 and u64 are parameters, so that a value too  *)
(* wide for a float is rounded the way the code's detour through f64 does. *)
(***************************************************************************)
EXTENDS Integers, Sequences, FiniteSets, SequencesExt, Sorting

CONSTANTS F32Exact,  \* f32 holds every whole number up to this one (2^24)
          F64Exact,  \* f64 holds every whole number up to this one (2^53)
          U64Max,    \* the greatest u64
          Complex    \* a complex number

ASSUME WidthAssumption ==
  /\ F32Exact \in Nat /\ F64Exact \in Nat /\ U64Max \in Nat
  /\ 0 < F32Exact /\ F32Exact < F64Exact /\ F64Exact < U64Max

Dtype == {"f32", "f64", "u64"}
Float == {"f32", "f64"}

\* An operation fails, or answers a number instead of a tensor.
Err == [dtype |-> "error", shape |-> <<>>, values |-> <<>>]
Scalar(v) == [dtype |-> "number", shape |-> <<>>, values |-> <<v>>]

------------------------------------------------------------------------------
(* Values *)

Abs(v) == IF v < 0 THEN -v ELSE v

\* The nearest float, ties to even: above exact, floats are ulp apart.
Round(exact, v) ==
  LET ulp[u \in Nat] == IF Abs(v) <= exact * u THEN u ELSE ulp[2 * u]
      u == ulp[1]
      q == Abs(v) \div u
      r == Abs(v) % u
      a == u * (IF 2 * r > u \/ (2 * r = u /\ q % 2 = 1) THEN q + 1 ELSE q)
  IN IF Abs(v) <= exact THEN v ELSE IF v < 0 THEN -a ELSE a

F32(v) == Round(F32Exact, v)
F64(v) == Round(F64Exact, v)
Saturate(v) == IF v < 0 THEN 0 ELSE IF v > U64Max THEN U64Max ELSE v

Size(shape) ==
  LET p[i \in 0..Len(shape)] == IF i = 0 THEN 1 ELSE p[i - 1] * shape[i]
  IN p[Len(shape)]

\* Mutant of Dense: the buffer is taken as it comes.
Dense_Unchecked(dtype, shape, values) ==
  [dtype |-> dtype, shape |-> shape, values |-> values]

\* dense_f32, dense_f64 and dense_u64.
Dense(dtype, shape, values) ==
  IF Len(values) = Size(shape)
  THEN [dtype |-> dtype, shape |-> shape, values |-> values] ELSE Err

ValuesF64(t) ==
  IF t.dtype = "u64" THEN [i \in DOMAIN t.values |-> F64(t.values[i])] ELSE t.values

\* The result of an operation keeps the dtype of its receiver, save that a u64
\* tensor with a value u64 cannot hold becomes f32.
Whole(values) == \A i \in DOMAIN values : values[i] >= 0
\* Mutant of FromF64Like: every integral result is made u64's sibling f32.
FromF64Like_Narrow(dtype, shape, values) ==
  Dense(IF dtype = "u64" THEN "f32" ELSE dtype, shape,
        [i \in DOMAIN values |-> IF dtype = "f64" THEN values[i] ELSE F32(values[i])])

FromF64Like(dtype, shape, values) ==
  IF dtype = "f64" THEN Dense("f64", shape, values)
  ELSE IF dtype = "u64" /\ Whole(values)
  THEN Dense("u64", shape, [i \in DOMAIN values |-> Saturate(values[i])])
  ELSE Dense("f32", shape, [i \in DOMAIN values |-> F32(values[i])])

Cast(t, dtype) ==
  LET values == ValuesF64(t) IN
  IF dtype \notin Dtype THEN Err
  ELSE IF dtype = t.dtype THEN t
  ELSE IF dtype = "u64" /\ ~Whole(values) THEN Err
  ELSE Dense(dtype, t.shape, [i \in DOMAIN values |->
         CASE dtype = "f32" -> F32(values[i])
           [] dtype = "f64" -> values[i]
           [] dtype = "u64" -> Saturate(values[i])])

\* Numbers from the wire or a request.
EnsureNonComplex(n) == n # Complex
EnsureU64Component(n) == n # Complex /\ n >= 0
Component(dtype, n) == IF dtype = "u64" THEN EnsureU64Component(n) ELSE EnsureNonComplex(n)
ToComponent(dtype, n) ==
  CASE dtype = "f32" -> F32(n) [] dtype = "f64" -> F64(n) [] dtype = "u64" -> Saturate(n)

TensorFromParts(dtype, shape, numbers) ==
  IF dtype \in Dtype /\ \A i \in DOMAIN numbers : Component(dtype, numbers[i])
  THEN Dense(dtype, shape, [i \in DOMAIN numbers |-> ToComponent(dtype, numbers[i])])
  ELSE Err

------------------------------------------------------------------------------
(* Coordinates count from 0; an axis is counted from 1 here and from 0 in the
   code, so that axis a of the code is shape[a + 1]. *)

CoordOk(shape, coord) ==
  Len(coord) = Len(shape) /\ \A i \in DOMAIN shape : coord[i] < shape[i]

\* Mutant of CoordOffset: the stride is the last dimension, not the product.
CoordOffset_Last(shape, coord) ==
  LET walk[i \in 1..(Len(shape) + 1)] ==
        IF i = Len(shape) + 1 THEN [offset |-> 0, stride |-> 1]
        ELSE LET right == walk[i + 1]
             IN [offset |-> right.offset + coord[i] * right.stride, stride |-> shape[i]]
  IN walk[1].offset

CoordOffset(shape, coord) ==
  LET walk[i \in 1..(Len(shape) + 1)] ==
        IF i = Len(shape) + 1 THEN [offset |-> 0, stride |-> 1]
        ELSE LET right == walk[i + 1]
             IN [offset |-> right.offset + coord[i] * right.stride,
                 stride |-> right.stride * shape[i]]
  IN walk[1].offset

Unravel(index, shape) ==
  LET rest[i \in 1..Len(shape)] ==
        IF i = Len(shape) THEN index ELSE rest[i + 1] \div shape[i + 1]
  IN [i \in 1..Len(shape) |-> rest[i] % shape[i]]

\* Mutant of Strides: the stride of an axis takes its own dimension in.
Strides_Own(shape) ==
  LET s[i \in 1..Len(shape)] == IF i = Len(shape) THEN 1 ELSE s[i + 1] * shape[i]
  IN [i \in 1..Len(shape) |-> s[i]]

Strides(shape) ==
  LET s[i \in 1..Len(shape)] == IF i = Len(shape) THEN 1 ELSE s[i + 1] * shape[i + 1]
  IN [i \in 1..Len(shape) |-> s[i]]

CoordFromOffset(offset, shape, strides) ==
  LET rem[i \in 1..Len(shape)] ==
        IF i = 1 THEN offset ELSE rem[i - 1] % strides[i - 1]
  IN [i \in 1..Len(shape) |-> rem[i] \div strides[i]]

OffsetFromCoord(coord, strides) ==
  LET sum[i \in 0..Len(coord)] == IF i = 0 THEN 0 ELSE sum[i - 1] + coord[i] * strides[i]
  IN sum[Len(coord)]

At(t, coord) == t.values[CoordOffset(t.shape, coord) + 1]

\* A buffer filled coordinate by coordinate in row-major order.
Fill(shape, F(_)) == [i \in 1..Size(shape) |-> F(Unravel(i - 1, shape))]

ReadValue(t, coord) == IF CoordOk(t.shape, coord) THEN Scalar(At(t, coord)) ELSE Err

WriteValue(t, coord, n) ==
  IF CoordOk(t.shape, coord) /\ Component(t.dtype, n)
  THEN [t EXCEPT !.values[CoordOffset(t.shape, coord) + 1] = ToComponent(t.dtype, n)]
  ELSE Err

------------------------------------------------------------------------------
(* Shapes *)

Reshape(t, shape) ==
  IF Size(shape) = Size(t.shape) THEN FromF64Like(t.dtype, shape, ValuesF64(t)) ELSE Err

\* Each axis is inserted in the shape the earlier ones have left.
ExpandDims(t, axes) ==
  LET left[i \in 0..Len(axes)] ==
        IF i = 0 THEN t.shape
        ELSE IF left[i - 1] = <<-1>> \/ axes[i] > Len(left[i - 1]) THEN <<-1>>
        ELSE InsertAt(left[i - 1], axes[i] + 1, 1)
      shape == left[Len(axes)]
  IN IF shape = <<-1>> THEN Err ELSE FromF64Like(t.dtype, shape, ValuesF64(t))
ExpandLast(t) == FromF64Like(t.dtype, Append(t.shape, 1), ValuesF64(t))

CanBroadcastTo(source, target) ==
  /\ Len(source) <= Len(target)
  /\ \A i \in DOMAIN source :
       source[i] \in {1, target[Len(target) - Len(source) + i]}

\* Mutant of ProjectBroadcastIndex: shapes are aligned at the left.
Project_Left(coord, source) ==
  [i \in DOMAIN source |-> IF source[i] = 1 THEN 0 ELSE coord[i] % source[i]]

ProjectBroadcastIndex(coord, source) ==
  [i \in DOMAIN source |->
     IF source[i] = 1 THEN 0 ELSE coord[Len(coord) - Len(source) + i]]

Broadcast(t, shape) ==
  IF ~CanBroadcastTo(t.shape, shape) THEN Err
  ELSE LET source == ValuesF64(t)
           value(coord) ==
             source[CoordOffset(t.shape, ProjectBroadcastIndex(coord, t.shape)) + 1]
       IN FromF64Like(t.dtype, shape, Fill(shape, value))

ValidPermutation(rank, perm) ==
  /\ Len(perm) = rank
  /\ \A i \in DOMAIN perm : perm[i] < rank
  /\ \A i, j \in DOMAIN perm : perm[i] = perm[j] => i = j

TransposeOutputShape(shape, perm) == [i \in DOMAIN perm |-> shape[perm[i] + 1]]

\* The backend moves the values of any dtype unconverted.
TransposeArray(t, perm) ==
  LET shape == TransposeOutputShape(t.shape, perm)
      value(coord) ==
        At(t, [a \in DOMAIN t.shape |->
                 LET i == CHOOSE j \in DOMAIN perm : perm[j] = a - 1 IN coord[i]])
  IN Dense(t.dtype, shape, Fill(shape, value))

TensorTranspose(t, perm) ==
  IF ValidPermutation(Len(t.shape), perm) THEN TransposeArray(t, perm) ELSE Err
Reversed(t) == TransposeArray(t, [i \in DOMAIN t.shape |-> Len(t.shape) - i])

\* A bound of a request is an index, [at |-> TRUE, args |-> <<i>>], or a range,
\* [at |-> FALSE, args |-> <<start>>, <<start, stop>> or <<start, stop, step>>].
AxisStart(bound) == bound[1]
AxisStop(bound, dim) == IF Len(bound) >= 2 THEN bound[2] ELSE dim
AxisStep(bound) == IF Len(bound) = 3 THEN bound[3] ELSE 1

AxisRangeOk(bound, dim) ==
  /\ \A i \in DOMAIN bound.args : bound.args[i] >= 0
  /\ IF bound.at THEN bound.args[1] < dim
     ELSE /\ Len(bound.args) \in 1..3
          /\ AxisStep(bound.args) # 0
          /\ AxisStart(bound.args) <= AxisStop(bound.args, dim)
          /\ AxisStop(bound.args, dim) <= dim

RangeOk(bounds, shape) ==
  Len(bounds) = Len(shape) /\ \A i \in DOMAIN shape : AxisRangeOk(bounds[i], shape[i])

\* The backend drops the axes bounded by an index; ranges are taken whole steps
\* at a time.
SliceArray(t, bounds) ==
  LET kept == Ascending({i \in DOMAIN t.shape : ~bounds[i].at})
      rank == {j \in DOMAIN kept : TRUE}
      shape == [j \in DOMAIN kept |->
                  LET b == bounds[kept[j]].args
                  IN (AxisStop(b, t.shape[kept[j]]) - AxisStart(b)) \div AxisStep(b)]
      value(coord) ==
        At(t, [a \in DOMAIN t.shape |->
                 IF bounds[a].at THEN bounds[a].args[1]
                 ELSE LET j == CHOOSE k \in rank : kept[k] = a
                      IN AxisStart(bounds[a].args) + coord[j] * AxisStep(bounds[a].args)])
  IN Dense(t.dtype, shape, Fill(shape, value))

Slice(t, bounds) == IF RangeOk(bounds, t.shape) THEN SliceArray(t, bounds) ELSE Err
=============================================================================
