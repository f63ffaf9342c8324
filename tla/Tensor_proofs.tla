----------------------------- MODULE Tensor_proofs -----------------------------
(***************************************************************************)
(* The Tensor, for any rank, dimensions and widths.                        *)
(***************************************************************************)
EXTENDS TensorRoutes, InductionLemmas, FunctionTheorems, FiniteSetTheorems

Shapes == Seq(Nat)

-----------------------------------------------------------------------------
(* Quotients and remainders of a place in a buffer. *)

\* Quotient and remainder, and that they are the only ones.
LEMMA DivMod ==
  ASSUME NEW x \in Nat, NEW b \in Nat, 0 < b
  PROVE  /\ x \div b \in Nat /\ x % b \in Nat /\ x % b < b
         /\ x = b * (x \div b) + (x % b)
<1>1. x = b * (x \div b) + (x % b)
  OBVIOUS
<1>2. x % b \in 0 .. (b-1)
  OBVIOUS
<1>3. x \div b \in Int
  OBVIOUS
<1>4. x \div b >= 0
  <2> DEFINE q == x \div b
             r == x % b
  <2>1. q \in Int /\ r \in 0 .. (b-1) /\ x = b * q + r
    BY <1>1, <1>2, <1>3
  <2> HIDE DEF q, r
  <2>2. ASSUME q <= -1 PROVE FALSE
    <3>1. b * q <= b * (-1)
      BY <2>1, <2>2
    <3> QED
      BY <2>1, <3>1
  <2> QED
    BY <2>1, <2>2 DEF q
<1> QED
  BY <1>1, <1>2, <1>3, <1>4

\* No other pair will do.
LEMMA DivModUnique ==
  ASSUME NEW q \in Nat, NEW r \in Nat, NEW b \in Nat, r < b
  PROVE  (b * q + r) \div b = q /\ (b * q + r) % b = r
  OBVIOUS

\* Dividing by a product is dividing twice.
LEMMA DivModProduct ==
  ASSUME NEW x \in Nat, NEW a \in Nat, NEW b \in Nat, 0 < a, 0 < b
  PROVE  /\ (x \div b) \div a = x \div (a * b)
         /\ (x % (a * b)) % b = x % b
         /\ (x % (a * b)) \div b = (x \div b) % a
<1> DEFINE q == x \div b
           r == x % b
           p == q \div a
           t == q % a
<1>1. /\ q \in Nat /\ r \in Nat /\ r < b /\ x = b * q + r
      /\ p \in Nat /\ t \in Nat /\ t < a /\ q = a * p + t
  <2>1. q \in Nat /\ r \in Nat /\ r < b /\ x = b * q + r
    BY DivMod
  <2> HIDE DEF q
  <2> QED
    BY <2>1, DivMod
<1> HIDE DEF r, t, p, q
<1>2. b * t + r \in Nat /\ b * t + r < a * b
  <2>1. t + 1 <= a 
    BY <1>1
  <2>2. b * (t + 1) <= b * a /\ b * (t + 1) = b * t + b /\ b * a = a * b
    BY <1>1, <2>1
  <2>3. b * t \in Nat /\ a * b \in Nat
    BY <1>1
  <2> QED
    BY <1>1, <2>2, <2>3
<1>3. x = (a * b) * p + (b * t + r)
  BY <1>1
<1>4. a * b \in Nat
  OBVIOUS
<1>5. x \div (a * b) = p /\ x % (a * b) = b * t + r
  BY <1>1, <1>2, <1>3, <1>4, DivModUnique
<1>6. (b * t + r) % b = r /\ (b * t + r) \div b = t
  BY <1>1, DivModUnique
<1> QED
  BY <1>5, <1>6 DEF r, t, p, q

-----------------------------------------------------------------------------
(* Products of dimensions.  Blocks(s)[i] is how many values one step along *)
(* axis i - 1 passes: the product of the dimensions from axis i on.        *)

IsBlocks(s, b) ==
  /\ b \in [1 .. (Len(s) + 1) -> Nat]
  /\ b[Len(s) + 1] = 1
  /\ \A i \in 1 .. Len(s) : b[i] = s[i] * b[i + 1]
Blocks(s) == CHOOSE b : IsBlocks(s, b)

\* The products from the right exist.
LEMMA BlocksExist ==
  ASSUME NEW s \in Shapes
  PROVE  IsBlocks(s, Blocks(s))
<1> DEFINE F == [i \in 1 .. Len(s) |-> [x \in Nat |-> s[i] * x]]
<1>1. F \in Steps(1 .. Len(s), Nat) /\ Len(s) \in Nat
  BY DEF Steps, Shapes
<1>2. \A i \in 1 .. Len(s), x \in Nat : F[i][x] = s[i] * x
  OBVIOUS
<1> HIDE DEF F
<1>3. RecursFrom(Len(s), Nat, 1, F)
  BY <1>1, DownwardRecursion
<1>4. \E b : IsBlocks(s, b)
  BY <1>1, <1>2, <1>3 DEF RecursFrom, IsBlocks
<1> QED
  BY <1>4 DEF Blocks

\* The products from the left, as the loop of Size makes them.
Sizes(s) == CHOOSE p : p = [i \in 0 .. Len(s) |-> IF i = 0 THEN 1 ELSE p[i - 1] * s[i]]

\* The loop of Size multiplies the dimensions one by one.
LEMMA SizesExist ==
  ASSUME NEW s \in Shapes
  PROVE  /\ Size(s) = Sizes(s)[Len(s)] /\ Size(s) \in Nat
         /\ Sizes(s)[0] = 1
         /\ \A i \in 0 .. Len(s) : Sizes(s)[i] \in Nat
         /\ \A i \in 1 .. Len(s) : Sizes(s)[i] = Sizes(s)[i - 1] * s[i]
<1> DEFINE n == Len(s)
           F == [i \in 1 .. n |-> [x \in Nat |-> x * s[i]]]
           Is(f) == f = [i \in 0 .. n |-> IF i = 0 THEN 1 ELSE f[i - 1] * s[i]]
           p == CHOOSE f : Is(f)
           S == {i \in 0 .. n : p[i] \in Nat}
<1>1. F \in Steps(1 .. n, Nat) /\ n \in Nat
  BY DEF Steps, Shapes
<1>2. \A i \in 1 .. n, x \in Nat : F[i][x] = x * s[i]
  OBVIOUS
<1>3. RecursTo(n, Nat, 1, F)
  <2> HIDE DEF F, n
  <2> QED
    BY <1>1, FiniteRecursion
<1>4. PICK f \in [0 .. n -> Nat] : f[0] = 1 /\ \A i \in 1 .. n : f[i] = F[i][f[i - 1]]
  BY <1>3 DEF RecursTo
<1>5. Is(f)
  <2> HIDE DEF F
  <2>1. \A i \in 1 .. n : f[i] = f[i - 1] * s[i]
    BY <1>1, <1>2, <1>4
  <2> QED
    BY <1>1, <1>4, <2>1
<1>6. Is(p)
  <2> HIDE DEF Is
  <2> QED
    BY <1>5
<1>7. Size(s) = p[n]
  BY DEF Size
<1>8. p = Sizes(s)
  BY DEF Sizes
<1> HIDE DEF p, F
<1>9. p[0] = 1 /\ \A i \in 1 .. n : p[i] = p[i - 1] * s[i]
  BY <1>1, <1>6
<1>10. 0 \in S
  BY <1>1, <1>9
<1>11. ASSUME NEW i \in 0 .. (n - 1), i \in S PROVE i + 1 \in S
  <2>1. i + 1 \in 1 .. n /\ (i + 1) - 1 = i /\ i + 1 \in 0 .. n
    BY <1>1
  <2>2. s[i + 1] \in Nat /\ p[i] \in Nat
    BY <1>11, <2>1 DEF Shapes
  <2>3. p[i + 1] = p[i] * s[i + 1]
    BY <1>9, <2>1
  <2> QED
    BY <2>1, <2>2, <2>3
<1>12. \A i \in 0 .. n : p[i] \in Nat
  <2> HIDE DEF S
  <2>1. \A i \in 0 .. n : i \in S
    BY <1>1, <1>10, <1>11, UpTo
  <2> QED
    BY <2>1 DEF S
<1> QED
  BY <1>1, <1>7, <1>8, <1>9, <1>12

\* Multiplying from the left comes to the same as from the right.
LEMMA SizeIsBlocks ==
  ASSUME NEW s \in Shapes
  PROVE  Size(s) = Blocks(s)[1] /\ Size(s) \in Nat
<1> DEFINE n == Len(s)
           p == Sizes(s)
<1>1. n \in Nat
  BY DEF Shapes
<1>2. p[0] = 1 /\ \A i \in 0 .. n : p[i] \in Nat
  BY SizesExist
<1>3. \A i \in 1 .. n : p[i] = p[i - 1] * s[i]
  BY SizesExist
<1>4. Size(s) = p[n]
  BY SizesExist
<1> HIDE DEF p
<1> DEFINE b == Blocks(s)
           S == {i \in 0 .. n : p[i] \in Nat /\ p[i] * b[i + 1] = b[1]}
<1>5. IsBlocks(s, b)
  BY BlocksExist
<1> HIDE DEF b
<1>6. 0 \in S
  BY <1>1, <1>2, <1>5 DEF IsBlocks
<1>7. ASSUME NEW i \in 0 .. (n - 1), i \in S PROVE i + 1 \in S
  <2>1. p[i + 1] = p[i] * s[i + 1]
    <3>1. i + 1 \in 1 .. n /\ (i + 1) - 1 = i
      BY <1>1
    <3> QED
      BY <1>3, <3>1
  <2>2. i + 1 \in 1 .. n /\ (i + 1) + 1 \in 1 .. (n + 1)
    BY <1>1
  <2>3. b[i + 1] = s[i + 1] * b[(i + 1) + 1] /\ b[(i + 1) + 1] \in Nat /\ b[1] \in Nat
    BY <1>1, <1>5, <2>2 DEF IsBlocks
  <2>4. s[i + 1] \in Nat
    BY <2>2 DEF Shapes
  <2>5. p[i] \in Nat /\ p[i] * b[i + 1] = b[1]
    BY <1>7
  <2>6. (p[i] * s[i + 1]) * b[(i + 1) + 1] = b[1]
    BY <2>3, <2>4, <2>5
  <2> QED
    BY <1>1, <2>1, <2>2, <2>4, <2>5, <2>6
<1>8. n \in S
  <2> HIDE DEF S
  <2>1. \A i \in 0 .. n : i \in S
    BY <1>1, <1>6, <1>7, UpTo
  <2> QED
    BY <1>1, <2>1
<1>9. p[n] \in Nat /\ p[n] * b[n + 1] = b[1] /\ b[n + 1] = 1
  BY <1>5, <1>8 DEF IsBlocks
<1> QED
  BY <1>4, <1>9 DEF b


-----------------------------------------------------------------------------
(* Offsets.  Offsets(s, c)[i] is what axes from i on add to the place of a *)
(* coordinate; it is less than their block.                                *)

Coordinates(s) == {c \in [1 .. Len(s) -> Nat] : \A i \in 1 .. Len(s) : c[i] < s[i]}

IsOffsets(s, c, o) ==
  /\ o \in [1 .. (Len(s) + 1) -> Nat]
  /\ o[Len(s) + 1] = 0
  /\ \A i \in 1 .. Len(s) : o[i] = o[i + 1] + c[i] * Blocks(s)[i + 1]
Offsets(s, c) == CHOOSE o : IsOffsets(s, c, o)

\* The sums from the right exist.
LEMMA OffsetsExist ==
  ASSUME NEW s \in Shapes, NEW c \in [1 .. Len(s) -> Nat]
  PROVE  IsOffsets(s, c, Offsets(s, c))
<1> DEFINE b == Blocks(s)
           F == [i \in 1 .. Len(s) |-> [x \in Nat |-> x + c[i] * b[i + 1]]]
<1>1. Len(s) \in Nat /\ IsBlocks(s, b)
  BY BlocksExist DEF Shapes
<1> HIDE DEF b
<1>2. ASSUME NEW i \in 1 .. Len(s), NEW x \in Nat PROVE x + c[i] * b[i + 1] \in Nat
  <2>1. b[i + 1] \in Nat /\ c[i] \in Nat
    BY <1>1 DEF IsBlocks
  <2> QED
    BY <2>1
<1>3. F \in Steps(1 .. Len(s), Nat)
  BY <1>2 DEF Steps
<1>4. \A i \in 1 .. Len(s), x \in Nat : F[i][x] = x + c[i] * b[i + 1]
  OBVIOUS
<1> HIDE DEF F
<1>5. RecursFrom(Len(s), Nat, 0, F)
  BY <1>1, <1>3, DownwardRecursion
<1>6. PICK o \in [1 .. (Len(s) + 1) -> Nat] :
        o[Len(s) + 1] = 0 /\ \A i \in 1 .. Len(s) : o[i] = F[i][o[i + 1]]
  BY <1>5 DEF RecursFrom
<1>7. \A i \in 1 .. Len(s) : o[i + 1] \in Nat
  BY <1>1
<1>8. IsOffsets(s, c, o)
  BY <1>4, <1>6, <1>7 DEF IsOffsets, b
<1> QED
  BY <1>8 DEF Offsets

\* What the axes from i on add is less than their block.
LEMMA OffsetsFit ==
  ASSUME NEW s \in Shapes, NEW c \in Coordinates(s)
  PROVE  \A i \in 1 .. (Len(s) + 1) : Offsets(s, c)[i] < Blocks(s)[i]
<1> DEFINE n == Len(s)
           b == Blocks(s)
           o == Offsets(s, c)
           S == {i \in 1 .. (n + 1) : o[i] < b[i]}
<1>1. n \in Nat /\ IsBlocks(s, b) /\ IsOffsets(s, c, o)
  BY BlocksExist, OffsetsExist DEF Shapes, Coordinates
<1> HIDE DEF o
<1>2. n + 1 \in S
  BY <1>1 DEF IsBlocks, IsOffsets
<1>3. ASSUME NEW i \in 1 .. n, i + 1 \in S PROVE i \in S
  <2>1. b[i] = s[i] * b[i + 1] /\ o[i] = o[i + 1] + c[i] * b[i + 1] /\ o[i + 1] < b[i + 1]
    BY <1>1, <1>3 DEF IsBlocks, IsOffsets
  <2>2. b[i + 1] \in Nat /\ o[i + 1] \in Nat
    BY <1>1 DEF IsBlocks, IsOffsets
  <2>3. c[i] \in Nat /\ s[i] \in Nat /\ c[i] < s[i]
    BY DEF Shapes, Coordinates
  <2> HIDE DEF b
  <2>4. (c[i] + 1) * b[i + 1] <= s[i] * b[i + 1]
    BY <2>2, <2>3
  <2>5. (c[i] + 1) * b[i + 1] = c[i] * b[i + 1] + b[i + 1]
    BY <2>2, <2>3, SMTT(30)
  <2>6. c[i] * b[i + 1] \in Nat /\ s[i] * b[i + 1] \in Nat
    BY <2>2, <2>3
  <2>7. o[i] < b[i]
    BY <2>1, <2>2, <2>4, <2>5, <2>6
  <2>8. i \in 1 .. (n + 1)
    BY <1>1
  <2> QED
    BY <2>7, <2>8
<1> HIDE DEF S
<1>4. \A i \in 1 .. (n + 1) : i \in S
  BY <1>1, <1>2, <1>3, DownFrom
<1> QED
  BY <1>4 DEF S, o

\* The loop of coord_offset.
LEMMA CoordOffsetIsOffsets ==
  ASSUME NEW s \in Shapes, NEW c \in Coordinates(s)
  PROVE  /\ CoordOffset(s, c) = Offsets(s, c)[1]
         /\ CoordOffset(s, c) \in 0 .. (Size(s) - 1)
<1> DEFINE n == Len(s)
           b == Blocks(s)
           o == Offsets(s, c)
           Is(f) == f = [i \in 1 .. (n + 1) |->
                           IF i = n + 1 THEN [offset |-> 0, stride |-> 1]
                           ELSE LET right == f[i + 1]
                                IN [offset |-> right.offset + c[i] * right.stride,
                                    stride |-> right.stride * s[i]]]
           f == [i \in 1 .. (n + 1) |-> [offset |-> o[i], stride |-> b[i]]]
           w == CHOOSE g : Is(g)
           S == {i \in 1 .. (n + 1) : w[i] = [offset |-> o[i], stride |-> b[i]]}
<1>1. n \in Nat /\ IsBlocks(s, b) /\ IsOffsets(s, c, o)
  BY BlocksExist, OffsetsExist DEF Shapes, Coordinates
<1> HIDE DEF b, o
<1>2. \A i \in 1 .. n : b[i] = b[i + 1] * s[i] /\ o[i] = o[i + 1] + c[i] * b[i + 1]
  <2> SUFFICES ASSUME NEW i \in 1 .. n
               PROVE  b[i] = b[i + 1] * s[i] /\ o[i] = o[i + 1] + c[i] * b[i + 1]
    OBVIOUS
  <2>1. b[i + 1] \in Nat /\ s[i] \in Nat
    BY <1>1 DEF IsBlocks, Shapes
  <2> QED
    BY <1>1, <2>1 DEF IsBlocks, IsOffsets, b
<1>3. b[n + 1] = 1 /\ o[n + 1] = 0
  BY <1>1 DEF IsBlocks, IsOffsets
<1>4. Is(f)
  BY <1>1, <1>2, <1>3
<1>5. Is(w)
  <2> HIDE DEF Is
  <2> QED
    BY <1>4
<1>6. CoordOffset(s, c) = w[1].offset
  BY DEF CoordOffset
<1> HIDE DEF w, f
<1>7. n + 1 \in S
  BY <1>1, <1>3, <1>5
<1>8. ASSUME NEW i \in 1 .. n, i + 1 \in S PROVE i \in S
  <2>1. w[i + 1] = [offset |-> o[i + 1], stride |-> b[i + 1]]
    BY <1>8
  <2>2. w[i] = [offset |-> w[i + 1].offset + c[i] * w[i + 1].stride,
                stride |-> w[i + 1].stride * s[i]]
    BY <1>1, <1>5
  <2> QED
    BY <1>1, <1>2, <2>1, <2>2
<1>9. 1 \in S
  <2> HIDE DEF S
  <2>1. \A i \in 1 .. (n + 1) : i \in S
    BY <1>1, <1>7, <1>8, DownFrom
  <2> QED
    BY <1>1, <2>1
<1>10. o[1] \in Nat /\ o[1] < b[1]
  BY <1>1, OffsetsFit DEF IsOffsets, o, b
<1>11. Size(s) = b[1] /\ Size(s) \in Nat
  BY SizeIsBlocks DEF b
<1> QED
  BY <1>6, <1>9, <1>10, <1>11 DEF o

-----------------------------------------------------------------------------
(* Between a place and a coordinate.  An empty axis leaves no place, so the *)
(* divisors are positive wherever a division is made.                       *)

\* A buffer with a place in it has no empty axis.
LEMMA BlocksPositive ==
  ASSUME NEW s \in Shapes, NEW x \in 0 .. (Size(s) - 1)
  PROVE  /\ \A i \in 1 .. (Len(s) + 1) : Blocks(s)[i] \in Nat /\ 0 < Blocks(s)[i]
         /\ \A i \in 1 .. Len(s) : s[i] \in Nat /\ 0 < s[i]
<1> DEFINE n == Len(s)
           b == Blocks(s)
           S == {i \in 1 .. (n + 1) : 0 < b[i]}
<1>1. n \in Nat /\ IsBlocks(s, b) /\ b[1] = Size(s) /\ Size(s) \in Nat
  BY BlocksExist, SizeIsBlocks DEF Shapes
<1>2. ASSUME NEW i \in 1 .. n
      PROVE  s[i] \in Nat /\ b[i + 1] \in Nat /\ b[i] = s[i] * b[i + 1]
  <2>1. i + 1 \in 1 .. (n + 1)
    BY <1>1
  <2>2. b[i + 1] \in Nat /\ b[i] = s[i] * b[i + 1]
    BY <1>1, <2>1 DEF IsBlocks
  <2> QED
    BY <2>2 DEF Shapes
<1> HIDE DEF b
<1>3. 1 \in S
  BY <1>1
<1>4. ASSUME NEW i \in 1 .. n, i \in S PROVE i + 1 \in S
  <2>1. b[i + 1] # 0
    BY <1>2, <1>4
  <2> QED
    BY <1>1, <1>2, <2>1
<1>5. \A i \in 1 .. (n + 1) : i \in S
  <2> HIDE DEF S
  <2> QED
    BY <1>1, <1>3, <1>4, UpFrom
<1>6. \A i \in 1 .. n : 0 < s[i]
  <2> SUFFICES ASSUME NEW i \in 1 .. n PROVE 0 < s[i]
    OBVIOUS
  <2>1. 0 < b[i] /\ i \in 1 .. (n + 1)
    BY <1>1, <1>5
  <2>2. s[i] # 0
    BY <1>2, <2>1
  <2> QED
    BY <1>2, <2>2
<1>7. \A i \in 1 .. (n + 1) : b[i] \in Nat
  BY <1>1 DEF IsBlocks
<1> QED
  BY <1>2, <1>5, <1>6, <1>7 DEF b

\* What the loop of unravel_index leaves at axis i is the place over the block below it.
LEMMA UnravelIsDivMod ==
  ASSUME NEW s \in Shapes, NEW x \in 0 .. (Size(s) - 1)
  PROVE  /\ Unravel(x, s) = [i \in 1 .. Len(s) |-> (x \div Blocks(s)[i + 1]) % s[i]]
         /\ Unravel(x, s) \in Coordinates(s)
<1> DEFINE n == Len(s)
           b == Blocks(s)
           Is(f) == f = [i \in 1 .. n |-> IF i = n THEN x ELSE f[i + 1] \div s[i + 1]]
           f == [i \in 1 .. n |-> x \div b[i + 1]]
           w == CHOOSE g : Is(g)
           S == {i \in 1 .. n : w[i] = x \div b[i + 1]}
<1>1. n \in Nat /\ IsBlocks(s, b) /\ x \in Nat
  BY BlocksExist, SizeIsBlocks DEF Shapes
<1>2. /\ \A i \in 1 .. (n + 1) : b[i] \in Nat /\ 0 < b[i]
      /\ \A i \in 1 .. n : s[i] \in Nat /\ 0 < s[i]
  BY BlocksPositive
<1> HIDE DEF b
<1>3. x \div b[n + 1] = x
  BY <1>1 DEF IsBlocks
<1>4. ASSUME NEW i \in 1 .. n, i # n
      PROVE  (x \div b[(i + 1) + 1]) \div s[i + 1] = x \div b[i + 1]
  <2>1. i + 1 \in 1 .. n /\ (i + 1) + 1 \in 1 .. (n + 1)
    BY <1>1, <1>4
  <2>2. b[i + 1] = s[i + 1] * b[(i + 1) + 1]
    BY <1>1, <2>1 DEF IsBlocks
  <2>3. /\ b[(i + 1) + 1] \in Nat /\ 0 < b[(i + 1) + 1]
        /\ s[i + 1] \in Nat /\ 0 < s[i + 1]
    BY <1>2, <2>1
  <2>4. (x \div b[(i + 1) + 1]) \div s[i + 1] = x \div (s[i + 1] * b[(i + 1) + 1])
    BY <1>1, <2>3, DivModProduct, Zenon
  <2> QED
    BY <2>2, <2>4
<1>5. Is(f)
  <2>1. \A i \in 1 .. n : i # n => i + 1 \in 1 .. n
    BY <1>1
  <2> QED
    BY <1>3, <1>4, <2>1
<1>6. Is(w)
  <2> HIDE DEF Is, f
  <2> QED
    BY <1>5
<1>7. Unravel(x, s) = [i \in 1 .. n |-> w[i] % s[i]]
  BY DEF Unravel
<1> HIDE DEF w, f
<1>8. ASSUME NEW i \in 1 .. n, i + 1 \in 1 .. n => i + 1 \in S PROVE i \in S
  <2>1. CASE i = n
    BY <1>3, <1>6, <2>1
  <2>2. CASE i # n
    <3>1. w[i + 1] = x \div b[(i + 1) + 1]
      BY <1>1, <1>8, <2>2
    <3>2. w[i] = w[i + 1] \div s[i + 1]
      BY <1>6, <2>2
    <3> QED
      BY <1>4, <2>2, <3>1, <3>2
  <2> QED
    BY <2>1, <2>2
<1>9. \A i \in 1 .. n : i \in S
  <2> DEFINE T == S \cup {n + 1}
  <2>1. n + 1 \in T /\ \A i \in 1 .. n : i + 1 \in T => i \in T
    BY <1>1, <1>8
  <2> HIDE DEF S, T
  <2>2. \A i \in 1 .. (n + 1) : i \in T
    BY <1>1, <2>1, DownFrom
  <2> QED
    BY <1>1, <2>2 DEF T
<1>10. \A i \in 1 .. n : w[i] = x \div b[i + 1]
  BY <1>9
<1>11. Unravel(x, s) = [i \in 1 .. n |-> (x \div b[i + 1]) % s[i]]
  BY <1>7, <1>10
<1>12. ASSUME NEW i \in 1 .. n
       PROVE  (x \div b[i + 1]) % s[i] \in Nat /\ (x \div b[i + 1]) % s[i] < s[i]
  <2>1. b[i + 1] \in Nat /\ 0 < b[i + 1] /\ s[i] \in Nat /\ 0 < s[i]
    BY <1>1, <1>2
  <2>2. x \div b[i + 1] \in Nat
    BY <1>1, <2>1, DivMod
  <2> QED
    BY <2>1, <2>2, DivMod
<1> QED
  BY <1>11, <1>12 DEF Coordinates, b

\* The loop of strides multiplies the blocks.
LEMMA StridesAreBlocks ==
  ASSUME NEW s \in Shapes
  PROVE  Strides(s) = [i \in 1 .. Len(s) |-> Blocks(s)[i + 1]]
<1> DEFINE n == Len(s)
           b == Blocks(s)
           Is(f) == f = [i \in 1 .. n |-> IF i = n THEN 1 ELSE f[i + 1] * s[i + 1]]
           f == [i \in 1 .. n |-> b[i + 1]]
           w == CHOOSE g : Is(g)
           S == {i \in 1 .. n : w[i] = b[i + 1]}
<1>1. n \in Nat /\ IsBlocks(s, b)
  BY BlocksExist DEF Shapes
<1> HIDE DEF b
<1>2. b[n + 1] = 1
  BY <1>1 DEF IsBlocks
<1>3. ASSUME NEW i \in 1 .. n, i # n PROVE b[(i + 1) + 1] * s[i + 1] = b[i + 1]
  <2>1. i + 1 \in 1 .. n /\ (i + 1) + 1 \in 1 .. (n + 1)
    BY <1>1, <1>3
  <2>2. b[i + 1] = s[i + 1] * b[(i + 1) + 1] /\ b[(i + 1) + 1] \in Nat
    BY <1>1, <2>1 DEF IsBlocks
  <2>3. s[i + 1] \in Nat
    BY <2>1 DEF Shapes
  <2> QED
    BY <2>2, <2>3
<1>4. Is(f)
  <2>1. \A i \in 1 .. n : i # n => i + 1 \in 1 .. n
    BY <1>1
  <2> QED
    BY <1>2, <1>3, <2>1
<1>5. Is(w)
  <2> HIDE DEF Is, f
  <2> QED
    BY <1>4
<1>6. Strides(s) = [i \in 1 .. n |-> w[i]]
  BY DEF Strides
<1> HIDE DEF w, f
<1>7. ASSUME NEW i \in 1 .. n, i + 1 \in 1 .. n => i + 1 \in S PROVE i \in S
  <2>1. CASE i = n
    BY <1>2, <1>5, <2>1
  <2>2. CASE i # n
    <3>1. w[i + 1] = b[(i + 1) + 1]
      BY <1>1, <1>7, <2>2
    <3>2. w[i] = w[i + 1] * s[i + 1]
      BY <1>5, <2>2
    <3> QED
      BY <1>3, <2>2, <3>1, <3>2
  <2> QED
    BY <2>1, <2>2
<1>8. \A i \in 1 .. n : i \in S
  <2> DEFINE T == S \cup {n + 1}
  <2>1. n + 1 \in T /\ \A i \in 1 .. n : i + 1 \in T => i \in T
    BY <1>1, <1>7
  <2> HIDE DEF S, T
  <2>2. \A i \in 1 .. (n + 1) : i \in T
    BY <1>1, <2>1, DownFrom
  <2> QED
    BY <1>1, <2>2 DEF T
<1>9. \A i \in 1 .. n : w[i] = b[i + 1]
  BY <1>8
<1> QED
  BY <1>6, <1>9 DEF b

\* The loop of coord_from_offset finds the coordinate unravel_index finds.
LEMMA CoordFromOffsetIsUnravel ==
  ASSUME NEW s \in Shapes, NEW x \in 0 .. (Size(s) - 1)
  PROVE  CoordFromOffset(x, s, Strides(s)) = Unravel(x, s)
<1> DEFINE n == Len(s)
           b == Blocks(s)
           st == Strides(s)
           Is(f) == f = [i \in 1 .. n |-> IF i = 1 THEN x ELSE f[i - 1] % st[i - 1]]
           f == [i \in 1 .. n |-> x % b[i]]
           w == CHOOSE g : Is(g)
           S == {i \in 1 .. (n + 1) : i = n + 1 \/ w[i] = x % b[i]}
<1>1. n \in Nat /\ IsBlocks(s, b) /\ x \in Nat /\ b[1] = Size(s) /\ Size(s) \in Nat
  BY BlocksExist, SizeIsBlocks DEF Shapes
<1>2. /\ \A i \in 1 .. (n + 1) : b[i] \in Nat /\ 0 < b[i]
      /\ \A i \in 1 .. n : s[i] \in Nat /\ 0 < s[i]
  BY BlocksPositive
<1>3. st = [i \in 1 .. n |-> b[i + 1]]
  BY StridesAreBlocks
<1> HIDE DEF b, st
<1>4. x % b[1] = x
  <2>1. b[1] \in Nat /\ x < b[1]
    BY <1>1
  <2>2. (b[1] * 0 + x) % b[1] = x /\ b[1] * 0 + x = x
    BY <1>1, <2>1, DivModUnique
  <2> QED
    BY <2>2
<1>5. ASSUME NEW i \in 1 .. n
      PROVE  /\ (x % b[i]) % b[i + 1] = x % b[i + 1]
             /\ (x % b[i]) \div b[i + 1] = (x \div b[i + 1]) % s[i]
  <2>1. b[i] = s[i] * b[i + 1] /\ i + 1 \in 1 .. (n + 1)
    BY <1>1 DEF IsBlocks
  <2>2. b[i + 1] \in Nat /\ 0 < b[i + 1] /\ s[i] \in Nat /\ 0 < s[i]
    BY <1>2, <2>1
  <2>3. /\ (x % (s[i] * b[i + 1])) % b[i + 1] = x % b[i + 1]
        /\ (x % (s[i] * b[i + 1])) \div b[i + 1] = (x \div b[i + 1]) % s[i]
    BY <1>1, <2>2, DivModProduct, ZenonT(40)
  <2> QED
    BY <2>1, <2>3
<1>6. ASSUME NEW i \in 1 .. n, i # 1
      PROVE  (x % b[i - 1]) % st[i - 1] = x % b[i]
  <2>1. i - 1 \in 1 .. n /\ (i - 1) + 1 = i
    BY <1>1, <1>6
  <2>2. st[i - 1] = b[i]
    BY <1>3, <2>1
  <2>3. (x % b[i - 1]) % b[(i - 1) + 1] = x % b[(i - 1) + 1]
    BY <1>5, <2>1
  <2> QED
    BY <2>1, <2>2, <2>3
<1>7. Is(f)
  <2>1. \A i \in 1 .. n : i # 1 => i - 1 \in 1 .. n
    BY <1>1
  <2>2. \A i \in 1 .. n : i # 1 => f[i - 1] = x % b[i - 1]
    BY <2>1
  <2>3. \A i \in 1 .. n : f[i] = IF i = 1 THEN x ELSE f[i - 1] % st[i - 1]
    BY <1>4, <1>6, <2>2
  <2> QED
    BY <2>3
<1>8. Is(w)
  <2> HIDE DEF Is, f
  <2> QED
    BY <1>7
<1>9. CoordFromOffset(x, s, st) = [i \in 1 .. n |-> w[i] \div st[i]]
  BY DEF CoordFromOffset
<1> HIDE DEF w, f
<1>10. 1 \in S
  <2>1. CASE n = 0
    BY <2>1
  <2>2. CASE n # 0
    BY <1>1, <1>4, <1>8, <2>2
  <2> QED
    BY <2>1, <2>2
<1>11. ASSUME NEW i \in 1 .. n, i \in S PROVE i + 1 \in S
  <2>1. CASE i = n
    BY <1>1, <2>1
  <2>2. CASE i # n
    <3>1. i + 1 \in 1 .. n /\ i + 1 # 1 /\ (i + 1) - 1 = i
      BY <1>1, <2>2
    <3>2. w[i] = x % b[i]
      BY <1>1, <1>11
    <3>3. w[i + 1] = w[i] % st[i]
      BY <1>8, <3>1
    <3>4. (x % b[i]) % st[i] = x % b[i + 1]
      BY <1>6, <3>1
    <3> QED
      BY <1>1, <3>1, <3>2, <3>3, <3>4
  <2> QED
    BY <2>1, <2>2
<1>12. \A i \in 1 .. n : w[i] = x % b[i]
  <2> HIDE DEF S
  <2>1. \A i \in 1 .. (n + 1) : i \in S
    BY <1>1, <1>10, <1>11, UpFrom
  <2> QED
    BY <1>1, <2>1 DEF S
<1>13. CoordFromOffset(x, s, st) = [i \in 1 .. n |-> (x \div b[i + 1]) % s[i]]
  <2>1. \A i \in 1 .. n : w[i] \div st[i] = (x \div b[i + 1]) % s[i]
    BY <1>3, <1>5, <1>12
  <2> QED
    BY <1>9, <2>1
<1> QED
  BY <1>13, UnravelIsDivMod DEF b, st

\* The place of the coordinate of a place is that place.
LEMMA OffsetOfUnravel ==
  ASSUME NEW s \in Shapes, NEW x \in 0 .. (Size(s) - 1)
  PROVE  CoordOffset(s, Unravel(x, s)) = x
<1> DEFINE n == Len(s)
           b == Blocks(s)
           c == Unravel(x, s)
           o == Offsets(s, c)
           S == {i \in 1 .. (n + 1) : o[i] = x % b[i]}
<1>1. n \in Nat /\ IsBlocks(s, b) /\ x \in Nat /\ b[1] = Size(s) /\ Size(s) \in Nat
  BY BlocksExist, SizeIsBlocks DEF Shapes
<1>2. /\ \A i \in 1 .. (n + 1) : b[i] \in Nat /\ 0 < b[i]
      /\ \A i \in 1 .. n : s[i] \in Nat /\ 0 < s[i]
  BY BlocksPositive
<1>3. c \in Coordinates(s) /\ c = [i \in 1 .. n |-> (x \div b[i + 1]) % s[i]]
  BY UnravelIsDivMod
<1>4. IsOffsets(s, c, o) /\ CoordOffset(s, c) = o[1]
  BY <1>3, OffsetsExist, CoordOffsetIsOffsets DEF Coordinates
<1> HIDE DEF b, c, o
<1>5. n + 1 \in S
  <2>1. x % 1 = 0
    BY <1>1
  <2> QED
    BY <1>1, <1>4, <2>1 DEF IsBlocks, IsOffsets
<1>6. ASSUME NEW i \in 1 .. n, i + 1 \in S PROVE i \in S
  <2>1. b[i] = s[i] * b[i + 1] /\ i + 1 \in 1 .. (n + 1)
    BY <1>1 DEF IsBlocks
  <2>2. b[i + 1] \in Nat /\ 0 < b[i + 1] /\ s[i] \in Nat /\ 0 < s[i]
    BY <1>2, <2>1
  <2>3. b[i] \in Nat /\ 0 < b[i]
    BY <1>1, <1>2
  <2>4. /\ (x % (s[i] * b[i + 1])) % b[i + 1] = x % b[i + 1]
        /\ (x % (s[i] * b[i + 1])) \div b[i + 1] = (x \div b[i + 1]) % s[i]
    BY <1>1, <2>2, DivModProduct, ZenonT(40)
  <2>5. /\ (x % b[i]) % b[i + 1] = x % b[i + 1]
        /\ (x % b[i]) \div b[i + 1] = c[i]
    BY <1>3, <2>1, <2>4
  <2>6. x % b[i] \in Nat
    BY <1>1, <2>3, DivMod
  <2>7. /\ x % b[i] = b[i + 1] * ((x % b[i]) \div b[i + 1]) + ((x % b[i]) % b[i + 1])
        /\ (x % b[i]) \div b[i + 1] \in Nat /\ (x % b[i]) % b[i + 1] \in Nat
    BY <2>2, <2>6, DivMod
  <2>8. o[i] = o[i + 1] + c[i] * b[i + 1] /\ o[i + 1] = x % b[i + 1]
    BY <1>4, <1>6 DEF IsOffsets, b
  <2>9. /\ x % b[i] = b[i + 1] * c[i] + (x % b[i + 1])
        /\ c[i] \in Nat /\ x % b[i + 1] \in Nat
    BY <2>5, <2>7
  <2>10. o[i] = x % b[i]
    BY <2>2, <2>8, <2>9
  <2> QED
    BY <1>1, <2>10
<1>7. o[1] = x % b[1]
  <2> HIDE DEF S
  <2>1. \A i \in 1 .. (n + 1) : i \in S
    BY <1>1, <1>5, <1>6, DownFrom
  <2> QED
    BY <1>1, <2>1 DEF S
<1>8. x % b[1] = x
  <2>1. b[1] \in Nat /\ x < b[1]
    BY <1>1
  <2>2. (b[1] * 0 + x) % b[1] = x /\ b[1] * 0 + x = x
    BY <1>1, <2>1, DivModUnique
  <2> QED
    BY <2>2
<1> QED
  BY <1>4, <1>7, <1>8 DEF c

\* The coordinate of the place of a coordinate is that coordinate.
LEMMA UnravelOfOffset ==
  ASSUME NEW s \in Shapes, NEW c \in Coordinates(s)
  PROVE  Unravel(CoordOffset(s, c), s) = c
<1> DEFINE n == Len(s)
           b == Blocks(s)
           o == Offsets(s, c)
           S == {i \in 1 .. (n + 1) : o[1] % b[i] = o[i]}
<1>1. /\ n \in Nat /\ IsBlocks(s, b) /\ b[1] = Size(s) /\ Size(s) \in Nat
      /\ IsOffsets(s, c, o) /\ CoordOffset(s, c) = o[1] /\ o[1] \in 0 .. (Size(s) - 1)
      /\ \A i \in 1 .. (n + 1) : o[i] < b[i]
  BY BlocksExist, SizeIsBlocks, OffsetsExist, CoordOffsetIsOffsets, OffsetsFit
  DEF Shapes, Coordinates
<1> HIDE DEF o
<1>2. /\ \A i \in 1 .. (n + 1) : b[i] \in Nat /\ 0 < b[i]
      /\ \A i \in 1 .. n : s[i] \in Nat /\ 0 < s[i]
  BY <1>1, BlocksPositive
<1>3. Unravel(o[1], s) = [i \in 1 .. n |-> (o[1] \div b[i + 1]) % s[i]]
  BY <1>1, UnravelIsDivMod
<1>4. ASSUME NEW i \in 1 .. n
      PROVE  /\ o[i] % b[i + 1] = o[i + 1]
             /\ o[i] \div b[i + 1] = c[i]
  <2>1. i + 1 \in 1 .. (n + 1)
    BY <1>1
  <2>2. /\ o[i] = o[i + 1] + c[i] * b[i + 1] /\ o[i + 1] < b[i + 1]
        /\ o[i + 1] \in Nat /\ b[i + 1] \in Nat /\ c[i] \in Nat
    BY <1>1, <1>2, <2>1 DEF IsOffsets, Coordinates
  <2> HIDE DEF b
  <2>3. o[i] = b[i + 1] * c[i] + o[i + 1]
    BY <2>2
  <2>4. /\ (b[i + 1] * c[i] + o[i + 1]) \div b[i + 1] = c[i]
        /\ (b[i + 1] * c[i] + o[i + 1]) % b[i + 1] = o[i + 1]
    BY <2>2, DivModUnique
  <2> QED
    BY <2>3, <2>4
<1> HIDE DEF b
<1>5. ASSUME NEW i \in 1 .. n
      PROVE  /\ (o[1] % b[i]) % b[i + 1] = o[1] % b[i + 1]
             /\ (o[1] % b[i]) \div b[i + 1] = (o[1] \div b[i + 1]) % s[i]
  <2>1. b[i] = s[i] * b[i + 1] /\ i + 1 \in 1 .. (n + 1)
    BY <1>1 DEF IsBlocks
  <2>2. b[i + 1] \in Nat /\ 0 < b[i + 1] /\ s[i] \in Nat /\ 0 < s[i] /\ o[1] \in Nat
    BY <1>1, <1>2, <2>1
  <2>3. /\ (o[1] % (s[i] * b[i + 1])) % b[i + 1] = o[1] % b[i + 1]
        /\ (o[1] % (s[i] * b[i + 1])) \div b[i + 1] = (o[1] \div b[i + 1]) % s[i]
    BY <2>2, DivModProduct, Zenon
  <2> QED
    BY <2>1, <2>3
<1>6. 1 \in S
  <2>1. b[1] \in Nat /\ o[1] < b[1] /\ o[1] \in Nat
    BY <1>1
  <2>2. (b[1] * 0 + o[1]) % b[1] = o[1] /\ b[1] * 0 + o[1] = o[1]
    BY <2>1, DivModUnique
  <2> QED
    BY <1>1, <2>2
<1>7. ASSUME NEW i \in 1 .. n, i \in S PROVE i + 1 \in S
  <2>1. i + 1 \in 1 .. (n + 1)
    BY <1>1
  <2> QED
    BY <1>4, <1>5, <1>7, <2>1
<1>8. \A i \in 1 .. (n + 1) : o[1] % b[i] = o[i]
  <2> HIDE DEF S
  <2>1. \A i \in 1 .. (n + 1) : i \in S
    BY <1>1, <1>6, <1>7, UpFrom
  <2> QED
    BY <2>1 DEF S
<1>9. ASSUME NEW i \in 1 .. n PROVE (o[1] \div b[i + 1]) % s[i] = c[i]
  <2>1. o[1] % b[i] = o[i]
    BY <1>1, <1>8
  <2> QED
    BY <1>4, <1>5, <2>1
<1>10. Unravel(o[1], s) = [i \in 1 .. n |-> c[i]]
  BY <1>3, <1>9 DEF b
<1> QED
  BY <1>1, <1>10 DEF Coordinates

\* The sum of a coordinate times the strides is its place.
LEMMA OffsetFromCoordIsOffset ==
  ASSUME NEW s \in Shapes, NEW c \in Coordinates(s)
  PROVE  OffsetFromCoord(c, Strides(s)) = CoordOffset(s, c)
<1> DEFINE n == Len(s)
           b == Blocks(s)
           st == Strides(s)
           o == Offsets(s, c)
           Is(f) == f = [i \in 0 .. n |-> IF i = 0 THEN 0 ELSE f[i - 1] + c[i] * st[i]]
           f == [i \in 0 .. n |-> o[1] - o[i + 1]]
           w == CHOOSE g : Is(g)
           S == {i \in 0 .. n : w[i] = o[1] - o[i + 1]}
<1>1. /\ n \in Nat /\ IsBlocks(s, b) /\ IsOffsets(s, c, o)
      /\ CoordOffset(s, c) = o[1] /\ Len(c) = n
  BY BlocksExist, OffsetsExist, CoordOffsetIsOffsets DEF Shapes, Coordinates
<1>2. st = [i \in 1 .. n |-> b[i + 1]]
  BY StridesAreBlocks
<1>3. ASSUME NEW i \in 1 .. n PROVE o[1] - o[i] + c[i] * st[i] = o[1] - o[i + 1]
  <2>1. i + 1 \in 1 .. (n + 1) /\ i \in 1 .. (n + 1) /\ 1 \in 1 .. (n + 1)
    BY <1>1
  <2>2. o[i] = o[i + 1] + c[i] * b[i + 1]
    BY <1>1 DEF IsOffsets
  <2>3. b[i + 1] \in Nat /\ c[i] \in Nat /\ o[i] \in Nat /\ o[i + 1] \in Nat /\ o[1] \in Nat
    BY <1>1, <2>1 DEF IsBlocks, IsOffsets, Coordinates
  <2>4. st[i] = b[i + 1]
    BY <1>2
  <2> HIDE DEF b, st, o
  <2>5. c[i] * b[i + 1] \in Nat
    BY <2>3
  <2> QED
    BY <2>2, <2>3, <2>4, <2>5
<1>4. o[1] \in Nat /\ o[n + 1] = 0
  BY <1>1 DEF IsOffsets
<1> HIDE DEF b, st, o
<1>5. Is(f)
  <2>1. \A i \in 0 .. n : i # 0 => i \in 1 .. n /\ i - 1 \in 0 .. n /\ (i - 1) + 1 = i
    BY <1>1
  <2>2. \A i \in 0 .. n : i # 0 => f[i - 1] = o[1] - o[i]
    BY <2>1
  <2>3. \A i \in 0 .. n : f[i] = IF i = 0 THEN 0 ELSE f[i - 1] + c[i] * st[i]
    BY <1>3, <1>4, <2>1, <2>2
  <2> QED
    BY <2>3
<1>6. Is(w)
  <2> HIDE DEF Is, f
  <2> QED
    BY <1>5
<1>7. OffsetFromCoord(c, st) = w[n]
  BY <1>1 DEF OffsetFromCoord
<1> HIDE DEF w, f
<1>8. 0 \in S
  BY <1>1, <1>4, <1>6
<1>9. ASSUME NEW i \in 0 .. (n - 1), i \in S PROVE i + 1 \in S
  <2>1. i + 1 \in 1 .. n /\ (i + 1) - 1 = i /\ i + 1 \in 0 .. n /\ i + 1 # 0
    BY <1>1
  <2>2. w[i + 1] = w[i] + c[i + 1] * st[i + 1] /\ w[i] = o[1] - o[i + 1]
    BY <1>6, <1>9, <2>1
  <2> QED
    BY <1>3, <2>1, <2>2
<1>10. n \in S
  <2> HIDE DEF S
  <2>1. \A i \in 0 .. n : i \in S
    BY <1>1, <1>8, <1>9, UpTo
  <2> QED
    BY <1>1, <2>1
<1> QED
  BY <1>1, <1>4, <1>7, <1>10 DEF st

\* The coordinates of the axes up to i.
Leading(s, i) == {c \in [1 .. i -> Nat] : \A j \in 1 .. i : c[j] < s[j]}

Longer(C, X) == {Append(c, x) : c \in C, x \in X}

\* What is longer by one.
LEMMA LongerMeans ==
  ASSUME NEW C, NEW X
  PROVE  \A e : e \in Longer(C, X) <=> \E c \in C, x \in X : e = Append(c, x)
BY DEF Longer

\* The coordinates built axis by axis are those within the shape.
LEMMA CoordsAreCoordinates ==
  ASSUME NEW s \in Shapes
  PROVE  Coords(s) = Coordinates(s)
<1> DEFINE n == Len(s)
           Is(f) == f = [i \in 0 .. n |->
                           IF i = 0 THEN {<<>>}
                           ELSE Longer(f[i - 1], 0 .. (s[i] - 1))]
           f == [i \in 0 .. n |-> Leading(s, i)]
           w == CHOOSE g : Is(g)
           S == {i \in 0 .. n : w[i] = Leading(s, i)}
<1>1. n \in Nat
  BY DEF Shapes
<1>2. Leading(s, 0) = {<<>>}
  <2>1. \A c \in [1 .. 0 -> Nat] : c = <<>>
    OBVIOUS
  <2>2. <<>> \in [1 .. 0 -> Nat]
    OBVIOUS
  <2>3. <<>> \in Leading(s, 0)
    BY <2>2 DEF Leading
  <2>4. \A c \in Leading(s, 0) : c = <<>>
    BY <2>1 DEF Leading
  <2> QED
    BY <2>3, <2>4
<1>3. ASSUME NEW i \in 1 .. n
      PROVE  Longer(Leading(s, i - 1), 0 .. (s[i] - 1)) = Leading(s, i)
  <2>1. s[i] \in Nat /\ i - 1 \in Nat
    BY <1>1 DEF Shapes
  <2>2. ASSUME NEW c \in Leading(s, i - 1), NEW x \in 0 .. (s[i] - 1)
        PROVE  Append(c, x) \in Leading(s, i)
    <3>1. c \in [1 .. (i - 1) -> Nat] /\ \A j \in 1 .. (i - 1) : c[j] < s[j]
      BY DEF Leading
    <3>2. c \in Seq(Nat) /\ Len(c) = i - 1
      BY <2>1, <3>1
    <3>3. Append(c, x) \in [1 .. i -> Nat]
      <4>1. x \in Nat
        BY <2>1
      <4>2. Append(c, x) \in Seq(Nat) /\ Len(Append(c, x)) = i
        BY <2>1, <3>2, <4>1
      <4>3. \A e \in Seq(Nat) : e \in [1 .. Len(e) -> Nat]
        OBVIOUS
      <4> QED
        BY <4>2, <4>3
    <3>4. \A j \in 1 .. i : Append(c, x)[j] = IF j = i THEN x ELSE c[j]
      BY <2>1, <3>2
    <3>5. \A j \in 1 .. i : Append(c, x)[j] < s[j]
      BY <2>1, <3>1, <3>4
    <3> QED
      BY <3>3, <3>5 DEF Leading
  <2>3. ASSUME NEW d \in Leading(s, i)
        PROVE  \E c \in Leading(s, i - 1), x \in 0 .. (s[i] - 1) : d = Append(c, x)
    <3> DEFINE c == [j \in 1 .. (i - 1) |-> d[j]]
    <3>1. d \in [1 .. i -> Nat] /\ \A j \in 1 .. i : d[j] < s[j]
      BY DEF Leading
    <3>2. c \in Leading(s, i - 1) /\ d[i] \in 0 .. (s[i] - 1)
      BY <2>1, <3>1 DEF Leading
    <3>3. c \in Seq(Nat) /\ Len(c) = i - 1 /\ d \in Seq(Nat) /\ Len(d) = i
      BY <2>1, <3>1
    <3>4. d = Append(c, d[i])
      BY <2>1, <3>1, <3>3
    <3> HIDE DEF c
    <3> QED
      BY <3>2, <3>4
  <2>4. ASSUME NEW d
        PROVE  d \in Longer(Leading(s, i - 1), 0 .. (s[i] - 1)) <=> d \in Leading(s, i)
    <3> DEFINE C == Leading(s, i - 1)
               X == 0 .. (s[i] - 1)
    <3>1. \A c \in C, x \in X : Append(c, x) \in Leading(s, i)
      BY <2>2
    <3>2. d \in Leading(s, i) => \E c \in C, x \in X : d = Append(c, x)
      BY <2>3
    <3> HIDE DEF C, X
    <3>3. d \in Longer(C, X) <=> \E c \in C, x \in X : d = Append(c, x)
      BY LongerMeans
    <3>4. d \in Longer(C, X) <=> d \in Leading(s, i)
      BY <3>1, <3>2, <3>3
    <3> QED
      BY <3>4 DEF C, X
  <2> QED
    BY <2>4, Zenon
<1>4. Is(f)
  <2>1. \A i \in 0 .. n : i # 0 => i \in 1 .. n /\ i - 1 \in 0 .. n
    BY <1>1
  <2>2. \A i \in 0 .. n : i # 0 => f[i - 1] = Leading(s, i - 1)
    BY <2>1
  <2>3. \A i \in 0 .. n : f[i] = IF i = 0 THEN {<<>>}
                                 ELSE Longer(f[i - 1], 0 .. (s[i] - 1))
    BY <1>2, <1>3, <2>1, <2>2
  <2> QED
    BY <2>3
<1>5. Is(w)
  <2> HIDE DEF Is, f
  <2> QED
    BY <1>4
<1>6. Coords(s) = w[n]
  BY DEF Coords, Longer
<1> HIDE DEF w, f
<1>7. 0 \in S
  BY <1>1, <1>2, <1>5
<1>8. ASSUME NEW i \in 0 .. (n - 1), i \in S PROVE i + 1 \in S
  <2>1. i + 1 \in 1 .. n /\ (i + 1) - 1 = i /\ i + 1 \in 0 .. n /\ i + 1 # 0
    BY <1>1
  <2>2. w[i + 1] = Longer(w[i], 0 .. (s[i + 1] - 1)) /\ w[i] = Leading(s, i)
    BY <1>5, <1>8, <2>1
  <2>3. Longer(Leading(s, (i + 1) - 1), 0 .. (s[i + 1] - 1)) = Leading(s, i + 1)
    BY <1>3, <2>1
  <2> QED
    BY <2>1, <2>2, <2>3
<1>9. n \in S
  <2> HIDE DEF S
  <2>1. \A i \in 0 .. n : i \in S
    BY <1>1, <1>7, <1>8, UpTo
  <2> QED
    BY <1>1, <2>1
<1> QED
  BY <1>6, <1>9 DEF Leading, Coordinates

\* A tensor has as many coordinates as places.
LEMMA CoordsCount ==
  ASSUME NEW s \in Shapes
  PROVE  IsFiniteSet(Coords(s)) /\ Cardinality(Coords(s)) = Size(s)
<1> DEFINE C == Coordinates(s)
           f == [c \in C |-> CoordOffset(s, c) + 1]
<1>1. Size(s) \in Nat
  BY SizeIsBlocks
<1>2. \A c \in C : f[c] \in 1 .. Size(s)
  BY <1>1, CoordOffsetIsOffsets
<1>3. \A c, d \in C : f[c] = f[d] => c = d
  <2> SUFFICES ASSUME NEW c \in C, NEW d \in C, f[c] = f[d] PROVE c = d
    OBVIOUS
  <2>1. CoordOffset(s, c) \in Nat /\ CoordOffset(s, d) \in Nat
    BY <1>1, CoordOffsetIsOffsets
  <2>2. CoordOffset(s, c) = CoordOffset(s, d)
    BY <2>1
  <2> QED
    BY <2>2, UnravelOfOffset
<1>4. \A k \in 1 .. Size(s) : \E c \in C : f[c] = k
  <2> SUFFICES ASSUME NEW k \in 1 .. Size(s) PROVE \E c \in C : f[c] = k
    OBVIOUS
  <2>1. k - 1 \in 0 .. (Size(s) - 1) /\ (k - 1) + 1 = k
    BY <1>1
  <2>2. Unravel(k - 1, s) \in C /\ CoordOffset(s, Unravel(k - 1, s)) = k - 1
    BY <2>1, UnravelIsDivMod, OffsetOfUnravel
  <2>3. f[Unravel(k - 1, s)] = k
    BY <2>1, <2>2
  <2> QED
    BY <2>2, <2>3
<1>5. f \in [C -> 1 .. Size(s)]
  BY <1>2
<1> HIDE DEF f, C
<1>6. f \in Bijection(C, 1 .. Size(s))
  BY <1>3, <1>4, <1>5 DEF Bijection, Injection, Surjection, IsInjective
<1>7. /\ IsFiniteSet(1 .. Size(s)) /\ Cardinality(1 .. Size(s)) = Size(s)
  BY <1>1, FS_Interval
<1>8. ExistsBijection(C, 1 .. Size(s))
  BY <1>6 DEF ExistsBijection
<1>9. ExistsBijection(1 .. Size(s), C)
  BY <1>6, Fun_BijInverse DEF ExistsBijection
<1>10. IsFiniteSet(C) /\ Cardinality(C) = Size(s)
  BY <1>7, <1>8, <1>9, FS_Bijection, FS_SameCardinalityBij
<1> QED
  BY <1>10, CoordsAreCoordinates DEF C

-----------------------------------------------------------------------------
(* Rounding.  A float holds a whole number that is a power of two times one *)
(* it holds exactly, and rounding lands on those and moves none of them.    *)

IsPowers(p) == p \in [Nat -> Nat] /\ p[0] = 1 /\ \A n \in Nat : p[n + 1] = 2 * p[n]
Pow == CHOOSE p : IsPowers(p)

Representable(exact) ==
  {v \in Int : \E k, q \in Nat : q <= exact /\ Abs(v) = Pow[k] * q}

\* The powers of two are what they should be.
LEMMA Powers ==
  /\ IsPowers(Pow)
  /\ \A k \in Nat : Pow[k] \in Nat /\ k < Pow[k]
  /\ \A k, j \in Nat : Pow[k + j] = Pow[k] * Pow[j]
<1> DEFINE F == [i \in Nat |-> [x \in Nat |-> 2 * x]]
<1>1. F \in Steps(Nat, Nat)
  BY DEF Steps
<1>2. \A i, x \in Nat : F[i][x] = 2 * x
  OBVIOUS
<1> HIDE DEF F
<1>3. Recurs(Nat, 1, F)
  BY <1>1, RecursionByName
<1>4. \E p : IsPowers(p)
  <2>1. PICK p \in [Nat -> Nat] : p[0] = 1 /\ \A n \in Nat : p[n + 1] = F[n + 1][p[n]]
    BY <1>3 DEF Recurs
  <2>2. \A n \in Nat : n + 1 \in Nat /\ p[n] \in Nat
    BY <2>1
  <2>3. \A n \in Nat : p[n + 1] = 2 * p[n]
    BY <1>2, <2>1, <2>2
  <2>4. IsPowers(p)
    BY <2>1, <2>3 DEF IsPowers
  <2> QED
    BY <2>4
<1>5. IsPowers(Pow)
  BY <1>4 DEF Pow
<1>6. \A k \in Nat : Pow[k] \in Nat /\ k < Pow[k]
  <2> DEFINE S == {k \in Nat : k < Pow[k]}
  <2>1. S \in SUBSET Nat /\ 0 \in S
    BY <1>5 DEF IsPowers
  <2>2. ASSUME NEW k \in S PROVE k + 1 \in S
    <3>1. k \in Nat /\ k + 1 \in Nat /\ Pow[k] \in Nat /\ k < Pow[k] /\ Pow[k + 1] = 2 * Pow[k]
      BY <1>5 DEF IsPowers
    <3> QED
      BY <3>1
  <2> HIDE DEF S
  <2>3. \A k \in Nat : k \in S
    BY <2>1, <2>2, Induction
  <2> QED
    BY <1>5, <2>3 DEF S, IsPowers
<1>7. ASSUME NEW k \in Nat, NEW j \in Nat PROVE Pow[k + j] = Pow[k] * Pow[j]
  <2> DEFINE S == {i \in Nat : Pow[k + i] = Pow[k] * Pow[i]}
  <2>1. S \in SUBSET Nat /\ 0 \in S
    BY <1>5 DEF IsPowers
  <2>2. ASSUME NEW i \in S PROVE i + 1 \in S
    <3>1. /\ i + 1 \in Nat /\ k + i \in Nat /\ k + (i + 1) = (k + i) + 1
          /\ Pow[k] \in Nat /\ Pow[i] \in Nat
      BY <1>5 DEF IsPowers
    <3>2. Pow[i + 1] = 2 * Pow[i] /\ Pow[k + (i + 1)] = 2 * Pow[k + i]
      BY <1>5, <3>1 DEF IsPowers
    <3>3. Pow[k + i] = Pow[k] * Pow[i]
      OBVIOUS
    <3>4. 2 * (Pow[k] * Pow[i]) = Pow[k] * (2 * Pow[i])
      BY <3>1
    <3> QED
      BY <3>1, <3>2, <3>3, <3>4
  <2> HIDE DEF S
  <2>3. \A i \in Nat : i \in S
    BY <2>1, <2>2, Induction
  <2> QED
    BY <2>3 DEF S
<1> QED
  BY <1>5, <1>6, <1>7

\* How many times ulp doubles: until exact of them reach a.
Reaches(a, exact, u) == {k \in Nat : a <= exact * (u * Pow[k])}
Doublings(a, exact, u) ==
  CHOOSE k \in Reaches(a, exact, u) : \A j \in Reaches(a, exact, u) : k <= j

\* Doubling reaches any number.
LEMMA DoublingsLeast ==
  ASSUME NEW a \in Nat, NEW exact \in Nat, 0 < exact, NEW u \in Nat, 0 < u
  PROVE  /\ Doublings(a, exact, u) \in Reaches(a, exact, u)
         /\ \A j \in Reaches(a, exact, u) : Doublings(a, exact, u) <= j
<1> DEFINE R == Reaches(a, exact, u)
<1>1. a \in R
  <2>1. Pow[a] \in Nat /\ a < Pow[a]
    BY Powers
  <2>2. Pow[a] <= u * Pow[a] /\ u * Pow[a] \in Nat
    BY <2>1
  <2>3. u * Pow[a] <= exact * (u * Pow[a])
    BY <2>2
  <2>4. exact * (u * Pow[a]) \in Nat
    BY <2>2
  <2> QED
    BY <2>1, <2>2, <2>3, <2>4 DEF Reaches
<1>2. R \in SUBSET Nat
  BY DEF Reaches
<1> HIDE DEF R
<1>3. \E k \in R : \A j \in R : k <= j
  BY <1>1, <1>2, LeastNumber
<1> QED
  BY <1>3 DEF Doublings, R

\* The loop that finds the distance between floats stops at a power of two,
\* and is the least that brings a within exact of them.
Ulp(exact, v) == Pow[Doublings(Abs(v), exact, 1)]
Nearest(a, u) ==
  IF 2 * (a % u) > u \/ (2 * (a % u) = u /\ (a \div u) % 2 = 1)
  THEN u * ((a \div u) + 1) ELSE u * (a \div u)
LEMMA RoundMeans ==
  ASSUME NEW e \in Nat, 0 < e, NEW v \in Int
  PROVE  Round(e, v) =
           IF Abs(v) <= e THEN v
           ELSE IF v < 0 THEN -Nearest(Abs(v), Ulp(e, v)) ELSE Nearest(Abs(v), Ulp(e, v))
<1> DEFINE b == Abs(v)
           Is(g) == g = [u \in Nat |-> IF b <= e * u THEN u ELSE g[2 * u]]
           K(u) == Doublings(b, e, u)
           f == [u \in Nat |-> IF u = 0 THEN 0 ELSE u * Pow[K(u)]]
           p == CHOOSE g : Is(g)
<1>1. /\ \A k \in Nat : Pow[k] \in Nat /\ k < Pow[k]
      /\ Pow[0] = 1
      /\ \A n \in Nat : Pow[n + 1] = 2 * Pow[n]
  BY Powers DEF IsPowers
<1>2. b \in Nat
  BY DEF Abs
<1>3. Round(e, v) =
         LET u == p[1]
             q == Abs(v) \div u
             r == Abs(v) % u
             a == u * (IF 2 * r > u \/ (2 * r = u /\ q % 2 = 1) THEN q + 1 ELSE q)
         IN IF Abs(v) <= e THEN v ELSE IF v < 0 THEN -a ELSE a
  BY DEF Round
<1> HIDE DEF b
<1>4. \A u \in Nat : 0 < u => K(u) \in Nat /\ b <= e * (u * Pow[K(u)])
                              /\ \A j \in Nat : b <= e * (u * Pow[j]) => K(u) <= j
  BY <1>2, DoublingsLeast DEF Reaches
<1> HIDE DEF K
<1>5. ASSUME NEW u \in Nat PROVE f[u] = IF b <= e * u THEN u ELSE f[2 * u]
  <2>1. CASE u = 0
    BY <2>1
  <2>2. CASE u # 0 /\ b <= e * u
    <3>1. K(u) <= 0 /\ K(u) \in Nat
      <4>1. b <= e * (u * Pow[0])
        BY <1>1, <2>2
      <4> QED
        BY <1>4, <2>2, <4>1
    <3> QED
      BY <1>1, <2>2, <3>1
  <2>3. CASE u # 0 /\ ~(b <= e * u)
    <3>1. K(u) \in Nat /\ K(u) # 0
      BY <1>1, <1>4, <2>3
    <3> DEFINE k == K(u) - 1
    <3>2. k \in Nat /\ k + 1 = K(u)
      BY <3>1
    <3> HIDE DEF k
    <3>3. \A j \in Nat : u * Pow[j + 1] = (2 * u) * Pow[j]
      <4> SUFFICES ASSUME NEW j \in Nat PROVE u * Pow[j + 1] = (2 * u) * Pow[j]
        OBVIOUS
      <4>1. Pow[j] \in Nat /\ Pow[j + 1] = 2 * Pow[j]
        BY <1>1
      <4> QED
        BY <4>1
    <3>4. 2 * u \in Nat /\ 0 < 2 * u
      BY <2>3
    <3>5. b <= e * ((2 * u) * Pow[k])
      <4>1. b <= e * (u * Pow[k + 1])
        BY <1>4, <2>3, <3>2
      <4>2. u * Pow[k + 1] = (2 * u) * Pow[k]
        BY <3>2, <3>3
      <4> QED
        BY <4>1, <4>2
    <3>6. K(2 * u) \in Nat /\ K(2 * u) <= k
      BY <1>4, <3>2, <3>4, <3>5
    <3>7. b <= e * (u * Pow[K(2 * u) + 1]) /\ K(2 * u) + 1 \in Nat
      BY <1>4, <3>3, <3>4, <3>6
    <3>8. K(u) <= K(2 * u) + 1
      BY <1>4, <2>3, <3>7
    <3>9. K(2 * u) = k
      BY <3>2, <3>6, <3>8
    <3>10. f[2 * u] = (2 * u) * Pow[k] /\ f[u] = u * Pow[k + 1]
      BY <2>3, <3>2, <3>4, <3>9
    <3> QED
      BY <2>3, <3>2, <3>3, <3>10
  <2> QED
    BY <2>1, <2>2, <2>3
<1>6. Is(f)
  <2> HIDE DEF f
  <2>1. f = [u \in Nat |-> f[u]]
    BY DEF f
  <2> QED
    BY <1>5, <2>1
<1>7. Is(p)
  <2> HIDE DEF Is, f
  <2> QED
    BY <1>6
<1> HIDE DEF p, f
<1> DEFINE n == K(1)
           S == {i \in 0 .. n : p[1] = p[Pow[i]]}
<1>8. n \in Nat /\ b <= e * Pow[n] /\ \A j \in Nat : b <= e * Pow[j] => n <= j
  BY <1>1, <1>4
<1> HIDE DEF n
<1>9. 0 \in S
  BY <1>1, <1>8
<1>10. ASSUME NEW i \in 0 .. (n - 1), i \in S PROVE i + 1 \in S
  <2>1. i \in Nat /\ Pow[i] \in Nat /\ Pow[i + 1] = 2 * Pow[i] /\ ~(b <= e * Pow[i])
    BY <1>1, <1>8
  <2>2. p[Pow[i]] = p[2 * Pow[i]]
    BY <1>7, <2>1
  <2> QED
    BY <1>8, <1>10, <2>1, <2>2
<1>11. n \in S
  <2> HIDE DEF S
  <2>1. \A i \in 0 .. n : i \in S
    BY <1>8, <1>9, <1>10, UpTo
  <2> QED
    BY <1>8, <2>1
<1>12. p[Pow[n]] = Pow[n]
  BY <1>1, <1>7, <1>8
<1>13. p[1] = Ulp(e, v)
  BY <1>11, <1>12 DEF n, K, b, Ulp
<1> QED
  BY <1>3, <1>13 DEF Nearest

\* Rounding lands on a number a float holds, and no further than exact floats away.
LEMMA NearestFits ==
  ASSUME NEW a \in Nat, NEW u \in Nat, 0 < u, NEW e \in Nat, a <= e * u
  PROVE  \E q \in Nat : q <= e /\ Nearest(a, u) = u * q
<1> DEFINE q == a \div u
           r == a % u
<1>1. q \in Nat /\ r \in Nat /\ r < u /\ a = u * q + r
  BY DivMod
<1>2. Nearest(a, u) = IF 2 * r > u \/ (2 * r = u /\ q % 2 = 1) THEN u * (q + 1) ELSE u * q
  BY DEF Nearest
<1> HIDE DEF q, r
<1>3. u * q <= u * e /\ u * q \in Nat
  BY <1>1
<1>4. q <= e
  BY <1>1, <1>3
<1>5. CASE r = 0
  BY <1>1, <1>2, <1>4, <1>5
<1>6. CASE r # 0
  <2>1. u * q < u * e
    BY <1>1, <1>3, <1>6
  <2>2. q + 1 <= e
    BY <1>1, <2>1
  <2>3. q + 1 \in Nat /\ (Nearest(a, u) = u * (q + 1) \/ Nearest(a, u) = u * q)
    BY <1>1, <1>2
  <2> QED
    BY <1>1, <1>4, <2>2, <2>3
<1> QED
  BY <1>1, <1>5, <1>6

\* A float holds what rounding gives.
LEMMA RoundIsRepresentable ==
  ASSUME NEW e \in Nat, 0 < e, NEW v \in Int
  PROVE  Round(e, v) \in Representable(e)
<1> DEFINE a == Abs(v)
           d == Doublings(a, e, 1)
           u == Pow[d]
           w == Nearest(a, u)
<1>1. a \in Nat
  BY DEF Abs
<1>2. d \in Nat /\ a <= e * u /\ u \in Nat /\ 0 < u
  <2>1. d \in Reaches(a, e, 1)
    BY <1>1, DoublingsLeast
  <2> HIDE DEF a, d
  <2>2. d \in Nat /\ a <= e * (1 * Pow[d])
    BY <2>1 DEF Reaches
  <2>3. Pow[d] \in Nat /\ d < Pow[d]
    BY <2>2, Powers
  <2> QED
    BY <2>2, <2>3
<1>3. PICK q \in Nat : q <= e /\ w = u * q
  <2> HIDE DEF a, u
  <2> QED
    BY <1>1, <1>2, NearestFits
<1>4. Round(e, v) = IF a <= e THEN v ELSE IF v < 0 THEN -w ELSE w
  BY RoundMeans DEF Ulp
<1>5. CASE a <= e
  <2>1. Pow[0] = 1
    BY Powers DEF IsPowers
  <2>2. v \in Int /\ Abs(v) = Pow[0] * a /\ 0 \in Nat /\ Round(e, v) = v
    BY <1>1, <1>4, <1>5, <2>1
  <2> HIDE DEF a
  <2> QED
    BY <1>1, <1>5, <2>2 DEF Representable
<1>6. CASE ~(a <= e)
  <2>1. w \in Nat /\ w = Pow[d] * q
    BY <1>2, <1>3
  <2> HIDE DEF a, w, d
  <2>2. Round(e, v) \in {w, -w}
    BY <1>4, <1>6
  <2>3. Round(e, v) \in Int /\ Abs(Round(e, v)) = w
    BY <2>1, <2>2 DEF Abs
  <2> QED
    BY <1>2, <1>3, <2>1, <2>3 DEF Representable
<1> QED
  BY <1>5, <1>6

\* Rounding leaves alone what a float holds.
LEMMA RepresentableIsStable ==
  ASSUME NEW e \in Nat, 0 < e, NEW v \in Representable(e)
  PROVE  v \in Int /\ Round(e, v) = v
<1> DEFINE a == Abs(v)
           d == Doublings(a, e, 1)
           u == Pow[d]
           w == Nearest(a, u)
<1>1. v \in Int /\ a \in Nat
  BY DEF Representable, Abs
<1>2. PICK k, q \in Nat : q <= e /\ a = Pow[k] * q
  BY DEF Representable
<1>3. Round(e, v) = IF a <= e THEN v ELSE IF v < 0 THEN -w ELSE w
  BY <1>1, RoundMeans DEF Ulp
<1>4. v = IF v < 0 THEN -a ELSE a
  BY <1>1 DEF Abs
<1> HIDE DEF a
<1>5. Pow[k] \in Nat
  BY Powers
<1>6. d \in Nat /\ d <= k
  <2>1. d \in Reaches(a, e, 1) /\ \A j \in Reaches(a, e, 1) : d <= j
    BY <1>1, DoublingsLeast
  <2>2. a <= e * (1 * Pow[k])
    BY <1>1, <1>2, <1>5
  <2>3. k \in Reaches(a, e, 1)
    BY <2>2 DEF Reaches
  <2> HIDE DEF d
  <2> QED
    BY <2>1, <2>3 DEF Reaches
<1>7. u \in Nat /\ 0 < u
  <2> HIDE DEF d
  <2>1. Pow[d] \in Nat /\ d < Pow[d]
    BY <1>6, Powers
  <2> QED
    BY <1>6, <2>1
<1>8. PICK p \in Nat : a = u * p
  <2> HIDE DEF d
  <2>1. k - d \in Nat /\ d + (k - d) = k
    BY <1>6
  <2>2. Pow[k - d] \in Nat
    BY <2>1, Powers
  <2>3. Pow[d + (k - d)] = Pow[d] * Pow[k - d]
    BY <1>6, <2>1, Powers
  <2>4. a = (u * Pow[k - d]) * q
    BY <1>2, <2>1, <2>3
  <2> HIDE DEF u
  <2>5. a = u * (Pow[k - d] * q)
    BY <1>7, <2>2, <2>4
  <2>6. Pow[k - d] * q \in Nat
    BY <2>2
  <2> QED
    BY <2>5, <2>6
<1> HIDE DEF u
<1>9. w = a
  <2>1. (u * p + 0) \div u = p /\ (u * p + 0) % u = 0
    BY <1>7, DivModUnique
  <2>2. a \div u = p /\ a % u = 0
    BY <1>7, <1>8, <2>1
  <2> QED
    BY <1>7, <1>8, <2>2 DEF Nearest
<1> QED
  BY <1>1, <1>3, <1>4, <1>9

\* Rounding is done once, and a small number is not rounded.
LEMMA RoundStable ==
  ASSUME NEW e \in Nat, 0 < e, NEW v \in Int
  PROVE  /\ Round(e, v) \in Int
         /\ Round(e, Round(e, v)) = Round(e, v)
         /\ Abs(v) <= e => Round(e, v) = v /\ v \in Representable(e)
<1>1. Round(e, v) \in Representable(e)
  BY RoundIsRepresentable
<1>2. Abs(v) <= e => Round(e, v) = v
  BY RoundMeans
<1> QED
  BY <1>1, <1>2, RepresentableIsStable

\* What f32 holds, f64 holds.
LEMMA WiderHolds ==
  ASSUME NEW e \in Nat, NEW g \in Nat, e <= g
  PROVE  Representable(e) \subseteq Representable(g)
BY DEF Representable

-----------------------------------------------------------------------------
(* Tensors and the buffers they are made of. *)

Held(d) ==
  IF d = "f32" THEN Representable(F32Exact)
  ELSE IF d = "f64" THEN Representable(F64Exact) ELSE 0 .. U64Max
\* What f64 holds: the values every operation computes with.
Wide == Representable(F64Exact)
\* An operation answers a tensor or something that is none.
Fine(r) == r.dtype \in Dtype => IsTensor(r)

\* The three widths hold what is rounded or clamped to them.
LEMMA Widths ==
  /\ \A v \in Int : F32(v) \in Representable(F32Exact) /\ F64(v) \in Wide
  /\ \A v \in Nat : Saturate(v) \in 0 .. U64Max
  /\ Representable(F32Exact) \subseteq Wide /\ Wide \subseteq Int
  /\ 0 \in Wide /\ 1 \in Wide
<1>1. F32Exact \in Nat /\ 0 < F32Exact /\ F64Exact \in Nat /\ 0 < F64Exact
      /\ F32Exact <= F64Exact /\ U64Max \in Nat
  BY WidthAssumption
<1>2. \A v \in Int : F32(v) \in Representable(F32Exact) /\ F64(v) \in Wide
  BY <1>1, RoundIsRepresentable DEF F32, F64, Wide
<1>3. \A v \in Nat : Saturate(v) \in 0 .. U64Max
  BY <1>1 DEF Saturate
<1>4. Representable(F32Exact) \subseteq Wide /\ Wide \subseteq Int
  BY <1>1, WiderHolds DEF Wide, Representable
<1>5. ASSUME NEW v \in {0, 1} PROVE v \in Wide
  <2>1. v \in Int /\ Abs(v) <= F64Exact
    BY <1>1 DEF Abs
  <2> QED
    BY <1>1, <2>1, RoundStable DEF Wide
<1> QED
  BY <1>2, <1>3, <1>4, <1>5

\* A value is within the width of a dtype when the dtype holds it.
LEMMA InWidthIsHeld ==
  ASSUME NEW d \in Dtype, NEW v \in Int
  PROVE  InWidth(d, v) <=> v \in Held(d)
<1>1. F32Exact \in Nat /\ 0 < F32Exact /\ F64Exact \in Nat /\ 0 < F64Exact
  BY WidthAssumption
<1>2. v = F32(v) <=> v \in Representable(F32Exact)
  BY <1>1, RoundIsRepresentable, RepresentableIsStable DEF F32
<1>3. v = F64(v) <=> v \in Representable(F64Exact)
  BY <1>1, RoundIsRepresentable, RepresentableIsStable DEF F64
<1>4. CASE d = "f32"
  BY <1>2, <1>4 DEF InWidth, Held
<1>5. CASE d = "f64"
  BY <1>3, <1>5 DEF InWidth, Held
<1>6. CASE d = "u64"
  BY <1>6 DEF InWidth, Held
<1> QED
  BY <1>4, <1>5, <1>6 DEF Dtype

\* Every dtype holds whole numbers, and all but u64 hold what f64 holds.
LEMMA HeldTypes ==
  ASSUME NEW d \in Dtype
  PROVE  Held(d) \subseteq Int /\ (d # "u64" => Held(d) \subseteq Wide)
<1>1. Representable(F32Exact) \subseteq Wide /\ Wide \subseteq Int /\ U64Max \in Nat
  BY Widths, WidthAssumption
<1>2. 0 .. U64Max \subseteq Int
  BY <1>1
<1>3. Held(d) \in {Representable(F32Exact), Wide, 0 .. U64Max}
      /\ (d # "u64" => Held(d) \in {Representable(F32Exact), Wide})
  BY <1>1 DEF Held, Dtype, Wide
<1> QED
  BY <1>1, <1>2, <1>3

\* What a tensor is made of.
LEMMA TensorParts ==
  ASSUME NEW t, IsTensor(t)
  PROVE  /\ t = [dtype |-> t.dtype, shape |-> t.shape, values |-> t.values]
         /\ t.dtype \in Dtype /\ t.shape \in Shapes /\ Size(t.shape) \in Nat
         /\ Len(t.values) = Size(t.shape)
         /\ t.values \in [1 .. Size(t.shape) -> Held(t.dtype)]
<1>1. /\ t \in [dtype : Dtype, shape : Seq(Nat), values : Seq(Int)]
      /\ Len(t.values) = Cardinality(Coords(t.shape))
      /\ \A i \in DOMAIN t.values : InWidth(t.dtype, t.values[i])
  BY DEF IsTensor
<1>2. t.dtype \in Dtype /\ t.shape \in Shapes /\ t.values \in Seq(Int)
  BY <1>1 DEF Shapes
<1>3. Size(t.shape) \in Nat /\ Len(t.values) = Size(t.shape)
  BY <1>1, <1>2, SizeIsBlocks, CoordsCount
<1>4. \A i \in 1 .. Size(t.shape) : t.values[i] \in Held(t.dtype)
  BY <1>1, <1>2, <1>3, InWidthIsHeld
<1>5. t.values \in [1 .. Size(t.shape) -> Held(t.dtype)]
  BY <1>2, <1>3, <1>4
<1> QED
  BY <1>1, <1>2, <1>3, <1>5

\* A tensor is made of those.
LEMMA TensorMade ==
  ASSUME NEW d \in Dtype, NEW s \in Shapes, NEW v \in [1 .. Size(s) -> Held(d)]
  PROVE  /\ v \in Seq(Int) /\ Len(v) = Size(s)
         /\ IsTensor([dtype |-> d, shape |-> s, values |-> v])
<1>1. Size(s) \in Nat /\ Cardinality(Coords(s)) = Size(s)
  BY SizeIsBlocks, CoordsCount
<1>2. Held(d) \subseteq Int
  BY HeldTypes
<1>3. v \in [1 .. Size(s) -> Int]
  BY <1>2
<1>4. v \in Seq(Int) /\ Len(v) = Size(s) /\ DOMAIN v = 1 .. Size(s)
  BY <1>1, <1>3
<1>5. \A i \in DOMAIN v : InWidth(d, v[i])
  BY <1>2, <1>4, InWidthIsHeld
<1> QED
  BY <1>1, <1>4, <1>5 DEF IsTensor, Shapes

\* The constructors check the length and nothing else.
LEMMA DenseMeans ==
  ASSUME NEW d \in Dtype, NEW s \in Shapes, NEW n \in Nat, NEW v \in [1 .. n -> Held(d)]
  PROVE  /\ Fine(Dense(d, s, v))
         /\ n = Size(s) => Dense(d, s, v) = [dtype |-> d, shape |-> s, values |-> v]
         /\ n # Size(s) => Dense(d, s, v) = Err
<1>1. Len(v) = n
  BY HeldTypes
<1>2. CASE n = Size(s)
  BY <1>1, <1>2, TensorMade DEF Dense, Fine
<1>3. CASE n # Size(s)
  BY <1>1, <1>3 DEF Dense, Fine, Err, Dtype
<1> QED
  BY <1>2, <1>3

\* Values as the operations read them.
LEMMA ValuesF64Wide ==
  ASSUME NEW t, IsTensor(t)
  PROVE  /\ ValuesF64(t) \in [1 .. Size(t.shape) -> Wide]
         /\ Len(ValuesF64(t)) = Size(t.shape) /\ DOMAIN ValuesF64(t) = 1 .. Size(t.shape)
         /\ t.dtype # "u64" => ValuesF64(t) = t.values
<1>1. /\ t.dtype \in Dtype /\ Size(t.shape) \in Nat
      /\ t.values \in [1 .. Size(t.shape) -> Held(t.dtype)]
  BY TensorParts
<1>2. Held(t.dtype) \subseteq Int /\ (t.dtype # "u64" => Held(t.dtype) \subseteq Wide)
  BY <1>1, HeldTypes
<1>3. \A i \in 1 .. Size(t.shape) : t.values[i] \in Int /\ F64(t.values[i]) \in Wide
  BY <1>1, <1>2, Widths
<1>4. ValuesF64(t) \in [1 .. Size(t.shape) -> Wide]
  BY <1>1, <1>2, <1>3 DEF ValuesF64
<1>5. \A n \in Nat : \A v \in [1 .. n -> Wide] : Len(v) = n /\ DOMAIN v = 1 .. n
  OBVIOUS
<1> QED
  BY <1>1, <1>4, <1>5 DEF ValuesF64

\* The result of an operation, made from what it computed.
LEMMA FromF64LikeMeans ==
  ASSUME NEW d \in Dtype, NEW s \in Shapes, NEW n \in Nat, NEW v \in [1 .. n -> Wide]
  PROVE  /\ Fine(FromF64Like(d, s, v))
         /\ n # Size(s) => FromF64Like(d, s, v) = Err
         /\ n = Size(s) => IsTensor(FromF64Like(d, s, v)) /\ FromF64Like(d, s, v).shape = s
         /\ n = Size(s) /\ d = "f64" =>
              FromF64Like(d, s, v) = [dtype |-> d, shape |-> s, values |-> v]
<1>1. Wide \subseteq Int /\ "f64" \in Dtype /\ "f32" \in Dtype /\ "u64" \in Dtype
  BY Widths DEF Dtype
<1>2. v \in [1 .. n -> Int] /\ DOMAIN v = 1 .. n
  BY <1>1
<1>3. CASE d = "f64"
  <2>1. FromF64Like(d, s, v) = Dense("f64", s, v)
    BY <1>3 DEF FromF64Like
  <2>2. v \in [1 .. n -> Held("f64")]
    BY DEF Held, Wide
  <2>3. /\ Fine(Dense("f64", s, v))
        /\ n = Size(s) => Dense("f64", s, v) = [dtype |-> "f64", shape |-> s, values |-> v]
        /\ n # Size(s) => Dense("f64", s, v) = Err
    BY <1>1, <2>2, DenseMeans
  <2> QED
    BY <1>1, <1>3, <2>1, <2>3 DEF Fine
<1>4. CASE d # "f64" /\ d = "u64" /\ Whole(v)
  <2> DEFINE w == [i \in DOMAIN v |-> Saturate(v[i])]
  <2>1. FromF64Like(d, s, v) = Dense("u64", s, w)
    BY <1>4 DEF FromF64Like
  <2>2. \A i \in 1 .. n : v[i] \in Nat
    BY <1>2, <1>4 DEF Whole
  <2>3. w \in [1 .. n -> Held("u64")]
    BY <1>2, <2>2, Widths DEF Held
  <2> HIDE DEF w
  <2>4. /\ Fine(Dense("u64", s, w))
        /\ n = Size(s) => Dense("u64", s, w) = [dtype |-> "u64", shape |-> s, values |-> w]
        /\ n # Size(s) => Dense("u64", s, w) = Err
    BY <1>1, <2>3, DenseMeans
  <2> QED
    BY <1>1, <1>4, <2>1, <2>4 DEF Fine
<1>5. CASE d # "f64" /\ ~(d = "u64" /\ Whole(v))
  <2> DEFINE w == [i \in DOMAIN v |-> F32(v[i])]
  <2>1. FromF64Like(d, s, v) = Dense("f32", s, w)
    BY <1>5 DEF FromF64Like
  <2>2. w \in [1 .. n -> Held("f32")]
    BY <1>2, Widths DEF Held
  <2> HIDE DEF w
  <2>3. /\ Fine(Dense("f32", s, w))
        /\ n = Size(s) => Dense("f32", s, w) = [dtype |-> "f32", shape |-> s, values |-> w]
        /\ n # Size(s) => Dense("f32", s, w) = Err
    BY <1>1, <2>2, DenseMeans
  <2> QED
    BY <1>1, <1>5, <2>1, <2>3 DEF Fine
<1> QED
  BY <1>3, <1>4, <1>5

\* A read at a coordinate within the shape is within the buffer.
LEMMA AtHolds ==
  ASSUME NEW t, IsTensor(t), NEW c \in Coordinates(t.shape)
  PROVE  /\ CoordOffset(t.shape, c) + 1 \in 1 .. Size(t.shape)
         /\ At(t, c) \in Held(t.dtype)
<1>1. /\ t.shape \in Shapes /\ Size(t.shape) \in Nat
      /\ t.values \in [1 .. Size(t.shape) -> Held(t.dtype)]
  BY TensorParts
<1>2. CoordOffset(t.shape, c) \in 0 .. (Size(t.shape) - 1)
  BY <1>1, CoordOffsetIsOffsets
<1> QED
  BY <1>1, <1>2 DEF At

-----------------------------------------------------------------------------
(* Every operation answers a tensor or an error: no index it computes from a *)
(* coordinate leaves the buffer.                                             *)

LEMMA CastFine ==
  ASSUME NEW t, IsTensor(t), NEW d
  PROVE  Fine(Cast(t, d))
<1> DEFINE s == t.shape
           v == ValuesF64(t)
           w == [i \in DOMAIN v |-> CASE d = "f32" -> F32(v[i])
                                      [] d = "f64" -> v[i]
                                      [] d = "u64" -> Saturate(v[i])]
<1>1. /\ s \in Shapes /\ Size(s) \in Nat /\ Wide \subseteq Int
      /\ v \in [1 .. Size(s) -> Wide] /\ DOMAIN v = 1 .. Size(s)
  BY TensorParts, ValuesF64Wide, Widths
<1>2. CASE d \notin Dtype
  BY <1>2 DEF Cast, Err, Fine, Dtype
<1>3. CASE d = t.dtype
  BY <1>3 DEF Cast, Err, Fine, Dtype
<1>4. CASE d \in Dtype /\ d # t.dtype /\ d = "u64" /\ ~Whole(v)
  BY <1>4 DEF Cast, Err, Fine, Dtype
<1>5. CASE d \in Dtype /\ d # t.dtype /\ ~(d = "u64" /\ ~Whole(v))
  <2>1. Cast(t, d) = Dense(d, s, w)
    BY <1>5 DEF Cast
  <2> HIDE DEF v, s
  <2>2. w \in [1 .. Size(s) -> Held(d)]
    <3>1. CASE d = "f32"
      BY <1>1, <3>1, Widths DEF Held
    <3>2. CASE d = "f64"
      BY <1>1, <3>2 DEF Held, Wide
    <3>3. CASE d = "u64"
      <4>1. \A i \in 1 .. Size(s) : v[i] \in Nat
        <5>1. Whole(v) /\ \A i \in 1 .. Size(s) : v[i] \in Int
          BY <1>1, <1>5, <3>3
        <5> QED
          BY <1>1, <5>1 DEF Whole
      <4> QED
        BY <1>1, <3>3, <4>1, Widths DEF Held
    <3> QED
      BY <1>5, <3>1, <3>2, <3>3 DEF Dtype
  <2> HIDE DEF w
  <2> QED
    BY <1>1, <1>5, <2>1, <2>2, DenseMeans
<1> QED
  BY <1>2, <1>3, <1>4, <1>5

\* A number that passes the check for a dtype becomes a value it holds.
LEMMA ComponentHeld ==
  ASSUME NEW d \in Dtype, NEW n \in Int \cup {Complex}, Component(d, n)
  PROVE  ToComponent(d, n) \in Held(d)
<1>1. n \in Int /\ (d = "u64" => n \in Nat)
  BY DEF Component, EnsureU64Component, EnsureNonComplex
<1> QED
  BY <1>1, Widths DEF ToComponent, Held, Dtype, Wide

LEMMA FromPartsFine ==
  ASSUME NEW d, NEW s \in Shapes, NEW v \in Seq(Int \cup {Complex})
  PROVE  /\ Fine(TensorFromParts(d, s, v))
         /\ TensorFromParts(d, s, v) # Err => IsTensor(TensorFromParts(d, s, v))
<1> DEFINE w == [i \in DOMAIN v |-> ToComponent(d, v[i])]
<1>1. CASE ~(d \in Dtype /\ \A i \in DOMAIN v : Component(d, v[i]))
  BY <1>1 DEF TensorFromParts, Fine, Err, Dtype
<1>2. CASE d \in Dtype /\ \A i \in DOMAIN v : Component(d, v[i])
  <2>1. TensorFromParts(d, s, v) = Dense(d, s, w)
    BY <1>2 DEF TensorFromParts
  <2>2. Len(v) \in Nat /\ DOMAIN v = 1 .. Len(v)
    OBVIOUS
  <2>3. \A i \in 1 .. Len(v) : v[i] \in Int \cup {Complex} /\ Component(d, v[i])
    BY <1>2, <2>2
  <2>4. \A i \in 1 .. Len(v) : ToComponent(d, v[i]) \in Held(d)
    BY <1>2, <2>3, ComponentHeld
  <2>5. w \in [1 .. Len(v) -> Held(d)]
    BY <2>2, <2>4
  <2> HIDE DEF w
  <2>6. /\ Fine(Dense(d, s, w))
        /\ Dense(d, s, w) # Err => Dense(d, s, w) = [dtype |-> d, shape |-> s, values |-> w]
    BY <1>2, <2>2, <2>5, DenseMeans
  <2> QED
    BY <1>2, <2>1, <2>6 DEF Fine
<1> QED
  BY <1>1, <1>2

LEMMA ReadFine ==
  ASSUME NEW t, NEW c
  PROVE  Fine(ReadValue(t, c))
BY DEF ReadValue, Scalar, Err, Fine, Dtype

\* A function has one length.
LEMMA SameLength ==
  ASSUME NEW V, NEW q \in Seq(V), NEW n \in Nat, q \in [1 .. n -> V]
  PROVE  Len(q) = n
<1>1. 1 .. Len(q) = 1 .. n /\ Len(q) \in Nat
  OBVIOUS
<1>2. Len(q) \in 1 .. n \/ Len(q) = 0
  BY <1>1
<1>3. n \in 1 .. Len(q) \/ n = 0
  BY <1>1
<1> QED
  BY <1>1, <1>2, <1>3

\* The check of a coordinate.
LEMMA CoordOkMeans ==
  ASSUME NEW s \in Shapes, NEW c \in Shapes
  PROVE  CoordOk(s, c) <=> c \in Coordinates(s)
<1>1. Len(s) \in Nat /\ DOMAIN s = 1 .. Len(s) /\ c \in [1 .. Len(c) -> Nat] /\ Len(c) \in Nat
  BY DEF Shapes
<1>2. CoordOk(s, c) => c \in Coordinates(s)
  BY <1>1 DEF CoordOk, Coordinates
<1>3. ASSUME c \in Coordinates(s) PROVE CoordOk(s, c)
  <2>1. c \in [1 .. Len(s) -> Nat]
    BY <1>3 DEF Coordinates
  <2>2. Len(c) = Len(s)
    BY <1>1, <2>1, SameLength DEF Shapes
  <2> QED
    BY <1>1, <1>3, <2>2 DEF CoordOk, Coordinates
<1> QED
  BY <1>2, <1>3

LEMMA WriteFine ==
  ASSUME NEW t, IsTensor(t), NEW c \in Shapes, NEW n \in Int \cup {Complex}
  PROVE  /\ Fine(WriteValue(t, c, n))
         /\ WriteValue(t, c, n) # Err =>
              /\ c \in Coordinates(t.shape)
              /\ WriteValue(t, c, n) =
                   [dtype |-> t.dtype, shape |-> t.shape,
                    values |-> [t.values EXCEPT ![CoordOffset(t.shape, c) + 1] = ToComponent(t.dtype, n)]]
              /\ ToComponent(t.dtype, n) \in Held(t.dtype)
<1> DEFINE w == [t.values EXCEPT ![CoordOffset(t.shape, c) + 1] = ToComponent(t.dtype, n)]
<1>1. /\ t = [dtype |-> t.dtype, shape |-> t.shape, values |-> t.values]
      /\ t.dtype \in Dtype /\ t.shape \in Shapes
      /\ t.values \in [1 .. Size(t.shape) -> Held(t.dtype)]
  BY TensorParts
<1>2. CASE ~(CoordOk(t.shape, c) /\ Component(t.dtype, n))
  BY <1>2 DEF WriteValue, Fine, Err, Dtype
<1>3. CASE CoordOk(t.shape, c) /\ Component(t.dtype, n)
  <2>1. WriteValue(t, c, n) = [dtype |-> t.dtype, shape |-> t.shape, values |-> w]
    <3>1. WriteValue(t, c, n)
            = [t EXCEPT !.values[CoordOffset(t.shape, c) + 1] = ToComponent(t.dtype, n)]
      BY <1>3 DEF WriteValue
    <3> QED
      BY <1>1, <3>1
  <2>2. ToComponent(t.dtype, n) \in Held(t.dtype)
    BY <1>1, <1>3, ComponentHeld
  <2>3. w \in [1 .. Size(t.shape) -> Held(t.dtype)]
    BY <1>1, <2>2
  <2>4. c \in Coordinates(t.shape)
    BY <1>1, <1>3, CoordOkMeans
  <2> HIDE DEF w
  <2>5. IsTensor([dtype |-> t.dtype, shape |-> t.shape, values |-> w])
    BY <1>1, <2>3, TensorMade
  <2> QED
    BY <2>1, <2>2, <2>4, <2>5 DEF Fine, w
<1> QED
  BY <1>2, <1>3

LEMMA ReshapeFine ==
  ASSUME NEW t, IsTensor(t), NEW s \in Shapes
  PROVE  Fine(Reshape(t, s))
<1>1. t.dtype \in Dtype /\ Size(t.shape) \in Nat /\ ValuesF64(t) \in [1 .. Size(t.shape) -> Wide]
  BY TensorParts, ValuesF64Wide
<1>2. Fine(FromF64Like(t.dtype, s, ValuesF64(t)))
  BY <1>1, FromF64LikeMeans
<1> QED
  BY <1>2 DEF Reshape, Fine, Err, Dtype

LEMMA ExpandLastFine ==
  ASSUME NEW t, IsTensor(t)
  PROVE  Fine(ExpandLast(t))
<1>1. /\ t.dtype \in Dtype /\ t.shape \in Shapes
      /\ Size(t.shape) \in Nat /\ ValuesF64(t) \in [1 .. Size(t.shape) -> Wide]
  BY TensorParts, ValuesF64Wide
<1>2. Append(t.shape, 1) \in Shapes
  BY <1>1 DEF Shapes
<1>3. Fine(FromF64Like(t.dtype, Append(t.shape, 1), ValuesF64(t)))
  BY <1>1, <1>2, FromF64LikeMeans
<1> QED
  BY <1>3 DEF ExpandLast

\* The shape the axes are inserted in stays a shape until one is refused.
LEMMA ExpandDimsMeans ==
  ASSUME NEW t, IsTensor(t), NEW axes \in Shapes
  PROVE  \E s \in Shapes \cup {<<-1>>} :
           ExpandDims(t, axes) =
             IF s = <<-1>> THEN Err ELSE FromF64Like(t.dtype, s, ValuesF64(t))
<1> DEFINE n == Len(axes)
           V == Shapes \cup {<<-1>>}
           next(s, i) == IF s = <<-1>> \/ axes[i] > Len(s) THEN <<-1>>
                         ELSE InsertAt(s, axes[i] + 1, 1)
           F == [i \in 1 .. n |-> [s \in V |-> next(s, i)]]
           Is(f) == f = [i \in 0 .. n |-> IF i = 0 THEN t.shape ELSE next(f[i - 1], i)]
           p == CHOOSE f : Is(f)
           S == {i \in 0 .. n : p[i] \in V}
<1>1. n \in Nat /\ t.shape \in Shapes /\ t.shape \in V
  BY TensorParts DEF Shapes
<1>2. ASSUME NEW i \in 1 .. n, NEW s \in V PROVE next(s, i) \in V
  <2>1. CASE s = <<-1>> \/ axes[i] > Len(s)
    BY <2>1
  <2>2. CASE ~(s = <<-1>> \/ axes[i] > Len(s))
    <3>1. s \in Seq(Nat) /\ axes[i] \in Nat /\ axes[i] <= Len(s)
      BY <2>2 DEF Shapes
    <3>2. SubSeq(s, 1, axes[i]) \in Seq(Nat)
      BY <3>1
    <3>3. SubSeq(s, axes[i] + 1, Len(s)) \in Seq(Nat)
      BY <3>1
    <3>4. (axes[i] + 1) - 1 = axes[i]
      BY <3>1
    <3>5. InsertAt(s, axes[i] + 1, 1)
            = SubSeq(s, 1, axes[i]) \o <<1>> \o SubSeq(s, axes[i] + 1, Len(s))
      BY <3>4, Zenon DEF InsertAt
    <3>6. \A a, b \in Seq(Nat) : a \o b \in Seq(Nat)
      OBVIOUS
    <3>7. <<1>> \in Seq(Nat)
      OBVIOUS
    <3>8. (SubSeq(s, 1, axes[i]) \o <<1>>) \o SubSeq(s, axes[i] + 1, Len(s)) \in Seq(Nat)
      <4>1. SubSeq(s, 1, axes[i]) \o <<1>> \in Seq(Nat)
        BY <3>2, <3>6, <3>7
      <4> QED
        BY <3>3, <3>6, <4>1
    <3>9. InsertAt(s, axes[i] + 1, 1) \in Shapes
      BY <3>5, <3>8, Zenon DEF Shapes
    <3> QED
      BY <2>2, <3>9
  <2> QED
    BY <2>1, <2>2
<1>3. F \in Steps(1 .. n, V)
  BY <1>2 DEF Steps
<1>4. \A i \in 1 .. n, s \in V : F[i][s] = next(s, i)
  OBVIOUS
<1> HIDE DEF F, V, next
<1>5. RecursTo(n, V, t.shape, F)
  <2> HIDE DEF n
  <2> QED
    BY <1>1, <1>3, FiniteRecursion
<1>6. PICK f \in [0 .. n -> V] : f[0] = t.shape /\ \A i \in 1 .. n : f[i] = F[i][f[i - 1]]
  BY <1>5 DEF RecursTo
<1>7. Is(f)
  <2>1. \A i \in 1 .. n : f[i] = next(f[i - 1], i)
    <3>1. \A i \in 1 .. n : f[i - 1] \in V
      BY <1>1
    <3> QED
      BY <1>4, <1>6, <3>1
  <2> QED
    BY <1>1, <1>6, <2>1
<1>8. Is(p)
  <2> HIDE DEF Is
  <2> QED
    BY <1>7
<1>9. ExpandDims(t, axes) =
        IF p[n] = <<-1>> THEN Err ELSE FromF64Like(t.dtype, p[n], ValuesF64(t))
  BY DEF ExpandDims, next
<1> HIDE DEF p
<1>10. 0 \in S
  BY <1>1, <1>8
<1>11. ASSUME NEW i \in 0 .. (n - 1), i \in S PROVE i + 1 \in S
  <2>1. i + 1 \in 1 .. n /\ (i + 1) - 1 = i /\ i + 1 \in 0 .. n /\ i + 1 # 0
    BY <1>1
  <2>2. p[i + 1] = next(p[i], i + 1) /\ p[i] \in V
    BY <1>8, <1>11, <2>1
  <2>3. next(p[i], i + 1) \in V
    BY <1>2, <2>1, <2>2 DEF next
  <2> QED
    BY <2>1, <2>2, <2>3
<1>12. n \in S
  <2> HIDE DEF S
  <2>1. \A i \in 0 .. n : i \in S
    BY <1>1, <1>10, <1>11, UpTo
  <2> QED
    BY <1>1, <2>1
<1> QED
  BY <1>9, <1>12 DEF V

LEMMA ExpandDimsFine ==
  ASSUME NEW t, IsTensor(t), NEW axes \in Shapes
  PROVE  Fine(ExpandDims(t, axes))
<1>1. t.dtype \in Dtype /\ Size(t.shape) \in Nat /\ ValuesF64(t) \in [1 .. Size(t.shape) -> Wide]
  BY TensorParts, ValuesF64Wide
<1>2. PICK s \in Shapes \cup {<<-1>>} :
        ExpandDims(t, axes) =
          IF s = <<-1>> THEN Err ELSE FromF64Like(t.dtype, s, ValuesF64(t))
  BY ExpandDimsMeans
<1>3. s # <<-1>> => Fine(FromF64Like(t.dtype, s, ValuesF64(t)))
  BY <1>1, <1>2, FromF64LikeMeans
<1> QED
  BY <1>2, <1>3 DEF Fine, Err, Dtype

\* A coordinate of the larger shape falls on one of the smaller.
LEMMA ProjectFits ==
  ASSUME NEW source \in Shapes, NEW target \in Shapes, CanBroadcastTo(source, target),
         NEW coord \in Coordinates(target)
  PROVE  ProjectBroadcastIndex(coord, source) \in Coordinates(source)
<1> DEFINE m == Len(source)
           n == Len(target)
           p == ProjectBroadcastIndex(coord, source)
<1>1. m \in Nat /\ n \in Nat /\ m <= n /\ DOMAIN source = 1 .. m
  BY DEF Shapes, CanBroadcastTo
<1>2. coord \in Seq(Nat) /\ Len(coord) = n
  <2>1. coord \in Seq(Nat) /\ coord \in [1 .. n -> Nat]
    BY <1>1 DEF Coordinates
  <2> QED
    BY <1>1, <2>1, SameLength
<1>3. p = [i \in 1 .. m |-> IF source[i] = 1 THEN 0 ELSE coord[n - m + i]]
  BY <1>1, <1>2 DEF ProjectBroadcastIndex
<1>4. ASSUME NEW i \in 1 .. m PROVE p[i] \in Nat /\ p[i] < source[i]
  <2>1. n - m + i \in 1 .. n
    BY <1>1
  <2>2. source[i] = 1 \/ source[i] = target[n - m + i]
    BY <1>1 DEF CanBroadcastTo
  <2>3. coord[n - m + i] \in Nat /\ coord[n - m + i] < target[n - m + i]
    BY <2>1 DEF Coordinates
  <2> QED
    BY <1>3, <2>2, <2>3
<1> HIDE DEF p
<1> QED
  BY <1>3, <1>4 DEF Coordinates, p

\* The values of a tensor at the coordinates of a shape it broadcasts to.
LEMMA RepeatedValues ==
  ASSUME NEW t, IsTensor(t), NEW shape \in Shapes, CanBroadcastTo(t.shape, shape),
         NEW coord \in Coordinates(shape)
  PROVE  /\ CoordOffset(t.shape, ProjectBroadcastIndex(coord, t.shape)) + 1 \in 1 .. Size(t.shape)
         /\ ValuesF64(t)[CoordOffset(t.shape, ProjectBroadcastIndex(coord, t.shape)) + 1] \in Wide
<1>1. t.shape \in Shapes /\ ValuesF64(t) \in [1 .. Size(t.shape) -> Wide]
  BY TensorParts, ValuesF64Wide
<1>2. ProjectBroadcastIndex(coord, t.shape) \in Coordinates(t.shape)
  BY <1>1, ProjectFits
<1>3. CoordOffset(t.shape, ProjectBroadcastIndex(coord, t.shape)) + 1 \in 1 .. Size(t.shape)
  BY <1>2, AtHolds
<1> QED
  BY <1>1, <1>3

LEMMA BroadcastMeans ==
  ASSUME NEW t, IsTensor(t), NEW shape \in Shapes, CanBroadcastTo(t.shape, shape)
  PROVE  LET v == [i \in 1 .. Size(shape) |->
                     ValuesF64(t)[CoordOffset(t.shape,
                       ProjectBroadcastIndex(Unravel(i - 1, shape), t.shape)) + 1]]
         IN /\ v \in [1 .. Size(shape) -> Wide]
            /\ Broadcast(t, shape) = FromF64Like(t.dtype, shape, v)
<1> DEFINE v == [i \in 1 .. Size(shape) |->
                   ValuesF64(t)[CoordOffset(t.shape,
                     ProjectBroadcastIndex(Unravel(i - 1, shape), t.shape)) + 1]]
<1>1. Size(shape) \in Nat
  BY SizeIsBlocks
<1>2. ASSUME NEW i \in 1 .. Size(shape) PROVE v[i] \in Wide
  <2>1. i - 1 \in 0 .. (Size(shape) - 1)
    BY <1>1
  <2>2. Unravel(i - 1, shape) \in Coordinates(shape)
    BY <2>1, UnravelIsDivMod
  <2> QED
    BY <2>2, RepeatedValues
<1>3. Broadcast(t, shape) = FromF64Like(t.dtype, shape, v)
  BY DEF Broadcast, Fill
<1>4. v \in [1 .. Size(shape) -> Wide]
  BY <1>2
<1> QED
  BY <1>3, <1>4

LEMMA BroadcastFine ==
  ASSUME NEW t, IsTensor(t), NEW shape \in Shapes
  PROVE  /\ Fine(Broadcast(t, shape))
         /\ CanBroadcastTo(t.shape, shape)
              => IsTensor(Broadcast(t, shape)) /\ Broadcast(t, shape).shape = shape
         /\ ~CanBroadcastTo(t.shape, shape) => Broadcast(t, shape) = Err
<1>1. t.dtype \in Dtype /\ Size(shape) \in Nat
  BY TensorParts, SizeIsBlocks
<1>2. CASE ~CanBroadcastTo(t.shape, shape)
  BY <1>2 DEF Broadcast, Fine, Err, Dtype
<1>3. CASE CanBroadcastTo(t.shape, shape)
  <2>1. PICK v \in [1 .. Size(shape) -> Wide] : Broadcast(t, shape) = FromF64Like(t.dtype, shape, v)
    BY <1>3, BroadcastMeans
  <2> QED
    BY <1>1, <1>3, <2>1, FromF64LikeMeans
<1> QED
  BY <1>2, <1>3

\* A valid permutation is onto: every axis of the input is found in the output.
LEMMA PermutationOnto ==
  ASSUME NEW n \in Nat, NEW perm \in Shapes, ValidPermutation(n, perm)
  PROVE  \A a \in 1 .. n : \E j \in 1 .. n : perm[j] = a - 1
<1> DEFINE f == [j \in 1 .. n |-> perm[j] + 1]
<1>1. DOMAIN perm = 1 .. n /\ \A j \in 1 .. n : perm[j] \in Nat
  BY DEF ValidPermutation, Shapes
<1>2. f \in [1 .. n -> 1 .. n]
  BY <1>1 DEF ValidPermutation
<1>3. \A i, j \in 1 .. n : f[i] = f[j] => i = j
  BY <1>1 DEF ValidPermutation
<1> HIDE DEF f
<1>4. f \in Injection(1 .. n, 1 .. n)
  BY <1>2, <1>3 DEF Injection, IsInjective
<1>5. IsFiniteSet(1 .. n)
  BY FS_Interval
<1>6. f \in Surjection(1 .. n, 1 .. n)
  BY <1>4, <1>5, FS_Injection
<1>7. \A a \in 1 .. n : \E j \in 1 .. n : f[j] = a
  BY <1>6 DEF Surjection
<1>8. ASSUME NEW a \in 1 .. n PROVE \E j \in 1 .. n : perm[j] = a - 1
  <2>1. PICK j \in 1 .. n : f[j] = a
    BY <1>7
  <2>2. f[j] = perm[j] + 1 /\ perm[j] \in Nat
    BY <1>1 DEF f
  <2> QED
    BY <2>1, <2>2
<1> QED
  BY <1>8

LEMMA TransposeFine ==
  ASSUME NEW t, IsTensor(t), NEW perm \in Shapes
  PROVE  Fine(TensorTranspose(t, perm))
<1> DEFINE n == Len(t.shape)
           shape == TransposeOutputShape(t.shape, perm)
           back(coord) == [a \in DOMAIN t.shape |->
                             LET i == CHOOSE j \in DOMAIN perm : perm[j] = a - 1 IN coord[i]]
           v == [i \in 1 .. Size(shape) |-> At(t, back(Unravel(i - 1, shape)))]
<1>1. t.dtype \in Dtype /\ t.shape \in Shapes /\ n \in Nat /\ DOMAIN t.shape = 1 .. n
  BY TensorParts DEF Shapes
<1>2. CASE ~ValidPermutation(n, perm)
  BY <1>2 DEF TensorTranspose, Fine, Err, Dtype
<1>3. CASE ValidPermutation(n, perm)
  <2>1. TensorTranspose(t, perm) = Dense(t.dtype, shape, v)
    BY <1>3 DEF TensorTranspose, TransposeArray, Fill
  <2>2. DOMAIN perm = 1 .. n /\ \A j \in 1 .. n : perm[j] \in Nat /\ perm[j] + 1 \in 1 .. n
    BY <1>3 DEF ValidPermutation, Shapes
  <2>3. shape = [j \in 1 .. n |-> t.shape[perm[j] + 1]]
    BY <2>2 DEF TransposeOutputShape
  <2>4. \A j \in 1 .. n : t.shape[perm[j] + 1] \in Nat
    <3>1. \A a \in 1 .. n : t.shape[a] \in Nat
      BY <1>1 DEF Shapes
    <3> QED
      BY <2>2, <3>1
  <2>5. shape \in Shapes /\ Len(shape) = n
    BY <1>1, <2>3, <2>4 DEF Shapes
  <2>6. ASSUME NEW coord \in Coordinates(shape) PROVE back(coord) \in Coordinates(t.shape)
    <3>1. ASSUME NEW a \in 1 .. n
          PROVE  LET i == CHOOSE j \in DOMAIN perm : perm[j] = a - 1
                 IN coord[i] \in Nat /\ coord[i] < t.shape[a]
      <4> DEFINE i == CHOOSE j \in DOMAIN perm : perm[j] = a - 1
      <4>1. \E j \in 1 .. n : perm[j] = a - 1
        BY <1>1, <1>3, PermutationOnto
      <4>2. i \in 1 .. n /\ perm[i] = a - 1
        BY <2>2, <4>1
      <4> HIDE DEF i
      <4>3. perm[i] + 1 = a
        BY <4>2
      <4>4. coord[i] \in Nat /\ coord[i] < shape[i]
        BY <2>5, <4>2 DEF Coordinates
      <4> QED
        BY <2>3, <4>2, <4>3, <4>4 DEF i
    <3>2. back(coord) = [a \in 1 .. n |->
                           LET i == CHOOSE j \in DOMAIN perm : perm[j] = a - 1 IN coord[i]]
      BY <1>1
    <3> DEFINE b == back(coord)
    <3>3. \A a \in 1 .. n : b[a] \in Nat /\ b[a] < t.shape[a]
      BY <3>1, <3>2
    <3>4. b \in [1 .. n -> Nat]
      BY <3>2, <3>3
    <3> HIDE DEF b
    <3>5. b \in Coordinates(t.shape)
      BY <3>3, <3>4 DEF Coordinates
    <3> QED
      BY <3>5 DEF b
  <2> HIDE DEF shape, back
  <2>7. Size(shape) \in Nat
    BY <2>5, SizeIsBlocks
  <2>8. ASSUME NEW i \in 1 .. Size(shape) PROVE v[i] \in Held(t.dtype)
    <3>1. i - 1 \in 0 .. (Size(shape) - 1)
      BY <2>7
    <3>2. Unravel(i - 1, shape) \in Coordinates(shape)
      BY <2>5, <3>1, UnravelIsDivMod
    <3> QED
      BY <2>6, <3>2, AtHolds
  <2>9. v \in [1 .. Size(shape) -> Held(t.dtype)]
    BY <2>8
  <2> HIDE DEF v
  <2> QED
    BY <1>1, <2>1, <2>5, <2>7, <2>9, DenseMeans
<1> QED
  BY <1>2, <1>3

\* A step taken within a range stays within the axis.
LEMMA SteppedFits ==
  ASSUME NEW b, b.at \in BOOLEAN, b.args \in Seq(Int), b.at => Len(b.args) = 1,
         NEW dim \in Nat, AxisRangeOk(b, dim)
  PROVE  /\ b.at => b.args[1] \in Nat /\ b.args[1] < dim
         /\ ~b.at =>
              /\ (AxisStop(b.args, dim) - AxisStart(b.args)) \div AxisStep(b.args) \in Nat
              /\ \A k \in Nat :
                   k < (AxisStop(b.args, dim) - AxisStart(b.args)) \div AxisStep(b.args)
                   => /\ AxisStart(b.args) + k * AxisStep(b.args) \in Nat
                      /\ AxisStart(b.args) + k * AxisStep(b.args) < dim
<1>1. DOMAIN b.args = 1 .. Len(b.args) /\ Len(b.args) \in Nat
      /\ \A i \in 1 .. Len(b.args) : b.args[i] \in Nat
  BY DEF AxisRangeOk
<1>2. CASE b.at
  BY <1>1, <1>2 DEF AxisRangeOk
<1>3. CASE ~b.at
  <2> DEFINE lo == AxisStart(b.args)
             hi == AxisStop(b.args, dim)
             by == AxisStep(b.args)
             n == (hi - lo) \div by
  <2>1. Len(b.args) \in 1 .. 3 /\ by # 0 /\ lo <= hi /\ hi <= dim
    BY <1>3 DEF AxisRangeOk
  <2>2. lo \in Nat /\ hi \in Nat /\ by \in Nat
    BY <1>1, <2>1 DEF AxisStart, AxisStop, AxisStep
  <2> HIDE DEF lo, hi, by
  <2>3. hi - lo \in Nat /\ 0 < by
    BY <2>1, <2>2
  <2>4. n \in Nat /\ (hi - lo) % by \in Nat /\ hi - lo = by * n + ((hi - lo) % by)
    BY <2>2, <2>3, DivMod
  <2> HIDE DEF n
  <2>5. ASSUME NEW k \in Nat, k < n
        PROVE  lo + k * by \in Nat /\ lo + k * by < dim
    <3>1. by * (k + 1) <= by * n /\ by * (k + 1) = k * by + by /\ k * by \in Nat
      BY <2>2, <2>4, <2>5
    <3>2. by * n \in Nat
      BY <2>2, <2>4
    <3>3. by * n <= hi - lo
      BY <2>3, <2>4, <3>2
    <3> QED
      BY <2>1, <2>2, <2>3, <3>1, <3>2, <3>3
  <2> QED
    BY <1>3, <2>4, <2>5 DEF lo, hi, by, n
<1> QED
  BY <1>2, <1>3

LEMMA SliceFine ==
  ASSUME NEW t, IsTensor(t), NEW n \in Nat, NEW bounds \in [1 .. n -> BoundArgs]
  PROVE  Fine(Slice(t, bounds))
<1> DEFINE r == Len(t.shape)
           K == {i \in DOMAIN t.shape : ~bounds[i].at}
           kept == Ascending(K)
           m == Cardinality(K)
           dims == [j \in DOMAIN kept |->
                      LET b == bounds[kept[j]].args
                      IN (AxisStop(b, t.shape[kept[j]]) - AxisStart(b)) \div AxisStep(b)]
           place(coord, a) ==
             IF bounds[a].at THEN bounds[a].args[1]
             ELSE LET j == CHOOSE k \in {h \in DOMAIN kept : TRUE} : kept[k] = a
                  IN AxisStart(bounds[a].args) + coord[j] * AxisStep(bounds[a].args)
           from(coord) == [a \in DOMAIN t.shape |-> place(coord, a)]
           v == [i \in 1 .. Size(dims) |-> At(t, from(Unravel(i - 1, dims)))]
<1>1. /\ t.dtype \in Dtype /\ t.shape \in Shapes /\ r \in Nat /\ DOMAIN t.shape = 1 .. r
      /\ \A i \in 1 .. r : t.shape[i] \in Nat
  BY TensorParts DEF Shapes
<1>2. CASE ~RangeOk(bounds, t.shape)
  BY <1>2 DEF Slice, Fine, Err, Dtype
<1>3. CASE RangeOk(bounds, t.shape)
  <2>1. Slice(t, bounds) = Dense(t.dtype, dims, v)
    BY <1>3 DEF Slice, SliceArray, Fill
  <2>2. n = r
    <3>1. bounds \in Seq(BoundArgs) /\ Len(bounds) = r
      BY <1>3 DEF RangeOk
    <3> QED
      BY <1>1, <3>1, SameLength
  <2>3. ASSUME NEW a \in 1 .. r
        PROVE  /\ bounds[a].at \in BOOLEAN /\ bounds[a].args \in Seq(Int)
               /\ bounds[a].at => Len(bounds[a].args) = 1
               /\ AxisRangeOk(bounds[a], t.shape[a])
    BY <1>1, <1>3, <2>2, InputAssumption DEF RangeOk
  <2>4. /\ m \in Nat /\ kept \in [1 .. m -> K]
        /\ \A i, j \in 1 .. m : kept[i] = kept[j] => i = j
        /\ \A a \in K : \E j \in 1 .. m : kept[j] = a
    <3>1. K \in SUBSET Int /\ K \subseteq 1 .. r
      BY <1>1
    <3> HIDE DEF K
    <3>2. IsFiniteSet(K)
      <4>1. IsFiniteSet(1 .. r)
        BY <1>1, FS_Interval
      <4> HIDE DEF r
      <4> QED
        BY <3>1, <4>1, FS_Subset
    <3>3. m \in Nat /\ Enumerates(kept, m, K)
      BY <3>1, <3>2, AscendingInOrder
    <3> QED
      BY <3>3 DEF Enumerates
  <2> HIDE DEF kept, m
  <2>5. \A j \in 1 .. m : kept[j] \in 1 .. r /\ ~bounds[kept[j]].at
    BY <1>1, <2>4
  <2>6. ASSUME NEW j \in 1 .. m
        PROVE  /\ dims[j] = LET b == bounds[kept[j]].args
                            IN (AxisStop(b, t.shape[kept[j]]) - AxisStart(b)) \div AxisStep(b)
               /\ dims[j] \in Nat
    <3>1. dims[j] = LET b == bounds[kept[j]].args
                    IN (AxisStop(b, t.shape[kept[j]]) - AxisStart(b)) \div AxisStep(b)
      BY <2>4
    <3> HIDE DEF dims
    <3>2. (AxisStop(bounds[kept[j]].args, t.shape[kept[j]]) - AxisStart(bounds[kept[j]].args))
            \div AxisStep(bounds[kept[j]].args) \in Nat
      <4> DEFINE a == kept[j]
      <4>1. a \in 1 .. r /\ ~bounds[a].at
        BY <2>5
      <4> HIDE DEF a
      <4>2. (AxisStop(bounds[a].args, t.shape[a]) - AxisStart(bounds[a].args))
              \div AxisStep(bounds[a].args) \in Nat
        BY <1>1, <2>3, <4>1, SteppedFits
      <4> QED
        BY <4>2 DEF a
    <3> QED
      BY <3>1, <3>2
  <2>7. dims \in Shapes /\ Len(dims) = m
    <3>1. DOMAIN dims = 1 .. m /\ dims = [j \in 1 .. m |-> dims[j]]
      BY <2>4
    <3>2. dims \in [1 .. m -> Nat]
      <4> HIDE DEF dims
      <4> QED
        BY <2>6, <3>1
    <3> HIDE DEF dims
    <3> QED
      BY <2>4, <3>2 DEF Shapes
  <2>8. ASSUME NEW coord \in Coordinates(dims), NEW a \in 1 .. r
        PROVE  place(coord, a) \in Nat /\ place(coord, a) < t.shape[a]
    <3>1. CASE bounds[a].at
      BY <1>1, <2>3, <3>1, SteppedFits
    <3>2. CASE ~bounds[a].at
      <4> DEFINE j == CHOOSE k \in {h \in DOMAIN kept : TRUE} : kept[k] = a
      <4>1. \E k \in 1 .. m : kept[k] = a
        BY <1>1, <2>4, <3>2
      <4>2. j \in 1 .. m /\ kept[j] = a
        BY <2>4, <4>1
      <4>3. place(coord, a)
              = AxisStart(bounds[a].args) + coord[j] * AxisStep(bounds[a].args)
        BY <3>2
      <4> HIDE DEF j, place
      <4>4. coord[j] \in Nat /\ coord[j] < dims[j]
        BY <2>7, <4>2 DEF Coordinates
      <4>5. dims[j] = (AxisStop(bounds[a].args, t.shape[a]) - AxisStart(bounds[a].args))
                        \div AxisStep(bounds[a].args)
        BY <2>6, <4>2
      <4> HIDE DEF dims
      <4>6. /\ AxisStart(bounds[a].args) + coord[j] * AxisStep(bounds[a].args) \in Nat
            /\ AxisStart(bounds[a].args) + coord[j] * AxisStep(bounds[a].args) < t.shape[a]
        BY <1>1, <2>3, <3>2, <4>4, <4>5, SteppedFits
      <4> QED
        BY <4>3, <4>6
    <3> QED
      BY <3>1, <3>2
  <2> HIDE DEF dims, place
  <2>9. ASSUME NEW coord \in Coordinates(dims) PROVE from(coord) \in Coordinates(t.shape)
    BY <1>1, <2>8 DEF Coordinates
  <2> HIDE DEF from
  <2>10. Size(dims) \in Nat
    BY <2>7, SizeIsBlocks
  <2>11. ASSUME NEW i \in 1 .. Size(dims) PROVE v[i] \in Held(t.dtype)
    <3>1. i - 1 \in 0 .. (Size(dims) - 1)
      BY <2>10
    <3>2. Unravel(i - 1, dims) \in Coordinates(dims)
      BY <2>7, <3>1, UnravelIsDivMod
    <3> QED
      BY <2>9, <3>2, AtHolds
  <2>12. v \in [1 .. Size(dims) -> Held(t.dtype)]
    BY <2>11
  <2> HIDE DEF v
  <2> QED
    BY <1>1, <2>1, <2>7, <2>10, <2>12, DenseMeans
<1> QED
  BY <1>2, <1>3

-----------------------------------------------------------------------------
(* Elementwise operations: two shapes are compatible when both broadcast to *)
(* the shape made of the larger dimension of each axis.                     *)

LEMMA ShapeLength ==
  ASSUME NEW s \in Shapes
  PROVE  Len(s) \in Nat /\ DOMAIN s = 1 .. Len(s) /\ \A i \in 1 .. Len(s) : s[i] \in Nat
BY DEF Shapes

\* The dimension of an axis counted from the right.
LEMMA DimAtMeans ==
  ASSUME NEW s \in Shapes, NEW n \in Nat, Len(s) <= n
  PROVE  /\ \A i \in 1 .. n : DimAt(s, n, i) \in Nat
         /\ \A i \in 1 .. Len(s) : n - Len(s) + i \in 1 .. n
                                  /\ DimAt(s, n, n - Len(s) + i) = s[i]
         /\ \A i \in 1 .. n : /\ i <= n - Len(s) => DimAt(s, n, i) = 1
                              /\ i > n - Len(s) => /\ i - (n - Len(s)) \in 1 .. Len(s)
                                                   /\ n - Len(s) + (i - (n - Len(s))) = i
                                                   /\ DimAt(s, n, i) = s[i - (n - Len(s))]
<1> DEFINE m == Len(s)
<1>1. m \in Nat /\ m <= n /\ \A i \in 1 .. m : s[i] \in Nat
  BY ShapeLength
<1>2. \A i \in 1 .. n : DimAt(s, n, i) = IF i > n - m THEN s[i - (n - m)] ELSE 1
  BY DEF DimAt
<1> HIDE DEF m
<1>3. ASSUME NEW i \in 1 .. n
      PROVE  /\ i <= n - m => DimAt(s, n, i) = 1
             /\ i > n - m => /\ i - (n - m) \in 1 .. m /\ n - m + (i - (n - m)) = i
                             /\ DimAt(s, n, i) = s[i - (n - m)]
  BY <1>1, <1>2
<1>4. \A i \in 1 .. n : DimAt(s, n, i) \in Nat
  BY <1>1, <1>3
<1>5. ASSUME NEW i \in 1 .. m
      PROVE  n - m + i \in 1 .. n /\ DimAt(s, n, n - m + i) = s[i]
  <2>1. n - m + i \in 1 .. n /\ n - m + i > n - m /\ (n - m + i) - (n - m) = i
    BY <1>1
  <2> QED
    BY <1>2, <2>1
<1> QED
  BY <1>3, <1>4, <1>5 DEF m

LEMMA BroadcastShapeMeans ==
  ASSUME NEW l \in Shapes, NEW r \in Shapes
  PROVE  /\ MaxRank(l, r) \in Nat /\ Len(l) <= MaxRank(l, r) /\ Len(r) <= MaxRank(l, r)
         /\ BroadcastShape(l, r) \in Shapes /\ Len(BroadcastShape(l, r)) = MaxRank(l, r)
         /\ Compatible(l, r) <=> /\ CanBroadcastTo(l, BroadcastShape(l, r))
                                 /\ CanBroadcastTo(r, BroadcastShape(l, r))
<1> DEFINE n == MaxRank(l, r)
           b == BroadcastShape(l, r)
<1>1. n \in Nat /\ Len(l) <= n /\ Len(r) <= n
  BY ShapeLength DEF MaxRank
<1>2. b = [i \in 1 .. n |-> IF DimAt(l, n, i) = 1 THEN DimAt(r, n, i) ELSE DimAt(l, n, i)]
  BY DEF BroadcastShape
<1>3. Compatible(l, r) <=> \A i \in 1 .. n : \/ DimAt(l, n, i) = DimAt(r, n, i)
                                           \/ DimAt(l, n, i) = 1 \/ DimAt(r, n, i) = 1
  BY DEF Compatible
<1> HIDE DEF n, b
<1>4. \A i \in 1 .. n : DimAt(l, n, i) \in Nat /\ DimAt(r, n, i) \in Nat
  BY <1>1, DimAtMeans
<1>5. b \in Shapes /\ Len(b) = n
  <2>1. b \in [1 .. n -> Nat]
    BY <1>2, <1>4
  <2> QED
    BY <1>1, <2>1 DEF Shapes
<1>6. CanBroadcastTo(l, b)
  <2> SUFFICES ASSUME NEW i \in 1 .. Len(l) PROVE l[i] = 1 \/ l[i] = b[n - Len(l) + i]
    BY <1>1, <1>5, ShapeLength DEF CanBroadcastTo
  <2>1. n - Len(l) + i \in 1 .. n /\ DimAt(l, n, n - Len(l) + i) = l[i]
    BY <1>1, DimAtMeans
  <2> QED
    BY <1>2, <2>1
<1>7. ASSUME Compatible(l, r) PROVE CanBroadcastTo(r, b)
  <2> SUFFICES ASSUME NEW i \in 1 .. Len(r) PROVE r[i] = 1 \/ r[i] = b[n - Len(r) + i]
    BY <1>1, <1>5, ShapeLength DEF CanBroadcastTo
  <2>1. n - Len(r) + i \in 1 .. n /\ DimAt(r, n, n - Len(r) + i) = r[i]
    BY <1>1, DimAtMeans
  <2> QED
    BY <1>2, <1>3, <1>7, <2>1
<1>8. ASSUME CanBroadcastTo(r, b) PROVE Compatible(l, r)
  <2> SUFFICES ASSUME NEW i \in 1 .. n
               PROVE  DimAt(l, n, i) = DimAt(r, n, i) \/ DimAt(l, n, i) = 1 \/ DimAt(r, n, i) = 1
    BY <1>3
  <2>1. CASE i <= n - Len(r)
    BY <1>1, <2>1, DimAtMeans
  <2>2. CASE i > n - Len(r)
    <3> DEFINE k == i - (n - Len(r))
    <3>1. k \in 1 .. Len(r) /\ n - Len(r) + k = i /\ DimAt(r, n, i) = r[k]
      BY <1>1, <2>2, DimAtMeans
    <3> HIDE DEF k
    <3>2. r[k] = 1 \/ r[k] = b[i]
      BY <1>5, <1>8, <3>1, ShapeLength DEF CanBroadcastTo
    <3> QED
      BY <1>2, <3>1, <3>2
  <2> QED
    BY <1>1, <2>1, <2>2, ShapeLength
<1> QED
  BY <1>1, <1>5, <1>6, <1>7, <1>8 DEF n, b

LEMMA ApplyOpWide ==
  ASSUME NEW op \in BinaryOps, NEW x \in Wide, NEW y \in Wide
  PROVE  ApplyOp(op, x, y) \in Wide
<1>1. x \in Int /\ y \in Int
  BY Widths
<1>2. x + y \in Int /\ x - y \in Int /\ x * y \in Int
  BY <1>1
<1>3. F64(x + y) \in Wide /\ F64(x - y) \in Wide /\ F64(x * y) \in Wide
  BY <1>2, Widths
<1>4. \A p \in BOOLEAN : Truth(p) \in Wide
  BY Widths DEF Truth
<1> HIDE DEF Wide
<1> QED
  BY <1>3, <1>4 DEF ApplyOp, BinaryOps

\* The values an elementwise operation computes, place by place.
BinaryValues(left, right, op, shape) ==
  [i \in 1 .. Size(shape) |->
     ApplyOp(op,
       ValuesF64(left)[CoordOffset(left.shape,
         ProjectBroadcastIndex(Unravel(i - 1, shape), left.shape)) + 1],
       ValuesF64(right)[CoordOffset(right.shape,
         ProjectBroadcastIndex(Unravel(i - 1, shape), right.shape)) + 1])]

LEMMA BinaryOpMeans ==
  ASSUME NEW left, IsTensor(left), NEW right, IsTensor(right), NEW op \in BinaryOps
  PROVE  LET shape == BroadcastShape(left.shape, right.shape) IN
         /\ shape \in Shapes
         /\ Compatible(left.shape, right.shape) =>
              /\ BinaryValues(left, right, op, shape) \in [1 .. Size(shape) -> Wide]
              /\ BinaryOp(left, right, op)
                   = FromF64Like(left.dtype, shape, BinaryValues(left, right, op, shape))
         /\ ~Compatible(left.shape, right.shape) => BinaryOp(left, right, op) = Err
<1> DEFINE shape == BroadcastShape(left.shape, right.shape)
           v == BinaryValues(left, right, op, shape)
<1>1. left.shape \in Shapes /\ right.shape \in Shapes
  BY TensorParts
<1>2. shape \in Shapes /\ Size(shape) \in Nat
  BY <1>1, BroadcastShapeMeans, SizeIsBlocks
<1>3. ASSUME Compatible(left.shape, right.shape)
      PROVE  /\ v \in [1 .. Size(shape) -> Wide]
             /\ BinaryOp(left, right, op) = FromF64Like(left.dtype, shape, v)
  <2>1. BinaryOp(left, right, op) = FromF64Like(left.dtype, shape, v)
    BY <1>3 DEF BinaryOp, Fill, BinaryValues
  <2>2. CanBroadcastTo(left.shape, shape) /\ CanBroadcastTo(right.shape, shape)
    BY <1>1, <1>3, BroadcastShapeMeans
  <2> HIDE DEF shape
  <2>3. ASSUME NEW i \in 1 .. Size(shape) PROVE v[i] \in Wide
    <3> DEFINE c == Unravel(i - 1, shape)
               x == ValuesF64(left)[CoordOffset(left.shape,
                      ProjectBroadcastIndex(c, left.shape)) + 1]
               y == ValuesF64(right)[CoordOffset(right.shape,
                      ProjectBroadcastIndex(c, right.shape)) + 1]
    <3>1. i - 1 \in 0 .. (Size(shape) - 1)
      BY <1>2
    <3>2. c \in Coordinates(shape)
      BY <1>2, <3>1, UnravelIsDivMod
    <3>3. v[i] = ApplyOp(op, x, y)
      BY DEF BinaryValues
    <3> HIDE DEF c
    <3>4. x \in Wide /\ y \in Wide
      BY <1>2, <2>2, <3>2, RepeatedValues
    <3> HIDE DEF v, x, y
    <3> QED
      BY <3>3, <3>4, ApplyOpWide
  <2>4. v = [i \in 1 .. Size(shape) |-> v[i]]
    BY DEF BinaryValues
  <2> HIDE DEF v
  <2>5. v \in [1 .. Size(shape) -> Wide]
    BY <2>3, <2>4
  <2> QED
    BY <2>1, <2>5
<1>4. ~Compatible(left.shape, right.shape) => BinaryOp(left, right, op) = Err
  BY DEF BinaryOp
<1> QED
  BY <1>2, <1>3, <1>4

LEMMA BinaryOpFine ==
  ASSUME NEW left, IsTensor(left), NEW right, IsTensor(right), NEW op \in BinaryOps
  PROVE  Fine(BinaryOp(left, right, op))
<1> DEFINE shape == BroadcastShape(left.shape, right.shape)
           v == BinaryValues(left, right, op, shape)
<1>1. left.dtype \in Dtype /\ shape \in Shapes
  BY TensorParts, BinaryOpMeans
<1>2. CASE Compatible(left.shape, right.shape)
  <2>1. v \in [1 .. Size(shape) -> Wide] /\ BinaryOp(left, right, op) = FromF64Like(left.dtype, shape, v)
    BY <1>2, BinaryOpMeans
  <2>2. Size(shape) \in Nat
    BY <1>1, SizeIsBlocks
  <2> HIDE DEF shape, v
  <2> QED
    BY <1>1, <2>1, <2>2, FromF64LikeMeans
<1>3. CASE ~Compatible(left.shape, right.shape)
  <2>1. BinaryOp(left, right, op) = Err
    BY <1>3, BinaryOpMeans
  <2> QED
    BY <2>1 DEF Fine, Err, Dtype
<1> QED
  BY <1>2, <1>3

LEMMA NotFine ==
  ASSUME NEW t, IsTensor(t)
  PROVE  Fine(UnaryNot(t))
<1> DEFINE w == [i \in DOMAIN ValuesF64(t) |-> Truth(ValuesF64(t)[i] = 0)]
<1>1. t.dtype \in Dtype /\ t.shape \in Shapes /\ Size(t.shape) \in Nat
      /\ DOMAIN ValuesF64(t) = 1 .. Size(t.shape)
  BY TensorParts, ValuesF64Wide
<1>2. \A p \in BOOLEAN : Truth(p) \in Wide
  BY Widths DEF Truth
<1>3. w \in [1 .. Size(t.shape) -> Wide]
  BY <1>1, <1>2
<1>4. UnaryNot(t) = FromF64Like(t.dtype, t.shape, w)
  BY DEF UnaryNot
<1> HIDE DEF w
<1> QED
  BY <1>1, <1>3, <1>4, FromF64LikeMeans

LEMMA CondFine ==
  ASSUME NEW c, IsTensor(c), NEW t, IsTensor(t), NEW e, IsTensor(e)
  PROVE  Fine(Cond(c, t, e))
<1> DEFINE cv == ValuesF64(c)
           tv == ValuesF64(t)
           ev == ValuesF64(e)
           w == [i \in DOMAIN tv |-> IF cv[IF Len(cv) = 1 THEN 1 ELSE i] # 0 THEN tv[i] ELSE ev[i]]
<1>1. /\ t.dtype \in Dtype /\ t.shape \in Shapes /\ Size(t.shape) \in Nat
      /\ tv \in [1 .. Size(t.shape) -> Wide] /\ Len(tv) = Size(t.shape)
      /\ DOMAIN tv = 1 .. Size(t.shape)
      /\ ev \in [1 .. Size(e.shape) -> Wide] /\ Len(ev) = Size(e.shape)
  BY TensorParts, ValuesF64Wide
<1>2. CASE Len(tv) # Len(ev) \/ Len(cv) \notin {1, Len(tv)}
  BY <1>2 DEF Cond, Fine, Err, Dtype
<1>3. CASE ~(Len(tv) # Len(ev) \/ Len(cv) \notin {1, Len(tv)})
  <2>1. Cond(c, t, e) = FromF64Like(t.dtype, t.shape, w)
    BY <1>3 DEF Cond
  <2> HIDE DEF cv, tv, ev
  <2>2. \A i \in 1 .. Size(t.shape) : tv[i] \in Wide /\ ev[i] \in Wide
    BY <1>1, <1>3
  <2>3. w \in [1 .. Size(t.shape) -> Wide]
    BY <1>1, <2>2
  <2> HIDE DEF w
  <2> QED
    BY <1>1, <2>1, <2>3, FromF64LikeMeans
<1> QED
  BY <1>2, <1>3

\* add.rs and matmul.rs merge two shapes to what core.rs merges them to.
LEMMA MergeMeans ==
  ASSUME NEW l \in Shapes, NEW r \in Shapes
  PROVE  /\ MergeFromRight(l, r) \in [1 .. MaxRank(l, r) -> Nat \cup {-1}]
         /\ -1 \in Range(MergeFromRight(l, r)) <=> ~Compatible(l, r)
         /\ Compatible(l, r) => MergeFromRight(l, r) = BroadcastShape(l, r)
<1> DEFINE n == MaxRank(l, r)
           m == MergeFromRight(l, r)
           q == [i \in 1 .. n |-> MergeDims(DimFromRight(l, i - 1), DimFromRight(r, i - 1))]
<1>1. n \in Nat /\ Len(l) <= n /\ Len(r) <= n /\ Len(l) \in Nat /\ Len(r) \in Nat
  BY BroadcastShapeMeans, ShapeLength
<1>2. m = Reverse(q)
  BY DEF MergeFromRight
<1> HIDE DEF n, m
<1>3. ASSUME NEW s \in Shapes, Len(s) <= n, NEW k \in 1 .. n
      PROVE  DimFromRight(s, (n - k + 1) - 1) = DimAt(s, n, k)
  <2>1. Len(s) \in Nat
    BY ShapeLength
  <2>2. /\ (n - k + 1) - 1 = n - k
        /\ n - k < Len(s) <=> k > n - Len(s)
        /\ Len(s) - (n - k) = k - (n - Len(s))
    BY <1>1, <2>1
  <2> QED
    BY <2>2 DEF DimFromRight, DimAt
<1>4. ASSUME NEW k \in 1 .. n
      PROVE  /\ n - k + 1 \in 1 .. n
             /\ q[n - k + 1] = MergeDims(DimAt(l, n, k), DimAt(r, n, k))
  <2>1. n - k + 1 \in 1 .. n
    BY <1>1
  <2> QED
    BY <1>1, <1>3, <2>1
<1>5. \A k \in 1 .. n : DimAt(l, n, k) \in Nat /\ DimAt(r, n, k) \in Nat
  BY <1>1, DimAtMeans
<1>6. q \in Seq(Nat \cup {-1}) /\ Len(q) = n
  <2>1. ASSUME NEW i \in 1 .. n PROVE q[i] \in Nat \cup {-1}
    <3>1. n - i + 1 \in 1 .. n /\ n - (n - i + 1) + 1 = i
      BY <1>1
    <3>2. q[i] = MergeDims(DimAt(l, n, n - i + 1), DimAt(r, n, n - i + 1))
      BY <1>4, <3>1
    <3> QED
      BY <1>5, <3>1, <3>2 DEF MergeDims
  <2>2. q \in [1 .. n -> Nat \cup {-1}]
    BY <2>1
  <2> HIDE DEF q
  <2> QED
    BY <1>1, <2>2
<1> HIDE DEF q
<1>7. m = [k \in 1 .. n |-> MergeDims(DimAt(l, n, k), DimAt(r, n, k))]
  <2>1. m = [k \in 1 .. n |-> q[(n - k) + 1]]
    BY <1>2, <1>6 DEF Reverse
  <2> QED
    BY <1>4, <2>1
<1>8. m \in [1 .. n -> Nat \cup {-1}]
  BY <1>5, <1>7 DEF MergeDims
<1>9. Compatible(l, r) <=> \A i \in 1 .. n : \/ DimAt(l, n, i) = DimAt(r, n, i)
                                           \/ DimAt(l, n, i) = 1 \/ DimAt(r, n, i) = 1
  BY DEF Compatible, n
<1>10. \A k \in 1 .. n : m[k] = -1 <=> ~(\/ DimAt(l, n, k) = DimAt(r, n, k)
                                        \/ DimAt(l, n, k) = 1 \/ DimAt(r, n, k) = 1)
  BY <1>5, <1>7 DEF MergeDims
<1>11. -1 \in Range(m) <=> \E k \in 1 .. n : m[k] = -1
  BY <1>8 DEF Range
<1>12. -1 \in Range(m) <=> ~Compatible(l, r)
  BY <1>9, <1>10, <1>11
<1>13. ASSUME Compatible(l, r) PROVE m = BroadcastShape(l, r)
  <2>1. BroadcastShape(l, r)
          = [i \in 1 .. n |-> IF DimAt(l, n, i) = 1 THEN DimAt(r, n, i) ELSE DimAt(l, n, i)]
    BY DEF BroadcastShape, n
  <2>2. \A i \in 1 .. n : MergeDims(DimAt(l, n, i), DimAt(r, n, i))
                            = IF DimAt(l, n, i) = 1 THEN DimAt(r, n, i) ELSE DimAt(l, n, i)
    BY <1>9, <1>13 DEF MergeDims
  <2> QED
    BY <1>7, <2>1, <2>2
<1> QED
  BY <1>8, <1>12, <1>13 DEF n, m

LEMMA BroadcastAddFine ==
  ASSUME NEW left, IsTensor(left), NEW right, IsTensor(right)
  PROVE  Fine(BroadcastAdd(left, right))
<1> DEFINE shape == MergeFromRight(left.shape, right.shape)
           l == Broadcast(left, shape)
           r == Broadcast(right, shape)
<1>1. left.shape \in Shapes /\ right.shape \in Shapes /\ "add" \in BinaryOps
  BY TensorParts DEF BinaryOps
<1>2. \A x, y : IsTensor(x) /\ IsTensor(y) => Fine(ExactShapeAdd(x, y))
  BY <1>1, BinaryOpFine DEF ExactShapeAdd, Fine, Err, Dtype
<1>3. CASE ~ValidPair(left, right)
  BY <1>3 DEF BroadcastAdd, Fine, Err, Dtype
<1>4. CASE ValidPair(left, right) /\ left.shape = right.shape
  <2>1. BroadcastAdd(left, right) = ExactShapeAdd(left, right)
    BY <1>4 DEF BroadcastAdd
  <2> QED
    BY <1>2, <2>1
<1>5. CASE ValidPair(left, right) /\ left.shape # right.shape
           /\ (-1 \in Range(shape) \/ Err \in {l, r})
  BY <1>5 DEF BroadcastAdd, Fine, Err, Dtype
<1>6. CASE ValidPair(left, right) /\ left.shape # right.shape
           /\ ~(-1 \in Range(shape) \/ Err \in {l, r})
  <2>1. BroadcastAdd(left, right) = ExactShapeAdd(l, r)
    BY <1>6 DEF BroadcastAdd
  <2>2. shape \in Shapes
    BY <1>1, <1>6, MergeMeans, BroadcastShapeMeans
  <2> HIDE DEF shape
  <2>3. IsTensor(l) /\ IsTensor(r)
    BY <1>6, <2>2, BroadcastFine
  <2> QED
    BY <1>2, <2>1, <2>3
<1> QED
  BY <1>3, <1>4, <1>5, <1>6


-----------------------------------------------------------------------------
(* Reductions: every value of the input falls on a place of the output. *)

\* The axes kept, in order.
LEMMA KeptAxesMeans ==
  ASSUME NEW r \in Nat, NEW axes
  PROVE  \E m \in Nat : /\ KeptAxes(r, axes) \in [1 .. m -> 1 .. r]
                        /\ \A j \in 1 .. m : KeptAxes(r, axes)[j] - 1 \notin axes
<1> DEFINE K == {i \in 1 .. r : i - 1 \notin axes}
           m == Cardinality(K)
<1>1. K \in SUBSET Int
  OBVIOUS
<1>2. IsFiniteSet(K)
  <2>1. IsFiniteSet(1 .. r)
    BY FS_Interval
  <2> QED
    BY <2>1, FS_Subset
<1>3. KeptAxes(r, axes) = Ascending(K)
  BY DEF KeptAxes
<1> HIDE DEF K
<1>4. m \in Nat /\ Ascending(K) \in [1 .. m -> K]
  BY <1>1, <1>2, AscendingInOrder DEF Enumerates
<1> HIDE DEF m
<1>5. \A e \in K : e \in 1 .. r /\ e - 1 \notin axes
  BY DEF K
<1> QED
  BY <1>3, <1>4, <1>5

\* The shape left, and the coordinate of it that a coordinate falls on.
LEMMA ReducedFits ==
  ASSUME NEW s \in Shapes, NEW axes, NEW keepdims \in BOOLEAN
  PROVE  /\ ReducedShape(s, axes, keepdims) \in Shapes
         /\ \A c \in Coordinates(s) :
              ReducedCoord(c, axes, keepdims) \in Coordinates(ReducedShape(s, axes, keepdims))
<1> DEFINE n == Len(s)
           u == ReducedShape(s, axes, keepdims)
<1>1. n \in Nat /\ DOMAIN s = 1 .. n /\ \A i \in 1 .. n : s[i] \in Nat
  BY ShapeLength
<1>2. ASSUME NEW c \in Coordinates(s)
      PROVE  DOMAIN c = 1 .. n /\ Len(c) = n /\ \A i \in 1 .. n : c[i] \in Nat /\ c[i] < s[i]
  BY <1>1 DEF Coordinates
<1>3. CASE keepdims
  <2>1. u = [i \in 1 .. n |-> IF i - 1 \in axes THEN 1 ELSE s[i]]
    BY <1>1, <1>3 DEF ReducedShape
  <2>2. u \in [1 .. n -> Nat]
    BY <1>1, <2>1
  <2>3. u \in Shapes /\ Len(u) = n
    BY <1>1, <2>2 DEF Shapes
  <2>4. ASSUME NEW c \in Coordinates(s) PROVE ReducedCoord(c, axes, keepdims) \in Coordinates(u)
    <3>1. ReducedCoord(c, axes, keepdims) = [i \in 1 .. n |-> IF i - 1 \in axes THEN 0 ELSE c[i]]
      BY <1>2, <1>3 DEF ReducedCoord
    <3> QED
      BY <1>2, <2>1, <2>3, <3>1 DEF Coordinates
  <2> QED
    BY <2>3, <2>4
<1>4. CASE ~keepdims
  <2> DEFINE kept == KeptAxes(n, axes)
  <2>1. PICK m \in Nat : kept \in [1 .. m -> 1 .. n]
    BY <1>1, KeptAxesMeans
  <2>2. u = [j \in DOMAIN kept |-> s[kept[j]]]
    BY <1>4 DEF ReducedShape
  <2>3. \A c \in Coordinates(s) : ReducedCoord(c, axes, keepdims) = [j \in DOMAIN kept |-> c[kept[j]]]
    BY <1>2, <1>4 DEF ReducedCoord
  <2> HIDE DEF kept, u
  <2>4. u \in [1 .. m -> Nat] /\ \A j \in 1 .. m : u[j] = s[kept[j]]
    BY <1>1, <2>1, <2>2
  <2>5. u \in Shapes /\ Len(u) = m
    BY <2>1, <2>4 DEF Shapes
  <2>6. ASSUME NEW c \in Coordinates(s) PROVE ReducedCoord(c, axes, keepdims) \in Coordinates(u)
    <3>1. \A j \in 1 .. m : kept[j] \in 1 .. n
      BY <2>1
    <3>2. ReducedCoord(c, axes, keepdims) = [j \in 1 .. m |-> c[kept[j]]]
      BY <2>1, <2>3
    <3> QED
      BY <1>2, <2>4, <2>5, <3>1, <3>2 DEF Coordinates
  <2> QED
    BY <2>5, <2>6 DEF u
<1> QED
  BY <1>3, <1>4

\* The running results of one output position.
Accums == [initialized : BOOLEAN, sum : Wide, product : Wide, min : Wide, max : Wide]

\* A running result stays within f64, whatever values it takes in.
LEMMA AccumsWide ==
  /\ FreshAccum \in Accums
  /\ \A acc \in Accums, v \in Wide : AccumUpdate(acc, v) \in Accums
  /\ \A acc \in Accums, op \in ReduceOp : AccumFinalize(acc, op) \in Wide
<1>1. FreshAccum \in Accums
  BY Widths DEF FreshAccum, Accums
<1>2. ASSUME NEW acc \in Accums, NEW v \in Wide PROVE AccumUpdate(acc, v) \in Accums
  <2>1. v \in Int /\ acc.sum \in Int /\ acc.product \in Int
    BY Widths DEF Accums
  <2>2. acc.sum + v \in Int /\ acc.product * v \in Int
    BY <2>1
  <2>3. F64(acc.sum + v) \in Wide /\ F64(acc.product * v) \in Wide
    BY <2>2, Widths
  <2> HIDE DEF Wide
  <2> QED
    BY <2>3 DEF AccumUpdate, Accums
<1>3. \A acc \in Accums, op \in ReduceOp : AccumFinalize(acc, op) \in Wide
  <2> HIDE DEF Wide
  <2> QED
    BY DEF AccumFinalize, Accums, ReduceOp
<1> QED
  BY <1>1, <1>2, <1>3


\* Through the values of a tensor in order, each updates the result its place falls on.
Runs(a, n, m, T, v) ==
  /\ a[0] = [o \in 1 .. m |-> FreshAccum]
  /\ \A i \in 1 .. n : a[i] = [a[i - 1] EXCEPT ![T[i]] = AccumUpdate(@, v[i])]

\* A reduction is what such a run leaves, for the places its coordinates fall on.
IsReduction(t, op, axes, keepdims, T, a) ==
  LET n == Size(t.shape)
      out == ReducedShape(t.shape, axes, keepdims)
  IN /\ T \in [1 .. n -> 1 .. Size(out)]
     /\ \A i \in 1 .. n :
          T[i] = CoordOffset(out, ReducedCoord(Unravel(i - 1, t.shape), axes, keepdims)) + 1
     /\ a \in [0 .. n -> [1 .. Size(out) -> Accums]]
     /\ Runs(a, n, Size(out), T, ValuesF64(t))
     /\ ReduceAxes(t, op, axes, keepdims)
          = IF ValuesF64(t) = <<>> \/ \E x \in axes : x >= Len(t.shape) THEN Err
            ELSE IF out = <<>> THEN Scalar(AccumFinalize(a[n][1], op))
            ELSE FromF64Like(t.dtype, out, [o \in 1 .. Size(out) |-> AccumFinalize(a[n][o], op)])

\* Every reduction is one.
LEMMA ReduceMeans ==
  ASSUME NEW t, IsTensor(t), NEW op \in ReduceOp, NEW axes, NEW keepdims \in BOOLEAN
  PROVE  /\ ReducedShape(t.shape, axes, keepdims) \in Shapes
         /\ Size(ReducedShape(t.shape, axes, keepdims)) \in Nat
         /\ \E T, a : IsReduction(t, op, axes, keepdims, T, a)
<1> DEFINE values == ValuesF64(t)
           n == Len(values)
           out == ReducedShape(t.shape, axes, keepdims)
           target(i) ==
             OffsetFromCoord(ReducedCoord(CoordFromOffset(i - 1, t.shape, Strides(t.shape)), axes, keepdims),
                             Strides(out)) + 1
           V == [1 .. Size(out) -> Accums]
           fresh == [o \in 1 .. Size(out) |-> FreshAccum]
           Is(f) == f = [i \in 0 .. n |-> IF i = 0 THEN fresh
                           ELSE [f[i - 1] EXCEPT ![target(i)] = AccumUpdate(@, values[i])]]
           acc == CHOOSE f : Is(f)
           total == [o \in 1 .. Size(out) |-> AccumFinalize(acc[n][o], op)]
           T == [i \in 1 .. n |-> target(i)]
<1>1. /\ t.dtype \in Dtype /\ t.shape \in Shapes /\ Size(t.shape) \in Nat
      /\ values \in [1 .. n -> Wide] /\ n = Size(t.shape)
  BY TensorParts, ValuesF64Wide
<1>2. out \in Shapes /\ Size(out) \in Nat
  <2>1. out \in Shapes
    BY <1>1, ReducedFits
  <2> HIDE DEF out
  <2> QED
    BY <2>1, SizeIsBlocks
<1>3. ASSUME NEW i \in 1 .. n
      PROVE  /\ target(i) \in 1 .. Size(out)
             /\ target(i) = CoordOffset(out, ReducedCoord(Unravel(i - 1, t.shape), axes, keepdims)) + 1
  <2> DEFINE c == CoordFromOffset(i - 1, t.shape, Strides(t.shape))
             d == ReducedCoord(c, axes, keepdims)
  <2>1. i - 1 \in 0 .. (Size(t.shape) - 1)
    BY <1>1
  <2>2. c \in Coordinates(t.shape)
    BY <1>1, <2>1, CoordFromOffsetIsUnravel, UnravelIsDivMod
  <2> HIDE DEF c
  <2>3. d \in Coordinates(out)
    BY <1>1, <2>2, ReducedFits
  <2> HIDE DEF d, out
  <2>4. OffsetFromCoord(d, Strides(out)) \in 0 .. (Size(out) - 1)
    BY <1>2, <2>3, OffsetFromCoordIsOffset, CoordOffsetIsOffsets
  <2>5. target(i) = OffsetFromCoord(d, Strides(out)) + 1
    BY DEF d, c
  <2>6. OffsetFromCoord(d, Strides(out)) = CoordOffset(out, d)
    BY <1>2, <2>3, OffsetFromCoordIsOffset
  <2>7. d = ReducedCoord(Unravel(i - 1, t.shape), axes, keepdims)
    BY <1>1, <2>1, CoordFromOffsetIsUnravel DEF d, c
  <2> HIDE DEF target
  <2> QED
    BY <1>2, <2>4, <2>5, <2>6, <2>7
<1>4. ReduceAxes(t, op, axes, keepdims)
        = IF values = <<>> \/ \E a \in axes : a >= Len(t.shape) THEN Err
          ELSE IF out = <<>> THEN Scalar(total[1])
          ELSE FromF64Like(t.dtype, out, total)
  BY DEF ReduceAxes
<1> HIDE DEF values, out, target
<1>5. fresh \in V
  BY AccumsWide
<1>6. ASSUME NEW g \in V, NEW i \in 1 .. n
      PROVE  [g EXCEPT ![target(i)] = AccumUpdate(@, values[i])] \in V
  <2>1. AccumUpdate(g[target(i)], values[i]) \in Accums
    BY <1>1, <1>3, AccumsWide
  <2> QED
    BY <2>1
<1>7. \E f : Is(f)
  <2> DEFINE H == [i \in 1 .. n |->
                     [g \in V |-> [g EXCEPT ![target(i)] = AccumUpdate(@, values[i])]]]
             X == V
             b == fresh
  <2>1. H \in Steps(1 .. n, X)
    BY <1>6 DEF Steps
  <2>2. \A i \in 1 .. n : \A g \in X : H[i][g] = [g EXCEPT ![target(i)] = AccumUpdate(@, values[i])]
    OBVIOUS
  <2>3. n \in Nat /\ b \in X
    BY <1>1, <1>5
  <2> HIDE DEF H, X, V, fresh, b, n
  <2>4. RecursTo(n, X, b, H)
    BY <2>1, <2>3, FiniteRecursion
  <2>5. PICK f \in [0 .. n -> X] : f[0] = b /\ \A i \in 1 .. n : f[i] = H[i][f[i - 1]]
    BY <2>4 DEF RecursTo
  <2>6. \A i \in 0 .. n : i # 0 => i \in 1 .. n /\ i - 1 \in 0 .. n
    BY <2>3
  <2>7. \A i \in 0 .. n : f[i] = IF i = 0 THEN fresh
          ELSE [f[i - 1] EXCEPT ![target(i)] = AccumUpdate(@, values[i])]
    BY <2>2, <2>5, <2>6 DEF b
  <2>8. f = [i \in 0 .. n |-> IF i = 0 THEN fresh
               ELSE [f[i - 1] EXCEPT ![target(i)] = AccumUpdate(@, values[i])]]
    BY <2>7
  <2> QED
    BY <2>8
<1>8. Is(acc)
  <2> HIDE DEF Is
  <2> QED
    BY <1>7
<1> HIDE DEF acc, V, fresh
<1>9. \A i \in 0 .. n : acc[i] \in V
  <2> DEFINE S == {i \in 0 .. n : acc[i] \in V}
  <2>1. 0 \in S
    BY <1>1, <1>5, <1>8
  <2>2. ASSUME NEW i \in 0 .. (n - 1), i \in S PROVE i + 1 \in S
    <3>1. i + 1 \in 1 .. n /\ (i + 1) - 1 = i /\ i + 1 \in 0 .. n /\ i + 1 # 0
      BY <1>1
    <3>2. acc[i + 1] = [acc[i] EXCEPT ![target(i + 1)] = AccumUpdate(@, values[i + 1])]
      BY <1>8, <3>1
    <3>3. acc[i] \in V
      BY <2>2
    <3> QED
      BY <1>6, <3>1, <3>2, <3>3
  <2> HIDE DEF S
  <2>3. \A i \in 0 .. n : i \in S
    BY <1>1, <2>1, <2>2, UpTo
  <2> QED
    BY <2>3 DEF S
<1>10. T \in [1 .. n -> 1 .. Size(out)] /\ \A i \in 1 .. n : T[i] = target(i)
  BY <1>3
<1>11. acc \in [0 .. n -> [1 .. Size(out) -> Accums]]
  <2>1. DOMAIN acc = 0 .. n /\ acc = [i \in DOMAIN acc |-> acc[i]]
    BY <1>8
  <2> QED
    BY <1>9, <2>1 DEF V
<1>12. Runs(acc, n, Size(out), T, values)
  <2>1. acc[0] = fresh
    BY <1>1, <1>8
  <2>2. \A i \in 1 .. n : acc[i] = [acc[i - 1] EXCEPT ![T[i]] = AccumUpdate(@, values[i])]
    <3>1. \A i \in 1 .. n : i \in 0 .. n /\ i # 0
      BY <1>1
    <3> QED
      BY <1>8, <1>10, <3>1
  <2> QED
    BY <2>1, <2>2 DEF Runs, fresh
<1>13. IsReduction(t, op, axes, keepdims, T, acc)
  <2>1. \A i \in 1 .. n :
          T[i] = CoordOffset(out, ReducedCoord(Unravel(i - 1, t.shape), axes, keepdims)) + 1
    BY <1>3, <1>10
  <2> HIDE DEF T
  <2>2. ReduceAxes(t, op, axes, keepdims)
          = IF values = <<>> \/ \E a \in axes : a >= Len(t.shape) THEN Err
            ELSE IF out = <<>> THEN Scalar(AccumFinalize(acc[n][1], op))
            ELSE FromF64Like(t.dtype, out, [o \in 1 .. Size(out) |-> AccumFinalize(acc[n][o], op)])
    <3>1. out = <<>> => total[1] = AccumFinalize(acc[n][1], op)
      <4> SUFFICES ASSUME out = <<>> PROVE total[1] = AccumFinalize(acc[n][1], op)
        OBVIOUS
      <4>1. Size(out) = 1
        BY SizesExist, <1>2
      <4> QED
        BY <4>1
    <3> QED
      BY <1>4, <3>1
  <2> HIDE DEF total
  <2> QED
    BY <1>1, <1>10, <1>11, <1>12, <2>1, <2>2 DEF IsReduction, values, out
<1> HIDE DEF T
<1> QED
  BY <1>2, <1>13 DEF out

\* A reduction never writes past its output, and what it answers is a tensor.
LEMMA ReduceFine ==
  ASSUME NEW t, IsTensor(t), NEW op \in ReduceOp, NEW axes, NEW keepdims \in BOOLEAN
  PROVE  /\ Fine(ReduceAxes(t, op, axes, keepdims))
         /\ ReduceAxes(t, op, axes, keepdims).dtype \in {"error", "number"} \cup Dtype
<1> DEFINE n == Size(t.shape)
           out == ReducedShape(t.shape, axes, keepdims)
           refused == ValuesF64(t) = <<>> \/ \E x \in axes : x >= Len(t.shape)
<1>1. out \in Shapes /\ Size(out) \in Nat /\ t.dtype \in Dtype /\ n \in Nat
  BY ReduceMeans, TensorParts
<1>2. PICK T, a : IsReduction(t, op, axes, keepdims, T, a)
  BY ReduceMeans
<1> DEFINE total == [o \in 1 .. Size(out) |-> AccumFinalize(a[n][o], op)]
<1>3. a \in [0 .. n -> [1 .. Size(out) -> Accums]]
  BY <1>2 DEF IsReduction
<1>4. ReduceAxes(t, op, axes, keepdims)
        = IF refused THEN Err ELSE IF out = <<>> THEN Scalar(AccumFinalize(a[n][1], op))
          ELSE FromF64Like(t.dtype, out, total)
  BY <1>2 DEF IsReduction
<1> HIDE DEF out, n
<1>5. total \in [1 .. Size(out) -> Wide]
  BY <1>1, <1>3, AccumsWide
<1> HIDE DEF total, refused
<1>6. CASE refused
  BY <1>4, <1>6 DEF Fine, Err, Dtype
<1>7. CASE ~refused /\ out = <<>>
  BY <1>4, <1>7 DEF Fine, Scalar, Dtype
<1>8. CASE ~refused /\ out # <<>>
  <2>1. ReduceAxes(t, op, axes, keepdims) = FromF64Like(t.dtype, out, total)
    BY <1>4, <1>8
  <2>2. IsTensor(FromF64Like(t.dtype, out, total))
    BY <1>1, <1>5, FromF64LikeMeans
  <2> QED
    BY <2>1, <2>2, TensorParts DEF Fine
<1> QED
  BY <1>6, <1>7, <1>8

\* A gradient reduced to a shape is a tensor of that shape.
LEMMA BroadcastReduceFine ==
  ASSUME NEW t, IsTensor(t), NEW s \in Shapes
  PROVE  Fine(BroadcastReduceSum(t, s))
<1> DEFINE axes == BroadcastReduceAxes(t.shape, s)
           reduced == IF axes = {} THEN t ELSE ReduceAxes(t, "sum", axes, TRUE)
<1>1. BroadcastReduceSum(t, s) \in {Err, Reshape(reduced, s)}
      /\ (BroadcastReduceSum(t, s) = Reshape(reduced, s) /\ BroadcastReduceSum(t, s) # Err
            => reduced.dtype \in Dtype)
  BY DEF BroadcastReduceSum
<1>2. Fine(reduced)
  <2>1. Fine(t) /\ "sum" \in ReduceOp
    BY DEF Fine, ReduceOp
  <2> HIDE DEF axes
  <2> QED
    BY <2>1, ReduceFine
<1> HIDE DEF reduced
<1>3. CASE BroadcastReduceSum(t, s) = Err
  BY <1>3 DEF Fine, Err, Dtype
<1>4. CASE BroadcastReduceSum(t, s) # Err
  BY <1>1, <1>2, <1>4, ReshapeFine DEF Fine
<1> QED
  BY <1>3, <1>4


-----------------------------------------------------------------------------
(* Matrix products: a place of the stack of results is a batch, a row and a *)
(* column, and so is a place of each operand.                               *)

\* One axis more multiplies the size.
LEMMA SizeAppend ==
  ASSUME NEW s \in Shapes, NEW x \in Nat
  PROVE  Append(s, x) \in Shapes /\ Size(Append(s, x)) = Size(s) * x
<1> DEFINE n == Len(s)
           e == Append(s, x)
           p == Sizes(s)
           q == Sizes(e)
           S == {i \in 0 .. n : q[i] = p[i]}
<1>1. /\ n \in Nat /\ e \in Shapes /\ Len(e) = n + 1
      /\ e[n + 1] = x /\ \A i \in 1 .. n : e[i] = s[i]
  BY DEF Shapes
<1>2. Size(s) = p[n] /\ p[0] = 1 /\ \A i \in 1 .. n : p[i] = p[i - 1] * s[i]
  BY SizesExist
<1>3. Size(e) = q[n + 1] /\ q[0] = 1 /\ \A i \in 1 .. (n + 1) : q[i] = q[i - 1] * e[i]
  <2> HIDE DEF e
  <2> QED
    BY <1>1, SizesExist
<1> HIDE DEF e, p, q
<1>4. 0 \in S
  BY <1>1, <1>2, <1>3
<1>5. ASSUME NEW i \in 0 .. (n - 1), i \in S PROVE i + 1 \in S
  <2>1. i + 1 \in 1 .. n /\ i + 1 \in 1 .. (n + 1) /\ (i + 1) - 1 = i /\ i + 1 \in 0 .. n
    BY <1>1
  <2>2. q[i + 1] = q[i] * e[i + 1] /\ p[i + 1] = p[i] * s[i + 1] /\ e[i + 1] = s[i + 1]
    BY <1>1, <1>2, <1>3, <2>1
  <2> QED
    BY <1>5, <2>1, <2>2
<1>6. q[n] = p[n]
  <2> HIDE DEF S
  <2>1. \A i \in 0 .. n : i \in S
    BY <1>1, <1>4, <1>5, UpTo
  <2> QED
    BY <1>1, <2>1 DEF S
<1>7. n + 1 \in 1 .. (n + 1) /\ (n + 1) - 1 = n
  BY <1>1
<1> QED
  BY <1>1, <1>2, <1>3, <1>6, <1>7 DEF e

\* A stack of matrices holds one matrix per position of the batch.
LEMMA StackSize ==
  ASSUME NEW s \in Shapes, NEW x \in Nat, NEW y \in Nat
  PROVE  /\ s \o <<x, y>> \in Shapes /\ Len(s \o <<x, y>>) = Len(s) + 2
         /\ Size(s \o <<x, y>>) = (Size(s) * x) * y
<1>1. s \o <<x, y>> = Append(Append(s, x), y)
  BY DEF Shapes
<1>2. Append(s, x) \in Shapes /\ Size(Append(s, x)) = Size(s) * x
  BY SizeAppend
<1>3. \A u \in Shapes : Append(u, y) \in Shapes /\ Size(Append(u, y)) = Size(u) * y
  BY SizeAppend
<1>4. Len(s \o <<x, y>>) = Len(s) + 2
  BY DEF Shapes
<1> QED
  BY <1>1, <1>2, <1>3, <1>4

\* What a sequence put after another is, and what is left of it without its end.
LEMMA ConcatMeans ==
  ASSUME NEW u \in Seq(Nat), NEW w \in Seq(Nat)
  PROVE  /\ u \o w \in Seq(Nat) /\ Len(u \o w) = Len(u) + Len(w)
         /\ \A i \in 1 .. Len(u) : (u \o w)[i] = u[i]
         /\ \A i \in 1 .. Len(w) : (u \o w)[Len(u) + i] = w[i]
  OBVIOUS

\* The beginning of a sequence.
LEMMA BeginningMeans ==
  ASSUME NEW s \in Seq(Nat), NEW k \in 0 .. Len(s)
  PROVE  SubSeq(s, 1, k) = [i \in 1 .. k |-> s[i]]
  OBVIOUS

\* The shape of a stack is its batch and the two dimensions of its matrices.
LEMMA StackParts ==
  ASSUME NEW s \in Shapes, 2 <= Len(s)
  PROVE  /\ SubSeq(s, 1, Len(s) - 2) \in Shapes
         /\ Len(SubSeq(s, 1, Len(s) - 2)) = Len(s) - 2
         /\ \A i \in 1 .. (Len(s) - 2) : SubSeq(s, 1, Len(s) - 2)[i] = s[i]
         /\ s[Len(s) - 1] \in Nat /\ s[Len(s)] \in Nat
         /\ s = SubSeq(s, 1, Len(s) - 2) \o <<s[Len(s) - 1], s[Len(s)]>>
         /\ Size(s) = (Size(SubSeq(s, 1, Len(s) - 2)) * s[Len(s) - 1]) * s[Len(s)]
<1> DEFINE n == Len(s)
           u == SubSeq(s, 1, n - 2)
           w == <<s[n - 1], s[n]>>
           v == u \o w
<1>1. /\ s \in Seq(Nat) /\ n \in Nat /\ n - 2 \in 0 .. n
      /\ n - 1 \in 1 .. n /\ n \in 1 .. n
      /\ \A i \in 1 .. n : i \in 1 .. (n - 2) \/ i = n - 1 \/ i = n
  BY DEF Shapes
<1>2. s[n - 1] \in Nat /\ s[n] \in Nat
  BY <1>1
<1>3. u = [i \in 1 .. (n - 2) |-> s[i]]
  BY <1>1, BeginningMeans
<1>4. u \in Seq(Nat) /\ Len(u) = n - 2 /\ \A i \in 1 .. (n - 2) : u[i] = s[i]
  <2> DEFINE k == n - 2
  <2>1. k \in Nat /\ \A i \in 1 .. k : s[i] \in Nat
    BY <1>1
  <2>2. u = [i \in 1 .. k |-> s[i]]
    BY <1>3
  <2> HIDE DEF u, n, k
  <2>3. u \in Seq(Nat) /\ Len(u) = k /\ \A i \in 1 .. k : u[i] = s[i]
    BY <2>1, <2>2
  <2> QED
    BY <2>3 DEF k
<1>5. w \in Seq(Nat) /\ Len(w) = 2 /\ w[1] = s[n - 1] /\ w[2] = s[n]
  BY <1>2
<1>6. v = s
  <2> HIDE DEF u, w
  <2>1. /\ v \in Seq(Nat) /\ Len(v) = (n - 2) + 2
        /\ \A i \in 1 .. (n - 2) : v[i] = u[i]
        /\ \A i \in 1 .. 2 : v[(n - 2) + i] = w[i]
    <3>1. /\ v \in Seq(Nat) /\ Len(v) = Len(u) + Len(w)
          /\ \A i \in 1 .. Len(u) : v[i] = u[i]
          /\ \A i \in 1 .. Len(w) : v[Len(u) + i] = w[i]
      <4>1. u \in Seq(Nat) /\ w \in Seq(Nat)
        BY <1>4, <1>5
      <4> QED
        BY <4>1, ConcatMeans
    <3> HIDE DEF v, n
    <3> QED
      BY <3>1, <1>4, <1>5
  <2> HIDE DEF v
  <2>2. (n - 2) + 2 = n /\ (n - 2) + 1 = n - 1 /\ 1 \in 1 .. 2 /\ 2 \in 1 .. 2
    BY <1>1
  <2>3. v[n - 1] = w[1] /\ v[n] = w[2] /\ Len(v) = n
    BY <2>1, <2>2
  <2> HIDE DEF n
  <2>4. \A i \in 1 .. n : v[i] = s[i]
    <3>1. \A i \in 1 .. (n - 2) : v[i] = s[i]
      BY <1>4, <2>1
    <3>2. v[n - 1] = s[n - 1] /\ v[n] = s[n]
      BY <1>5, <2>3
    <3> QED
      BY <1>1, <3>1, <3>2
  <2> QED
    <3>1. v = [i \in 1 .. n |-> v[i]] /\ s = [i \in 1 .. n |-> s[i]]
      BY <1>1, <2>1, <2>3 DEF n
    <3> QED
      BY <2>4, <3>1
<1>7. u \in Shapes
  BY <1>4 DEF Shapes
<1> HIDE DEF u
<1>8. Size(v) = (Size(u) * s[n - 1]) * s[n]
  BY <1>2, <1>7, StackSize
<1> QED
  BY <1>2, <1>4, <1>6, <1>7, <1>8 DEF u

\* A place within a place.
LEMMA Nested ==
  ASSUME NEW x \in Nat, NEW A \in Nat, x < A, NEW r \in Nat, NEW R \in Nat, r < R
  PROVE  x * R + r \in Nat /\ x * R + r < A * R
<1>1. x + 1 <= A /\ x * R \in Nat /\ A * R \in Nat
  OBVIOUS
<1>2. (x + 1) * R <= A * R /\ (x + 1) * R = x * R + R
  BY <1>1
<1> QED
  BY <1>1, <1>2

\* The matrix of an operand that falls at a batch position.
LEMMA BatchFits ==
  ASSUME NEW source \in Shapes, NEW batch \in Shapes, CanBroadcastTo(source, batch),
         NEW b \in 0 .. (Size(batch) - 1)
  PROVE  BroadcastBatchOffset(b, batch, source) \in 0 .. (Size(source) - 1)
<1> DEFINE c == Unravel(b, batch)
           p == ProjectBroadcastIndex(c, source)
<1>1. c \in Coordinates(batch)
  BY UnravelIsDivMod
<1>2. Len(c) = Len(batch)
  BY <1>1 DEF Coordinates, Shapes
<1>3. BroadcastBatchOffset(b, batch, source) = CoordOffset(source, p)
  <2>1. p = [i \in DOMAIN source |->
               IF source[i] = 1 THEN 0 ELSE c[Len(batch) - Len(source) + i]]
    BY <1>2 DEF ProjectBroadcastIndex
  <2> QED
    BY <2>1 DEF BroadcastBatchOffset
<1> HIDE DEF c
<1>4. p \in Coordinates(source)
  BY <1>1, ProjectFits
<1> QED
  BY <1>3, <1>4, CoordOffsetIsOffsets


\* The partial sums of a row and a column, given by their products.
IsSums(n, g, f) ==
  f = [k \in 0 .. n |-> IF k = 0 THEN 0 ELSE F64(f[k - 1] + F64(g[k - 1]))]
Sums(n, g) == CHOOSE f : IsSums(n, g, f)

\* They exist, they are the only ones, and f64 holds them.
LEMMA SumsExist ==
  ASSUME NEW n \in Nat, NEW g \in [0 .. (n - 1) -> Int]
  PROVE  /\ IsSums(n, g, Sums(n, g)) /\ Sums(n, g)[n] \in Wide
         /\ \A f : IsSums(n, g, f) => f = Sums(n, g)
<1> DEFINE p == Sums(n, g)
<1>1. /\ Wide \subseteq Int /\ 0 \in Wide
      /\ \A k \in 1 .. n : k - 1 \in 0 .. (n - 1)
      /\ \A k \in 1 .. n, x \in Wide : F64(x + F64(g[k - 1])) \in Wide
  <2>1. Wide \subseteq Int /\ 0 \in Wide /\ \A v \in Int : F64(v) \in Wide
    BY Widths
  <2>2. \A k \in 1 .. n : k - 1 \in 0 .. (n - 1)
    OBVIOUS
  <2>3. ASSUME NEW k \in 1 .. n, NEW x \in Wide PROVE F64(x + F64(g[k - 1])) \in Wide
    <3>1. F64(g[k - 1]) \in Int /\ x \in Int
      BY <2>1, <2>2
    <3> QED
      BY <2>1, <3>1
  <2> QED
    BY <2>1, <2>2, <2>3
<1>2. \E f : IsSums(n, g, f)
  <2> DEFINE H == [k \in 1 .. n |-> [x \in Wide |-> F64(x + F64(g[k - 1]))]]
             W == Wide
             z == 0
  <2>1. H \in Steps(1 .. n, W) /\ z \in W
    BY <1>1 DEF Steps
  <2>2. \A k \in 1 .. n : \A x \in W : H[k][x] = F64(x + F64(g[k - 1]))
    OBVIOUS
  <2> HIDE DEF H, W, z
  <2>3. RecursTo(n, W, z, H)
    BY <2>1, FiniteRecursion
  <2>4. PICK f \in [0 .. n -> W] : f[0] = z /\ \A k \in 1 .. n : f[k] = H[k][f[k - 1]]
    BY <2>3 DEF RecursTo
  <2>5. \A k \in 0 .. n : k # 0 => k \in 1 .. n /\ k - 1 \in 0 .. n
    OBVIOUS
  <2>6. \A k \in 0 .. n : f[k] = IF k = 0 THEN 0 ELSE F64(f[k - 1] + F64(g[k - 1]))
    BY <2>2, <2>4, <2>5 DEF z
  <2>7. f = [k \in 0 .. n |-> IF k = 0 THEN 0 ELSE F64(f[k - 1] + F64(g[k - 1]))]
    BY <2>6
  <2> QED
    BY <2>7 DEF IsSums
<1>3. IsSums(n, g, p)
  BY <1>2 DEF Sums
<1> HIDE DEF p
<1>4. \A f : IsSums(n, g, f) =>
        f[0] = 0 /\ \A k \in 1 .. n : f[k] = F64(f[k - 1] + F64(g[k - 1]))
  <2> SUFFICES ASSUME NEW f, IsSums(n, g, f)
               PROVE  f[0] = 0 /\ \A k \in 1 .. n : f[k] = F64(f[k - 1] + F64(g[k - 1]))
    OBVIOUS
  <2>1. 0 \in 0 .. n /\ \A k \in 1 .. n : k \in 0 .. n /\ k # 0
    OBVIOUS
  <2> QED
    BY <2>1 DEF IsSums
<1>5. p[n] \in Wide
  <2> DEFINE S == {k \in 0 .. n : p[k] \in Wide}
  <2>1. 0 \in S
    BY <1>1, <1>3, <1>4
  <2>2. ASSUME NEW k \in 0 .. (n - 1), k \in S PROVE k + 1 \in S
    <3>1. k + 1 \in 1 .. n /\ (k + 1) - 1 = k /\ k + 1 \in 0 .. n
      OBVIOUS
    <3>2. p[k + 1] = F64(p[k] + F64(g[(k + 1) - 1])) /\ p[k] \in Wide
      BY <1>3, <1>4, <2>2, <3>1
    <3>3. F64(p[k] + F64(g[(k + 1) - 1])) \in Wide
      BY <1>1, <3>1, <3>2
    <3> QED
      BY <3>1, <3>2, <3>3
  <2> HIDE DEF S
  <2>3. \A k \in 0 .. n : k \in S
    BY <2>1, <2>2, UpTo
  <2> QED
    BY <2>3 DEF S
<1>6. ASSUME NEW f, IsSums(n, g, f) PROVE f = p
  <2> DEFINE S == {k \in 0 .. n : f[k] = p[k]}
  <2>1. 0 \in S
    BY <1>3, <1>4, <1>6
  <2>2. ASSUME NEW k \in 0 .. (n - 1), k \in S PROVE k + 1 \in S
    <3>1. k + 1 \in 1 .. n /\ (k + 1) - 1 = k /\ k + 1 \in 0 .. n
      OBVIOUS
    <3>2. p[k + 1] = F64(p[k] + F64(g[k])) /\ f[k + 1] = F64(f[k] + F64(g[k])) /\ p[k] = f[k]
      BY <1>3, <1>4, <1>6, <2>2, <3>1
    <3> QED
      BY <3>1, <3>2
  <2> HIDE DEF S
  <2>3. \A k \in 0 .. n : k \in S
    BY <2>1, <2>2, UpTo
  <2>4. \A k \in 0 .. n : f[k] = p[k]
    BY <2>3 DEF S
  <2>5. f = [k \in 0 .. n |-> f[k]] /\ p = [k \in 0 .. n |-> p[k]]
    BY <1>3, <1>6 DEF IsSums
  <2> QED
    BY <2>4, <2>5
<1> QED
  BY <1>3, <1>5, <1>6 DEF p


\* The products summed for place i of a batched product.
Terms(left, right, batch, i) ==
  LET rows == left.shape[Len(left.shape) - 1]
      inner == left.shape[Len(left.shape)]
      cols == right.shape[Len(right.shape)]
      aBatch == SubSeq(left.shape, 1, Len(left.shape) - 2)
      bBatch == SubSeq(right.shape, 1, Len(right.shape) - 2)
      b == i \div (rows * cols)
      row == (i \div cols) % rows
      col == i % cols
      a0 == BroadcastBatchOffset(b, batch, aBatch) * rows * inner
      b0 == BroadcastBatchOffset(b, batch, bBatch) * inner * cols
  IN [k \in 0 .. (inner - 1) |-> left.values[a0 + row * inner + k + 1]
                                 * right.values[b0 + k * cols + col + 1]]

\* Every place of a batched product reads its row and its column of the matrices
\* that fall at its batch position, within the buffers.
LEMMA TermsFit ==
  ASSUME NEW left, IsTensor(left), NEW right, IsTensor(right), ValidPair(left, right),
         2 <= Len(left.shape), 2 <= Len(right.shape),
         right.shape[Len(right.shape) - 1] = left.shape[Len(left.shape)],
         NEW batch \in Shapes,
         CanBroadcastTo(SubSeq(left.shape, 1, Len(left.shape) - 2), batch),
         CanBroadcastTo(SubSeq(right.shape, 1, Len(right.shape) - 2), batch),
         NEW i \in 0 .. (Size(batch \o <<left.shape[Len(left.shape) - 1],
                                         right.shape[Len(right.shape)]>>) - 1)
  PROVE  /\ left.shape[Len(left.shape)] \in Nat
         /\ Terms(left, right, batch, i) \in [0 .. (left.shape[Len(left.shape)] - 1) -> Int]
<1> DEFINE rows == left.shape[Len(left.shape) - 1]
           inner == left.shape[Len(left.shape)]
           cols == right.shape[Len(right.shape)]
           aBatch == SubSeq(left.shape, 1, Len(left.shape) - 2)
           bBatch == SubSeq(right.shape, 1, Len(right.shape) - 2)
           b == i \div (rows * cols)
           row == (i \div cols) % rows
           col == i % cols
           oa == BroadcastBatchOffset(b, batch, aBatch)
           ob == BroadcastBatchOffset(b, batch, bBatch)
<1>1. left.shape \in Shapes /\ right.shape \in Shapes
  BY TensorParts
<1>2. /\ aBatch \in Shapes /\ rows \in Nat /\ inner \in Nat
      /\ Size(left.shape) = (Size(aBatch) * rows) * inner
  BY <1>1, StackParts
<1>3. /\ bBatch \in Shapes /\ cols \in Nat
      /\ Size(right.shape) = (Size(bBatch) * inner) * cols
  BY <1>1, StackParts
<1>4. /\ \A x \in 1 .. Size(left.shape) : left.values[x] \in Int
      /\ \A x \in 1 .. Size(right.shape) : right.values[x] \in Int
  BY TensorParts, HeldTypes
<1>5. CanBroadcastTo(aBatch, batch) /\ CanBroadcastTo(bBatch, batch)
  OBVIOUS
<1>6. Size(batch) \in Nat /\ Size(aBatch) \in Nat /\ Size(bBatch) \in Nat
  <2> HIDE DEF aBatch, bBatch
  <2> QED
    BY <1>2, <1>3, SizeIsBlocks
<1>7. i \in Nat /\ i < (Size(batch) * rows) * cols
  <2>1. i \in 0 .. (Size(batch \o <<rows, cols>>) - 1)
    OBVIOUS
  <2> HIDE DEF rows, cols
  <2>2. Size(batch \o <<rows, cols>>) = (Size(batch) * rows) * cols
    BY <1>2, <1>3, StackSize
  <2>3. (Size(batch) * rows) * cols \in Nat
    BY <1>2, <1>3, <1>6, SMTT(30)
  <2> QED
    BY <2>1, <2>2, <2>3
<1>8. Terms(left, right, batch, i)
        = [k \in 0 .. (inner - 1) |-> left.values[oa * rows * inner + row * inner + k + 1]
                                      * right.values[ob * inner * cols + k * cols + col + 1]]
  BY DEF Terms
<1> HIDE DEF rows, inner, cols, aBatch, bBatch
<1>9. 0 < rows /\ 0 < cols
  <2>1. rows = 0 => (Size(batch) * rows) * cols = 0
    BY <1>3, <1>6
  <2>2. cols = 0 => (Size(batch) * rows) * cols = 0
    BY <1>2, <1>6
  <2> QED
    BY <1>2, <1>3, <1>7, <2>1, <2>2
<1>10. /\ b \in 0 .. (Size(batch) - 1)
       /\ row \in Nat /\ row < rows /\ col \in Nat /\ col < cols
  <2> DEFINE m == rows * cols
             q == i \div cols
  <2>1. m \in Nat /\ 0 < m
    <3>1. rows \in Nat /\ cols \in Nat /\ 0 < rows /\ 0 < cols
      BY <1>2, <1>3, <1>9
    <3>2. \A x, y \in Nat : 0 < x /\ 0 < y => x * y \in Nat /\ 0 < x * y
      OBVIOUS
    <3> QED
      BY <3>1, <3>2
  <2>2. q \in Nat /\ col \in Nat /\ col < cols
    BY <1>3, <1>7, <1>9, DivMod
  <2> HIDE DEF q
  <2>3. row \in Nat /\ row < rows
    <3>1. q % rows \in Nat /\ q % rows < rows
      BY <1>2, <1>9, <2>2, DivMod
    <3> QED
      BY <3>1 DEF q
  <2> HIDE DEF m
  <2>4. i \div m \in Nat /\ i % m \in Nat /\ i = m * (i \div m) + (i % m)
    BY <1>7, <2>1, DivMod
  <2>5. (Size(batch) * rows) * cols = m * Size(batch)
    BY <1>2, <1>3, <1>6 DEF m
  <2>6. ASSUME Size(batch) <= i \div m PROVE FALSE
    <3>1. m * Size(batch) <= m * (i \div m) /\ m * (i \div m) \in Nat /\ m * Size(batch) \in Nat
      BY <1>6, <2>1, <2>4, <2>6, SMTT(30)
    <3> QED
      BY <1>7, <2>4, <2>5, <3>1
  <2>7. b = i \div m
    BY DEF m
  <2> HIDE DEF b
  <2> QED
    BY <1>6, <2>2, <2>3, <2>4, <2>6, <2>7
<1> HIDE DEF b, row, col
<1>11. oa \in 0 .. (Size(aBatch) - 1) /\ ob \in 0 .. (Size(bBatch) - 1)
  BY <1>2, <1>3, <1>5, <1>10, BatchFits
<1> HIDE DEF oa, ob
<1>12. ASSUME NEW k \in 0 .. (inner - 1)
       PROVE  /\ oa * rows * inner + row * inner + k + 1 \in 1 .. Size(left.shape)
              /\ ob * inner * cols + k * cols + col + 1 \in 1 .. Size(right.shape)
  <2>1. /\ k \in Nat /\ k < inner
        /\ oa \in Nat /\ oa < Size(aBatch) /\ ob \in Nat /\ ob < Size(bBatch)
    <3>1. \A n \in Nat : \A x \in 0 .. (n - 1) : x \in Nat /\ x < n
      OBVIOUS
    <3>2. inner \in Nat
      BY <1>2
    <3>3. Size(aBatch) \in Nat /\ Size(bBatch) \in Nat
      BY <1>6
    <3> QED
      BY <1>11, <3>1, <3>2, <3>3
  <2>2. oa * rows + row \in Nat /\ oa * rows + row < Size(aBatch) * rows
    BY <1>2, <1>6, <1>10, <2>1, Nested
  <2>3. ob * inner + k \in Nat /\ ob * inner + k < Size(bBatch) * inner
    BY <1>2, <1>6, <2>1, Nested
  <2>4. Size(aBatch) * rows \in Nat /\ Size(bBatch) * inner \in Nat
    <3>1. \A x, y \in Nat : x * y \in Nat
      OBVIOUS
    <3> QED
      BY <1>2, <1>6, <3>1
  <2>5. /\ (oa * rows + row) * inner + k \in Nat
        /\ (oa * rows + row) * inner + k < (Size(aBatch) * rows) * inner
    BY <1>2, <2>1, <2>2, <2>4, Nested
  <2>6. /\ (ob * inner + k) * cols + col \in Nat
        /\ (ob * inner + k) * cols + col < (Size(bBatch) * inner) * cols
    BY <1>3, <1>10, <2>3, <2>4, Nested
  <2>7. /\ (oa * rows + row) * inner = oa * rows * inner + row * inner
        /\ (ob * inner + k) * cols = ob * inner * cols + k * cols
    BY <1>2, <1>3, <1>10, <1>11, <2>1
  <2>8. /\ oa * rows * inner + row * inner + k \in Nat
        /\ oa * rows * inner + row * inner + k < Size(left.shape)
        /\ ob * inner * cols + k * cols + col \in Nat
        /\ ob * inner * cols + k * cols + col < Size(right.shape)
    BY <1>2, <1>3, <2>5, <2>6, <2>7
  <2>9. Size(left.shape) \in Nat /\ Size(right.shape) \in Nat
    BY TensorParts
  <2>10. \A x, n \in Nat : x < n => x + 1 \in 1 .. n
    OBVIOUS
  <2> QED
    BY <2>8, <2>9, <2>10
<1>13. \A k \in 0 .. (inner - 1) :
         left.values[oa * rows * inner + row * inner + k + 1]
         * right.values[ob * inner * cols + k * cols + col + 1] \in Int
  BY <1>4, <1>12
<1>14. Terms(left, right, batch, i) \in [0 .. (inner - 1) -> Int]
  BY <1>8, <1>13
<1> QED
  BY <1>2, <1>14 DEF inner


\* The typed product answers the sums of those products, rounded for f32.
Products(left, right, batch, shape) ==
  LET inner == left.shape[Len(left.shape)]
  IN [i \in 1 .. Size(shape) |->
        LET sum == Sums(inner, Terms(left, right, batch, i - 1))[inner]
        IN IF left.dtype = "f32" THEN F32(sum) ELSE sum]

\* When it is refused, and what it answers when it is not.
LEMMA BatchedMatmulMeans ==
  ASSUME NEW left, IsTensor(left), NEW right, IsTensor(right), BatchedMatmul(left, right) # Err
  PROVE  LET rows == left.shape[Len(left.shape) - 1]
             inner == left.shape[Len(left.shape)]
             cols == right.shape[Len(right.shape)]
             aBatch == SubSeq(left.shape, 1, Len(left.shape) - 2)
             bBatch == SubSeq(right.shape, 1, Len(right.shape) - 2)
             batch == BroadcastShape(aBatch, bBatch)
             shape == batch \o <<rows, cols>>
         IN /\ ValidPair(left, right) /\ 2 <= Len(left.shape) /\ 2 <= Len(right.shape)
            /\ right.shape[Len(right.shape) - 1] = inner
            /\ batch \in Shapes /\ CanBroadcastTo(aBatch, batch) /\ CanBroadcastTo(bBatch, batch)
            /\ shape \in Shapes
            /\ Products(left, right, batch, shape) \in [1 .. Size(shape) -> Held(left.dtype)]
            /\ BatchedMatmul(left, right)
                 = [dtype |-> left.dtype, shape |-> shape,
                    values |-> Products(left, right, batch, shape)]
<1> DEFINE rows == left.shape[Len(left.shape) - 1]
           inner == left.shape[Len(left.shape)]
           cols == right.shape[Len(right.shape)]
           aBatch == SubSeq(left.shape, 1, Len(left.shape) - 2)
           bBatch == SubSeq(right.shape, 1, Len(right.shape) - 2)
           batch == MergeFromRight(aBatch, bBatch)
           joint == BroadcastShape(aBatch, bBatch)
           shape == batch \o <<rows, cols>>
           a0(i) == BroadcastBatchOffset(i \div (rows * cols), batch, aBatch) * rows * inner
           b0(i) == BroadcastBatchOffset(i \div (rows * cols), batch, bBatch) * inner * cols
           term(i, k) == left.values[a0(i) + ((i \div cols) % rows) * inner + k + 1]
                         * right.values[b0(i) + k * cols + (i % cols) + 1]
           Is(i, f) == f = [k \in 0 .. inner |-> IF k = 0 THEN 0
                              ELSE F64(f[k - 1] + F64(term(i, k - 1)))]
           cell(i) == (CHOOSE f : Is(i, f))[inner]
           w == Products(left, right, batch, shape)
<1>1. left.shape \in Shapes /\ right.shape \in Shapes /\ left.dtype \in Dtype
  BY TensorParts
<1>2. /\ ValidPair(left, right) /\ 2 <= Len(left.shape) /\ 2 <= Len(right.shape)
      /\ right.shape[Len(right.shape) - 1] = inner /\ -1 \notin Range(batch)
  <2>1. 2 <= Len(left.shape) <=> ~(Len(left.shape) < 2)
    BY <1>1 DEF Shapes
  <2>2. 2 <= Len(right.shape) <=> ~(Len(right.shape) < 2)
    BY <1>1 DEF Shapes
  <2> QED
    BY <2>1, <2>2 DEF BatchedMatmul
<1>3. aBatch \in Shapes /\ bBatch \in Shapes /\ rows \in Nat /\ inner \in Nat /\ cols \in Nat
  BY <1>1, <1>2, StackParts
<1>4. batch = joint /\ batch \in Shapes /\ CanBroadcastTo(aBatch, batch) /\ CanBroadcastTo(bBatch, batch)
  <2> HIDE DEF aBatch, bBatch
  <2>1. Compatible(aBatch, bBatch)
    BY <1>2, <1>3, MergeMeans
  <2> QED
    BY <1>3, <2>1, MergeMeans, BroadcastShapeMeans
<1>5. shape \in Shapes /\ Size(shape) \in Nat
  <2> HIDE DEF batch, rows, cols
  <2>1. shape \in Shapes
    BY <1>3, <1>4, StackSize
  <2> HIDE DEF shape
  <2> QED
    BY <2>1, SizeIsBlocks
<1>6. BatchedMatmul(left, right)
        = IF left.dtype = "f32"
          THEN Dense("f32", shape, [i \in 1 .. Size(shape) |-> F32(cell(i - 1))])
          ELSE Dense("f64", shape, [i \in 1 .. Size(shape) |-> cell(i - 1)])
  BY <1>2 DEF BatchedMatmul, Dot
<1>7. ASSUME NEW i \in 0 .. (Size(shape) - 1)
      PROVE  /\ cell(i) = Sums(inner, Terms(left, right, batch, i))[inner]
             /\ cell(i) \in Wide
  <2> DEFINE g == Terms(left, right, batch, i)
             f == CHOOSE h : Is(i, h)
  <2>1. g \in [0 .. (inner - 1) -> Int]
    <3> HIDE DEF batch
    <3> QED
      BY <1>2, <1>4, TermsFit
  <2>2. \A k \in 1 .. inner : g[k - 1] = term(i, k - 1)
    <3>1. \A k \in 1 .. inner : k - 1 \in 0 .. (inner - 1)
      BY <1>3
    <3> QED
      BY <3>1 DEF Terms
  <2> HIDE DEF g, term
  <2>3. ASSUME NEW h PROVE Is(i, h) <=> IsSums(inner, g, h)
    <3>1. \A k \in 0 .. inner : k # 0 => k \in 1 .. inner
      BY <1>3
    <3>2. [k \in 0 .. inner |-> IF k = 0 THEN 0 ELSE F64(h[k - 1] + F64(term(i, k - 1)))]
            = [k \in 0 .. inner |-> IF k = 0 THEN 0 ELSE F64(h[k - 1] + F64(g[k - 1]))]
      BY <2>2, <3>1
    <3> QED
      BY <3>2 DEF IsSums
  <2> HIDE DEF Is, inner
  <2>4. /\ IsSums(inner, g, Sums(inner, g)) /\ Sums(inner, g)[inner] \in Wide
        /\ \A h : IsSums(inner, g, h) => h = Sums(inner, g)
    BY <1>3, <2>1, SumsExist
  <2>5. Is(i, f)
    BY <2>3, <2>4
  <2>6. f = Sums(inner, g)
    BY <2>3, <2>4, <2>5
  <2> HIDE DEF f
  <2> QED
    BY <2>4, <2>6 DEF f, g
<1> HIDE DEF cell, shape
<1>8. \A i \in 1 .. Size(shape) : i - 1 \in 0 .. (Size(shape) - 1)
  BY <1>5
<1>9. \A v \in Wide : v \in Int /\ F32(v) \in Held("f32")
  BY Widths DEF Held
<1>10. CASE left.dtype = "f32"
  <2>1. w = [i \in 1 .. Size(shape) |-> F32(cell(i - 1))]
    BY <1>7, <1>8, <1>10 DEF Products
  <2>2. w \in [1 .. Size(shape) -> Held("f32")]
    BY <1>7, <1>8, <1>9, <2>1
  <2>3. BatchedMatmul(left, right) = Dense("f32", shape, w)
    BY <1>6, <1>10, <2>1
  <2> HIDE DEF w
  <2>4. Dense("f32", shape, w) = [dtype |-> "f32", shape |-> shape, values |-> w]
    BY <1>1, <1>5, <1>10, <2>2, DenseMeans
  <2> QED
    BY <1>2, <1>4, <1>5, <1>10, <2>2, <2>3, <2>4 DEF w, shape
<1>11. CASE left.dtype # "f32"
  <2>1. left.dtype = "f64" /\ "f64" \in Dtype
    BY <1>1, <1>2, <1>11 DEF ValidPair, Float, Dtype
  <2>2. w = [i \in 1 .. Size(shape) |-> cell(i - 1)]
    BY <1>7, <1>8, <1>11 DEF Products
  <2>3. w \in [1 .. Size(shape) -> Held("f64")]
    BY <1>7, <1>8, <2>2 DEF Held, Wide
  <2>4. BatchedMatmul(left, right) = Dense("f64", shape, w)
    BY <1>6, <1>11, <2>2
  <2> HIDE DEF w
  <2>5. Dense("f64", shape, w) = [dtype |-> "f64", shape |-> shape, values |-> w]
    BY <1>5, <2>1, <2>3, DenseMeans
  <2> QED
    BY <1>2, <1>4, <1>5, <2>1, <2>3, <2>4, <2>5 DEF w, shape
<1> QED
  BY <1>10, <1>11


\* A batched product is a tensor.
LEMMA BatchedMatmulFine ==
  ASSUME NEW left, IsTensor(left), NEW right, IsTensor(right)
  PROVE  Fine(BatchedMatmul(left, right))
<1>1. CASE BatchedMatmul(left, right) = Err
  BY <1>1 DEF Fine, Err, Dtype
<1>2. CASE BatchedMatmul(left, right) # Err
  <2>1. \E s \in Shapes : \E v \in [1 .. Size(s) -> Held(left.dtype)] :
          BatchedMatmul(left, right) = [dtype |-> left.dtype, shape |-> s, values |-> v]
    BY <1>2, BatchedMatmulMeans
  <2>2. left.dtype \in Dtype
    BY TensorParts
  <2> QED
    BY <2>1, <2>2, TensorMade DEF Fine
<1> QED
  BY <1>1, <1>2

-----------------------------------------------------------------------------
(* The routes. *)

\* Every call a behaviour starts from is a tensor.
LEMMA InitFine == Init => WellFormed
<1> SUFFICES ASSUME Init PROVE IsTensor(tensor)
  BY DEF WellFormed
<1>1. PICK p \in Literals : tensor = TensorFromParts(p.dtype, p.shape, p.values)
  BY DEF Init
<1>2. p.shape \in Shapes /\ p.values \in Seq(Int \cup {Complex}) /\ tensor # Err
  BY InputAssumption DEF Init, Shapes
<1> QED
  BY <1>1, <1>2, FromPartsFine

\* A tensor the caller is answered is one.
LEMMA StepFine == WellFormed /\ [Next]_vars => WellFormed'
<1> SUFFICES ASSUME WellFormed, [Next]_vars PROVE IsTensor(tensor)'
  BY DEF WellFormed
<1>1. IsTensor(tensor) /\ tensor.dtype \in Dtype /\ tensor.shape \in Shapes
  BY TensorParts DEF WellFormed
<1>2. ASSUME NEW r, Answer(r), Fine(r) PROVE IsTensor(tensor)'
  <2>1. (tensor' = r /\ r.dtype \in Dtype) \/ tensor' = tensor
    BY <1>2 DEF Answer
  <2>2. IsTensor(tensor')
    BY <1>1, <1>2, <2>1 DEF Fine
  <2>3. IsTensor(tensor') = (IsTensor(tensor))'
    BY DEF IsTensor, Coords, InWidth, F32, F64, Round, Abs, Dtype
  <2> QED
    BY <2>2, <2>3
<1>3. \A s \in ShapeArgs : s \in Shapes
  BY InputAssumption DEF Shapes
<1>4. \A r \in Operands : IsTensor(r)
  BY InputAssumption
<1>5. CASE GetSlice
  <2>1. PICK n \in Nat : \E bounds \in [1 .. n -> BoundArgs] : Answer(Slice(tensor, bounds))
    BY <1>5 DEF GetSlice
  <2>2. PICK bounds \in [1 .. n -> BoundArgs] : Answer(Slice(tensor, bounds))
    BY <2>1
  <2>3. Fine(Slice(tensor, bounds))
    BY <1>1, <2>2, SliceFine
  <2> QED
    BY <1>2, <2>2, <2>3
<1>6. CASE GetBroadcast
  <2>1. PICK s \in ShapeArgs : Answer(Broadcast(tensor, s))
    BY <1>6 DEF GetBroadcast
  <2> QED
    BY <1>1, <1>2, <1>3, <2>1, BroadcastFine
<1>7. CASE GetCast
  <2>1. PICK d : Answer(Cast(tensor, d))
    BY <1>7 DEF GetCast
  <2> QED
    BY <1>1, <1>2, <2>1, CastFine
<1>8. CASE GetExpandDims
  <2>1. Answer(ExpandLast(tensor)) \/ \E axes \in ShapeArgs : Answer(ExpandDims(tensor, axes))
    BY <1>8 DEF GetExpandDims
  <2> QED
    BY <1>1, <1>2, <1>3, <2>1, ExpandLastFine, ExpandDimsFine
<1>9. CASE GetReshape
  <2>1. PICK s \in ShapeArgs : Answer(Reshape(tensor, s))
    BY <1>9 DEF GetReshape
  <2> QED
    BY <1>1, <1>2, <1>3, <2>1, ReshapeFine
<1>10. CASE GetTranspose
  <2>1. PICK perm \in ShapeArgs : Answer(TensorTranspose(tensor, perm))
    BY <1>10 DEF GetTranspose
  <2> QED
    BY <1>1, <1>2, <1>3, <2>1, TransposeFine
<1>11. CASE PostTruthy
  <2>1. PICK all \in BOOLEAN : Answer(Truthy(tensor, all))
    BY <1>11 DEF PostTruthy
  <2>2. Fine(Truthy(tensor, all))
    BY DEF Fine, Truthy, Scalar, Dtype
  <2> QED
    BY <1>2, <2>1, <2>2
<1>12. CASE PostCond
  <2>1. PICK then \in Operands, orElse \in Operands : Answer(Cond(tensor, then, orElse))
    BY <1>12 DEF PostCond
  <2> QED
    BY <1>1, <1>2, <1>4, <2>1, CondFine
<1>13. CASE PostReduce
  <2>1. PICK op \in ReduceOp, keepdims \in BOOLEAN :
          \E axes : Answer(ReduceAxes(tensor, op, axes, keepdims))
    BY <1>13 DEF PostReduce
  <2>2. PICK axes : Answer(ReduceAxes(tensor, op, axes, keepdims))
    BY <2>1
  <2> QED
    BY <1>1, <1>2, <2>2, ReduceFine
<1>14. CASE PostBroadcastReduce
  <2>1. PICK s \in ShapeArgs : Answer(BroadcastReduceSum(tensor, s))
    BY <1>14 DEF PostBroadcastReduce
  <2> QED
    BY <1>1, <1>2, <1>3, <2>1, BroadcastReduceFine
<1>15. CASE PostMatmul
  <2>1. PICK r \in Operands : Answer(BatchedMatmul(tensor, r))
    BY <1>15 DEF PostMatmul
  <2> QED
    BY <1>1, <1>2, <1>4, <2>1, BatchedMatmulFine
<1>16. CASE PostAdd
  <2>1. PICK r \in Operands : Answer(BroadcastAdd(tensor, r))
    BY <1>16 DEF PostAdd
  <2> QED
    BY <1>1, <1>2, <1>4, <2>1, BroadcastAddFine
<1>17. CASE PostBinary
  <2>1. PICK r \in Operands, op \in BinaryOps : Answer(BinaryOp(tensor, r, op))
    BY <1>17 DEF PostBinary
  <2> QED
    BY <1>1, <1>2, <1>4, <2>1, BinaryOpFine
<1>18. CASE PostNot
  BY <1>1, <1>2, <1>18, NotFine DEF PostNot
<1>19. CASE Read
  <2>1. PICK c \in ShapeArgs : Answer(ReadValue(tensor, c))
    BY <1>19 DEF Read
  <2> QED
    BY <1>2, <2>1, ReadFine
<1>20. CASE Write
  <2>1. PICK c \in ShapeArgs, n \in Numbers : Answer(WriteValue(tensor, c, n))
    BY <1>20 DEF Write
  <2>2. n \in Int \cup {Complex}
    BY InputAssumption
  <2> QED
    BY <1>1, <1>2, <1>3, <2>1, <2>2, WriteFine
<1>21. CASE UNCHANGED vars
  <2>1. tensor' = tensor
    BY <1>21 DEF vars
  <2> QED
    BY <1>1, <2>1 DEF IsTensor
<1> QED
  BY <1>5, <1>6, <1>7, <1>8, <1>9, <1>10, <1>11, <1>12, <1>13, <1>14, <1>15, <1>16,
     <1>17, <1>18, <1>19, <1>20, <1>21 DEF Next

\* Whatever routes are called, in whatever order, the caller holds a tensor: no
\* value is missing or read from outside a buffer, and each is within its dtype.
THEOREM TensorsWellFormed == Spec => []WellFormed
<1> QED
  BY InitFine, StepFine, PTL DEF Spec


-----------------------------------------------------------------------------
(* What the routes mean, of any tensor and so of the one the caller holds. *)

\* What holds of every tensor holds in every behaviour.
LEMMA TensorHeld == Spec => [](IsTensor(tensor))
<1>1. WellFormed => IsTensor(tensor)
  BY DEF WellFormed
<1> QED
  BY <1>1, TensorsWellFormed, PTL

\* The four ways between a coordinate and its place in the buffer agree, for any
\* rank and any dimensions.
THEOREM OffsetsAlwaysAgree == Spec => []OffsetsAgree
<1>1. IsTensor(tensor) => OffsetsAgree
  <2> SUFFICES ASSUME IsTensor(tensor), NEW c \in Coords(tensor.shape)
               PROVE  LET strides == Strides(tensor.shape)
                          offset == CoordOffset(tensor.shape, c)
                      IN /\ offset < Len(tensor.values)
                         /\ OffsetFromCoord(c, strides) = offset
                         /\ CoordFromOffset(offset, tensor.shape, strides) = c
                         /\ Unravel(offset, tensor.shape) = c
    BY DEF OffsetsAgree
  <2> DEFINE s == tensor.shape
             x == CoordOffset(s, c)
  <2>1. s \in Shapes /\ Size(s) \in Nat /\ Len(tensor.values) = Size(s)
    BY TensorParts
  <2> HIDE DEF s
  <2>2. c \in Coordinates(s)
    BY <2>1, CoordsAreCoordinates DEF s
  <2>3. x \in 0 .. (Size(s) - 1) /\ Unravel(x, s) = c /\ OffsetFromCoord(c, Strides(s)) = x
    BY <2>1, <2>2, CoordOffsetIsOffsets, UnravelOfOffset, OffsetFromCoordIsOffset
  <2> HIDE DEF x
  <2>4. CoordFromOffset(x, s, Strides(s)) = c
    BY <2>1, <2>3, CoordFromOffsetIsUnravel
  <2> QED
    BY <2>1, <2>3, <2>4 DEF x, s
<1> QED
  BY <1>1, TensorHeld, PTL

\* A value written is the value read back, and no other value changes.
THEOREM WritesAreLocal == Spec => []WriteIsLocal
<1>1. IsTensor(tensor) => WriteIsLocal
  <2> SUFFICES ASSUME IsTensor(tensor), NEW c \in Coords(tensor.shape),
                      NEW d \in Coords(tensor.shape), NEW n \in Numbers,
                      WriteValue(tensor, c, n) # Err
               PROVE  ReadValue(WriteValue(tensor, c, n), d) =
                        IF c = d THEN Scalar(ToComponent(tensor.dtype, n)) ELSE ReadValue(tensor, d)
    BY DEF WriteIsLocal
  <2> DEFINE s == tensor.shape
             x == CoordOffset(s, c) + 1
             y == CoordOffset(s, d) + 1
             w == WriteValue(tensor, c, n)
  <2>1. s \in Shapes /\ c \in Coordinates(s) /\ d \in Coordinates(s)
    BY TensorParts, CoordsAreCoordinates
  <2>2. c \in Shapes /\ d \in Shapes /\ n \in Int \cup {Complex}
    <3>1. Len(s) \in Nat /\ c \in [1 .. Len(s) -> Nat] /\ d \in [1 .. Len(s) -> Nat]
      BY <2>1, ShapeLength DEF Coordinates
    <3>2. \A m \in Nat : [1 .. m -> Nat] \subseteq Seq(Nat)
      OBVIOUS
    <3>3. c \in Seq(Nat) /\ d \in Seq(Nat)
      BY <3>1, <3>2
    <3> QED
      BY <3>3, InputAssumption DEF Shapes
  <2>3. w = [dtype |-> tensor.dtype, shape |-> s,
             values |-> [tensor.values EXCEPT ![x] = ToComponent(tensor.dtype, n)]]
    BY <2>2, WriteFine
  <2>4. CoordOk(s, d)
    BY <2>1, <2>2, CoordOkMeans
  <2>5. ReadValue(w, d) = Scalar(w.values[y]) /\ ReadValue(tensor, d) = Scalar(tensor.values[y])
    BY <2>3, <2>4 DEF ReadValue, At
  <2>6. c # d => x # y
    <3>1. Unravel(CoordOffset(s, c), s) = c /\ Unravel(CoordOffset(s, d), s) = d
      BY <2>1, UnravelOfOffset
    <3>2. CoordOffset(s, c) \in Int /\ CoordOffset(s, d) \in Int
      BY <2>1, CoordOffsetIsOffsets
    <3> QED
      BY <3>1, <3>2
  <2>7. x \in DOMAIN tensor.values /\ y \in DOMAIN tensor.values
    <3>1. x \in 1 .. Size(s) /\ y \in 1 .. Size(s)
      BY <2>1, AtHolds
    <3>2. DOMAIN tensor.values = 1 .. Size(s)
      BY TensorParts
    <3> QED
      BY <3>1, <3>2
  <2>8. w.values = [tensor.values EXCEPT ![x] = ToComponent(tensor.dtype, n)]
    BY <2>3
  <2>9. c = d => x = y
    OBVIOUS
  <2> HIDE DEF w, x, y
  <2>10. w.values[y] = IF c = d THEN ToComponent(tensor.dtype, n) ELSE tensor.values[y]
    BY <2>6, <2>7, <2>8, <2>9
  <2> QED
    BY <2>5, <2>10 DEF w
<1> QED
  BY <1>1, TensorHeld, PTL

\* The detour through f64 is exact for floats, and for u64 up to the last whole
\* number f64 holds.
LEMMA DetourIsExact ==
  ASSUME NEW t, IsTensor(t), \A i \in DOMAIN t.values : t.values[i] <= F64Exact,
         NEW s \in Shapes, Size(s) = Size(t.shape)
  PROVE  FromF64Like(t.dtype, s, ValuesF64(t))
           = [dtype |-> t.dtype, shape |-> s, values |-> t.values]
<1> DEFINE v == t.values
           n == Size(t.shape)
<1>1. t.dtype \in Dtype /\ n \in Nat /\ v \in [1 .. n -> Held(t.dtype)] /\ DOMAIN v = 1 .. n
  BY TensorParts
<1>2. /\ 0 < F32Exact /\ F32Exact \in Nat /\ F64Exact \in Nat /\ U64Max \in Nat
      /\ 0 < F64Exact /\ F64Exact < U64Max
  BY WidthAssumption
<1>3. ValuesF64(t) = v
  <2>1. CASE t.dtype # "u64"
    BY <2>1 DEF ValuesF64
  <2>2. CASE t.dtype = "u64"
    <3>1. \A i \in 1 .. n : v[i] \in Nat /\ v[i] <= F64Exact
      BY <1>1, <1>2, <2>2 DEF Held
    <3>2. \A i \in 1 .. n : F64(v[i]) = v[i]
      <4> SUFFICES ASSUME NEW i \in 1 .. n PROVE F64(v[i]) = v[i]
        OBVIOUS
      <4>1. v[i] \in Int /\ Abs(v[i]) <= F64Exact
        BY <3>1 DEF Abs
      <4> QED
        BY <1>2, <4>1, RoundStable DEF F64
    <3> QED
      BY <1>1, <2>2, <3>2 DEF ValuesF64
  <2> QED
    BY <2>1, <2>2
<1> HIDE DEF v
<1>4. Dense(t.dtype, s, v) = [dtype |-> t.dtype, shape |-> s, values |-> v]
  BY <1>1, DenseMeans
<1>5. CASE t.dtype = "f64"
  BY <1>3, <1>4, <1>5 DEF FromF64Like, v
<1>6. CASE t.dtype = "u64"
  <2>1. \A i \in 1 .. n : v[i] \in Nat /\ v[i] <= U64Max
    BY <1>1, <1>2, <1>6 DEF Held
  <2>2. Whole(v)
    BY <1>1, <2>1 DEF Whole
  <2>3. [i \in DOMAIN v |-> Saturate(v[i])] = v
    BY <1>1, <1>2, <2>1 DEF Saturate
  <2>4. FromF64Like(t.dtype, s, v) = Dense("u64", s, v)
    BY <1>6, <2>2, <2>3 DEF FromF64Like
  <2> QED
    BY <1>3, <1>4, <1>6, <2>4 DEF v
<1>7. CASE t.dtype = "f32"
  <2>1. \A i \in 1 .. n : v[i] \in Representable(F32Exact)
    BY <1>1, <1>7 DEF Held
  <2>2. \A i \in 1 .. n : F32(v[i]) = v[i]
    BY <1>2, <2>1, RepresentableIsStable DEF F32
  <2>3. [i \in DOMAIN v |-> F32(v[i])] = v
    BY <1>1, <2>2
  <2>4. FromF64Like(t.dtype, s, v) = Dense("f32", s, v)
    BY <1>7, <2>3 DEF FromF64Like
  <2> QED
    BY <1>3, <1>4, <1>7, <2>4 DEF v
<1> QED
  BY <1>1, <1>5, <1>6, <1>7 DEF Dtype

\* A reshape there and back again, or a dimension more and back, keeps every value.
THEOREM ShapeChangesKeepValues == Spec => []ShapeChangeKeepsValues
<1>1. IsTensor(tensor) => ShapeChangeKeepsValues
  <2> SUFFICES ASSUME IsTensor(tensor),
                      \A i \in DOMAIN tensor.values : tensor.values[i] <= F64Exact
               PROVE  LET flat == Reshape(tensor, <<Len(tensor.values)>>)
                      IN /\ Reshape(flat, tensor.shape) = tensor
                         /\ \A axes \in ShapeArgs :
                              LET wide == ExpandDims(tensor, axes)
                              IN wide # Err => Reshape(wide, tensor.shape) = tensor
    BY DEF ShapeChangeKeepsValues
  <2> DEFINE n == Len(tensor.values)
             made(s) == [dtype |-> tensor.dtype, shape |-> s, values |-> tensor.values]
  <2>1. /\ tensor = made(tensor.shape) /\ tensor.dtype \in Dtype /\ tensor.shape \in Shapes
        /\ n \in Nat /\ n = Size(tensor.shape)
        /\ tensor.values \in [1 .. n -> Held(tensor.dtype)]
    BY TensorParts
  <2>2. ASSUME NEW s \in Shapes, Size(s) = n PROVE Reshape(made(s), tensor.shape) = tensor
    <3> DEFINE t == made(s)
    <3>1. /\ IsTensor(t) /\ t.dtype = tensor.dtype /\ t.shape = s /\ t.values = tensor.values
      BY <2>1, <2>2, TensorMade
    <3> HIDE DEF t
    <3>2. FromF64Like(t.dtype, tensor.shape, ValuesF64(t)) = made(tensor.shape)
      BY <2>1, <2>2, <3>1, DetourIsExact
    <3>3. Reshape(t, tensor.shape) = FromF64Like(t.dtype, tensor.shape, ValuesF64(t))
      BY <2>1, <2>2, <3>1 DEF Reshape
    <3> QED
      BY <2>1, <3>2, <3>3 DEF t
  <2>3. \A s \in Shapes : Size(s) = n => FromF64Like(tensor.dtype, s, ValuesF64(tensor)) = made(s)
    BY <2>1, DetourIsExact
  <2>4. <<n>> \in Shapes /\ Size(<<n>>) = n
    <3>1. <<>> \in Shapes /\ Size(<<>>) = 1
      <4>1. <<>> \in Shapes /\ Len(<<>>) = 0
        BY DEF Shapes
      <4>2. Size(<<>>) = Sizes(<<>>)[Len(<<>>)] /\ Sizes(<<>>)[0] = 1
        BY <4>1, SizesExist
      <4> QED
        BY <4>1, <4>2
    <3>2. Append(<<>>, n) \in Shapes /\ Size(Append(<<>>, n)) = Size(<<>>) * n
      BY <2>1, <3>1, SizeAppend
    <3>3. Append(<<>>, n) = <<n>>
      OBVIOUS
    <3> QED
      BY <2>1, <3>1, <3>2, <3>3
  <2>5. Reshape(tensor, <<n>>) = made(<<n>>)
    BY <2>1, <2>3, <2>4 DEF Reshape
  <2>6. ASSUME NEW axes \in ShapeArgs, ExpandDims(tensor, axes) # Err
        PROVE  Reshape(ExpandDims(tensor, axes), tensor.shape) = tensor
    <3>1. axes \in Shapes
      BY InputAssumption DEF Shapes
    <3>2. PICK s \in Shapes : ExpandDims(tensor, axes) = FromF64Like(tensor.dtype, s, ValuesF64(tensor))
      BY <2>6, <3>1, ExpandDimsMeans
    <3>3. Size(s) = n
      <4>1. ValuesF64(tensor) \in [1 .. n -> Wide]
        BY <2>1, ValuesF64Wide
      <4>2. n # Size(s) => FromF64Like(tensor.dtype, s, ValuesF64(tensor)) = Err
        BY <2>1, <4>1, FromF64LikeMeans
      <4> QED
        BY <2>6, <3>2, <4>2
    <3>4. ExpandDims(tensor, axes) = made(s)
      BY <2>3, <3>2, <3>3
    <3> HIDE DEF made
    <3> QED
      BY <2>2, <3>3, <3>4
  <2> HIDE DEF made
  <2> QED
    BY <2>2, <2>4, <2>5, <2>6
<1> QED
  BY <1>1, TensorHeld, PTL


\* Floats are made into a tensor of their dtype as they are.
LEMMA FloatsAreExact ==
  ASSUME NEW d \in Float, NEW s \in Shapes, NEW v \in [1 .. Size(s) -> Held(d)]
  PROVE  /\ FromF64Like(d, s, v) = [dtype |-> d, shape |-> s, values |-> v]
         /\ IsTensor([dtype |-> d, shape |-> s, values |-> v])
<1>1. d \in Dtype /\ Size(s) \in Nat /\ F32Exact \in Nat /\ 0 < F32Exact
  BY SizeIsBlocks, WidthAssumption DEF Dtype, Float
<1>2. Dense(d, s, v) = [dtype |-> d, shape |-> s, values |-> v] /\ DOMAIN v = 1 .. Size(s)
  BY <1>1, DenseMeans
<1>3. IsTensor([dtype |-> d, shape |-> s, values |-> v])
  BY <1>1, TensorMade
<1>4. CASE d = "f64"
  BY <1>2, <1>3, <1>4 DEF FromF64Like
<1>5. CASE d = "f32"
  <2>1. \A i \in 1 .. Size(s) : F32(v[i]) = v[i]
    BY <1>1, <1>5, RepresentableIsStable DEF F32, Held
  <2>2. [i \in DOMAIN v |-> F32(v[i])] = v
    BY <1>2, <2>1
  <2>3. FromF64Like(d, s, v) = Dense("f32", s, v)
    BY <1>5, <2>2 DEF FromF64Like
  <2> QED
    BY <1>2, <1>3, <1>5, <2>3
<1> QED
  BY <1>4, <1>5 DEF Float

\* The place of the value of t repeated at a coordinate.
Place(t, coord) == CoordOffset(t.shape, ProjectBroadcastIndex(coord, t.shape)) + 1

\* A float tensor is broadcast without rounding.
LEMMA BroadcastIsExact ==
  ASSUME NEW t, IsTensor(t), t.dtype \in Float, NEW shape \in Shapes,
         CanBroadcastTo(t.shape, shape)
  PROVE  LET v == [i \in 1 .. Size(shape) |-> t.values[Place(t, Unravel(i - 1, shape))]]
         IN /\ Broadcast(t, shape) = [dtype |-> t.dtype, shape |-> shape, values |-> v]
            /\ IsTensor(Broadcast(t, shape))
<1> DEFINE v == [i \in 1 .. Size(shape) |-> t.values[Place(t, Unravel(i - 1, shape))]]
<1>1. /\ Size(shape) \in Nat /\ t.values \in [1 .. Size(t.shape) -> Held(t.dtype)]
      /\ ValuesF64(t) = t.values
  BY TensorParts, SizeIsBlocks, ValuesF64Wide DEF Float
<1>2. ASSUME NEW i \in 1 .. Size(shape) PROVE v[i] \in Held(t.dtype)
  <2>1. i - 1 \in 0 .. (Size(shape) - 1)
    BY <1>1
  <2>2. Unravel(i - 1, shape) \in Coordinates(shape)
    BY <2>1, UnravelIsDivMod
  <2>3. Place(t, Unravel(i - 1, shape)) \in 1 .. Size(t.shape)
    BY <2>2, RepeatedValues DEF Place
  <2> QED
    BY <1>1, <2>3
<1>3. v \in [1 .. Size(shape) -> Held(t.dtype)]
  BY <1>2
<1>4. Broadcast(t, shape) = FromF64Like(t.dtype, shape, v)
  BY <1>1, BroadcastMeans DEF Place
<1> HIDE DEF v
<1> QED
  BY <1>3, <1>4, FloatsAreExact DEF v

\* A coordinate of a shape is its own projection to it.
LEMMA ProjectToItself ==
  ASSUME NEW s \in Shapes, NEW c \in Coordinates(s)
  PROVE  ProjectBroadcastIndex(c, s) = c
<1>1. /\ Len(s) \in Nat /\ DOMAIN s = 1 .. Len(s) /\ Len(c) = Len(s)
      /\ c = [i \in 1 .. Len(s) |-> c[i]]
      /\ \A i \in 1 .. Len(s) : c[i] \in Nat /\ c[i] < s[i] /\ s[i] \in Nat
  BY ShapeLength DEF Coordinates
<1>2. \A i \in 1 .. Len(s) : Len(c) - Len(s) + i = i /\ (s[i] = 1 => c[i] = 0)
  BY <1>1
<1>3. ProjectBroadcastIndex(c, s) = [i \in 1 .. Len(s) |-> c[i]]
  BY <1>1, <1>2 DEF ProjectBroadcastIndex
<1> QED
  BY <1>1, <1>3

\* A shape is compatible with itself.
LEMMA ShapeWithItself ==
  ASSUME NEW s \in Shapes
  PROVE  Compatible(s, s) /\ BroadcastShape(s, s) = s
<1> DEFINE n == Len(s)
<1>1. n \in Nat /\ DOMAIN s = 1 .. n /\ MaxRank(s, s) = n /\ s = [i \in 1 .. n |-> s[i]]
  BY DEF MaxRank, Shapes
<1>2. Compatible(s, s)
  BY <1>1 DEF Compatible
<1>3. \A i \in 1 .. n : DimAt(s, n, i) = s[i]
  BY <1>1 DEF DimAt
<1>4. BroadcastShape(s, s) = [i \in 1 .. n |-> s[i]]
  BY <1>1, <1>3 DEF BroadcastShape
<1> QED
  BY <1>1, <1>2, <1>4

\* The typed add answers what the elementwise one does, though it broadcasts its
\* operands first.
LEMMA BroadcastAddIsAdd ==
  ASSUME NEW left, IsTensor(left), NEW right, IsTensor(right), ValidPair(left, right)
  PROVE  BroadcastAdd(left, right) = BinaryOp(left, right, "add")
<1> DEFINE shape == BroadcastShape(left.shape, right.shape)
           merged == MergeFromRight(left.shape, right.shape)
           d == left.dtype
           l == Broadcast(left, shape)
           r == Broadcast(right, shape)
           c(i) == Unravel(i - 1, shape)
<1>1. /\ left.shape \in Shapes /\ right.shape \in Shapes /\ "add" \in BinaryOps
      /\ d \in Float /\ right.dtype = d
  BY TensorParts DEF BinaryOps, ValidPair
<1>2. CASE left.shape = right.shape
  BY <1>2 DEF BroadcastAdd, ExactShapeAdd
<1>3. CASE left.shape # right.shape /\ ~Compatible(left.shape, right.shape)
  <2>1. -1 \in Range(merged)
    BY <1>1, <1>3, MergeMeans
  <2>2. BroadcastAdd(left, right) = Err
    BY <1>3, <2>1 DEF BroadcastAdd
  <2> QED
    BY <1>1, <1>3, <2>2, BinaryOpMeans
<1>4. CASE left.shape # right.shape /\ Compatible(left.shape, right.shape)
  <2>1. -1 \notin Range(merged) /\ merged = shape
    BY <1>1, <1>4, MergeMeans
  <2>2. /\ shape \in Shapes /\ CanBroadcastTo(left.shape, shape)
        /\ CanBroadcastTo(right.shape, shape)
    BY <1>1, <1>4, BroadcastShapeMeans
  <2>3. BroadcastAdd(left, right) = IF Err \in {l, r} THEN Err ELSE ExactShapeAdd(l, r)
    BY <1>4, <2>1 DEF BroadcastAdd
  <2> HIDE DEF shape
  <2>4. /\ Size(shape) \in Nat
        /\ l = [dtype |-> d, shape |-> shape,
                values |-> [i \in 1 .. Size(shape) |-> left.values[Place(left, c(i))]]]
        /\ r = [dtype |-> d, shape |-> shape,
                values |-> [i \in 1 .. Size(shape) |-> right.values[Place(right, c(i))]]]
        /\ IsTensor(l) /\ IsTensor(r)
    BY <1>1, <2>2, BroadcastIsExact, SizeIsBlocks
  <2>5. BroadcastAdd(left, right) = BinaryOp(l, r, "add")
    <3>1. l # Err /\ r # Err
      BY <1>1, <2>4 DEF Err, Float
    <3>2. ValidPair(l, r) /\ l.shape = r.shape
      BY <1>1, <2>4 DEF ValidPair
    <3> HIDE DEF l, r
    <3> QED
      BY <2>3, <3>1, <3>2 DEF ExactShapeAdd
  <2>6. /\ l.dtype = d /\ r.dtype = d /\ l.shape = shape /\ r.shape = shape
        /\ \A i \in 1 .. Size(shape) : /\ l.values[i] = left.values[Place(left, c(i))]
                                       /\ r.values[i] = right.values[Place(right, c(i))]
    BY <2>4
  <2>7. /\ ValuesF64(l) = l.values /\ ValuesF64(r) = r.values
        /\ ValuesF64(left) = left.values /\ ValuesF64(right) = right.values
    BY <1>1, <2>6 DEF ValuesF64, Float
  <2> HIDE DEF l, r
  <2>8. BinaryValues(l, r, "add", shape) = BinaryValues(left, right, "add", shape)
    <3>1. ASSUME NEW i \in 1 .. Size(shape)
          PROVE  Place(l, c(i)) = i /\ Place(r, c(i)) = i
      <4>1. i - 1 \in 0 .. (Size(shape) - 1) /\ i \in Int
        BY <2>4
      <4>2. c(i) \in Coordinates(shape) /\ CoordOffset(shape, c(i)) = i - 1
        BY <2>2, <4>1, UnravelIsDivMod, OffsetOfUnravel
      <4>3. ProjectBroadcastIndex(c(i), shape) = c(i)
        BY <2>2, <4>2, ProjectToItself
      <4> QED
        BY <2>6, <4>1, <4>2, <4>3 DEF Place
    <3>2. \A i \in 1 .. Size(shape) :
            /\ ValuesF64(l)[Place(l, c(i))] = ValuesF64(left)[Place(left, c(i))]
            /\ ValuesF64(r)[Place(r, c(i))] = ValuesF64(right)[Place(right, c(i))]
      BY <2>6, <2>7, <3>1
    <3> QED
      BY <3>2 DEF BinaryValues, Place
  <2>9. BinaryOp(l, r, "add") = FromF64Like(d, shape, BinaryValues(l, r, "add", shape))
    <3>1. Compatible(l.shape, r.shape) /\ BroadcastShape(l.shape, r.shape) = shape
      BY <2>2, <2>6, ShapeWithItself
    <3> QED
      BY <1>1, <2>4, <2>6, <3>1, BinaryOpMeans
  <2>10. BinaryOp(left, right, "add") = FromF64Like(d, shape, BinaryValues(left, right, "add", shape))
    BY <1>1, <1>4, BinaryOpMeans DEF shape
  <2> QED
    BY <2>5, <2>8, <2>9, <2>10
<1> QED
  BY <1>2, <1>3, <1>4


\* A place of a buffer filled in row-major order is read back at its coordinate.
LEMMA PlaceOfCoordinate ==
  ASSUME NEW s \in Shapes, NEW c \in Coordinates(s)
  PROVE  /\ CoordOffset(s, c) + 1 \in 1 .. Size(s)
         /\ Unravel((CoordOffset(s, c) + 1) - 1, s) = c
<1>1. CoordOffset(s, c) \in 0 .. (Size(s) - 1) /\ Size(s) \in Nat /\ Unravel(CoordOffset(s, c), s) = c
  BY CoordOffsetIsOffsets, UnravelOfOffset, SizeIsBlocks
<1>2. (CoordOffset(s, c) + 1) - 1 = CoordOffset(s, c) /\ CoordOffset(s, c) + 1 \in 1 .. Size(s)
  BY <1>1
<1> QED
  BY <1>1, <1>2

\* What an operation reads of an operand is what the operand repeated holds there.
LEMMA RepeatedIsRead ==
  ASSUME NEW t, IsTensor(t), NEW shape \in Shapes, CanBroadcastTo(t.shape, shape),
         NEW c \in Coordinates(shape)
  PROVE  Repeated(t, c) = ValuesF64(t)[Place(t, c)] /\ Repeated(t, c) \in Wide
<1> DEFINE x == Place(t, c)
<1>1. Repeated(t, c) = F64(t.values[x])
  BY DEF Repeated, At, Place, ProjectBroadcastIndex
<1>2. /\ x \in 1 .. Size(t.shape) /\ t.dtype \in Dtype
      /\ t.values \in [1 .. Size(t.shape) -> Held(t.dtype)]
      /\ DOMAIN ValuesF64(t) = 1 .. Size(t.shape)
  BY RepeatedValues, TensorParts, ValuesF64Wide DEF Place
<1> HIDE DEF x
<1>3. Repeated(t, c) \in Wide
  BY <1>1, <1>2, HeldTypes, Widths
<1>4. CASE t.dtype = "u64"
  <2>1. DOMAIN t.values = 1 .. Size(t.shape)
    BY <1>2
  <2>2. ValuesF64(t)[x] = F64(t.values[x])
    BY <1>2, <1>4, <2>1 DEF ValuesF64
  <2> QED
    BY <1>1, <1>3, <2>2 DEF x
<1>5. CASE t.dtype # "u64"
  <2>1. t.values[x] \in Wide /\ ValuesF64(t) = t.values
    BY <1>2, <1>5, HeldTypes, ValuesF64Wide
  <2>2. F64(t.values[x]) = t.values[x]
    BY <2>1, WidthAssumption, RepresentableIsStable DEF F64, Wide
  <2> QED
    BY <1>1, <1>3, <2>1, <2>2 DEF x
<1> QED
  BY <1>4, <1>5

\* A result of dtype f64 is that of a receiver of dtype f64.
LEMMA WideResult ==
  ASSUME NEW d \in Dtype, NEW s \in Shapes, NEW v, FromF64Like(d, s, v).dtype = "f64"
  PROVE  d = "f64"
BY DEF FromF64Like, Dense, Err, Dtype

\* An elementwise operation is that of the two tensors broadcast to their common
\* shape, refused just when there is none; the typed add agrees with it.
THEOREM ElementwiseAsMeant == Spec => []ElementwiseMeaning
<1>1. IsTensor(tensor) => ElementwiseMeaning
  <2> SUFFICES ASSUME IsTensor(tensor), NEW r \in Operands
               PROVE  LET shape == BroadcastShape(tensor.shape, r.shape)
                          diff == BinaryOp(tensor, r, "sub")
                      IN /\ diff # Err <=> CanBroadcastTo(tensor.shape, shape) /\ CanBroadcastTo(r.shape, shape)
                         /\ diff # Err =>
                              /\ diff.shape = shape
                              /\ diff.dtype = "f64" => \A c \in Coords(shape) :
                                   At(diff, c) = F64(Repeated(tensor, c) - Repeated(r, c))
                              /\ Broadcast(tensor, shape).shape = shape
                         /\ ValidPair(tensor, r) => BroadcastAdd(tensor, r) = BinaryOp(tensor, r, "add")
    BY DEF ElementwiseMeaning
  <2> DEFINE shape == BroadcastShape(tensor.shape, r.shape)
             diff == BinaryOp(tensor, r, "sub")
             v == BinaryValues(tensor, r, "sub", shape)
  <2>1. IsTensor(r) /\ tensor.shape \in Shapes /\ r.shape \in Shapes /\ tensor.dtype \in Dtype
        /\ "sub" \in BinaryOps
    BY InputAssumption, TensorParts DEF BinaryOps
  <2>2. /\ shape \in Shapes
        /\ Compatible(tensor.shape, r.shape)
             <=> CanBroadcastTo(tensor.shape, shape) /\ CanBroadcastTo(r.shape, shape)
    BY <2>1, BroadcastShapeMeans
  <2>3. ~Compatible(tensor.shape, r.shape) => diff = Err
    BY <2>1, BinaryOpMeans
  <2>4. ASSUME Compatible(tensor.shape, r.shape)
        PROVE  /\ v \in [1 .. Size(shape) -> Wide] /\ diff = FromF64Like(tensor.dtype, shape, v)
               /\ diff # Err /\ diff.shape = shape
               /\ tensor.dtype = "f64" => diff.values = v
    <3>1. v \in [1 .. Size(shape) -> Wide] /\ diff = FromF64Like(tensor.dtype, shape, v)
      BY <2>1, <2>4, BinaryOpMeans
    <3>2. Size(shape) \in Nat
      BY <2>2, SizeIsBlocks
    <3> HIDE DEF v, shape, diff
    <3>3. /\ IsTensor(diff) /\ diff.shape = shape
          /\ tensor.dtype = "f64" => diff.values = v
      BY <2>1, <2>2, <3>1, <3>2, FromF64LikeMeans
    <3>4. diff # Err
      BY <3>3, TensorParts DEF Err, Dtype
    <3> QED
      BY <3>1, <3>3, <3>4
  <2>5. ASSUME diff # Err, diff.dtype = "f64", NEW c \in Coords(shape)
        PROVE  At(diff, c) = F64(Repeated(tensor, c) - Repeated(r, c))
    <3> DEFINE x == CoordOffset(shape, c) + 1
    <3>1. Compatible(tensor.shape, r.shape)
      BY <2>3, <2>5
    <3>2. tensor.dtype = "f64"
      <4>1. diff = FromF64Like(tensor.dtype, shape, v)
        BY <2>4, <3>1
      <4> HIDE DEF v, shape, diff
      <4> QED
        BY <2>1, <2>2, <2>5, <4>1, WideResult
    <3>3. diff.values = v /\ diff.shape = shape
      BY <2>4, <3>1, <3>2
    <3>4. CanBroadcastTo(tensor.shape, shape) /\ CanBroadcastTo(r.shape, shape)
      BY <2>2, <3>1
    <3>5. At(diff, c) = v[x]
      BY <3>3 DEF At
    <3> HIDE DEF shape, diff
    <3>6. c \in Coordinates(shape)
      BY <2>2, <2>5, CoordsAreCoordinates
    <3>7. x \in 1 .. Size(shape) /\ Unravel(x - 1, shape) = c
      BY <2>2, <3>6, PlaceOfCoordinate
    <3> HIDE DEF x
    <3>8. v[x] = F64(ValuesF64(tensor)[Place(tensor, c)] - ValuesF64(r)[Place(r, c)])
      BY <3>7 DEF BinaryValues, ApplyOp, Place
    <3>9. /\ Repeated(tensor, c) = ValuesF64(tensor)[Place(tensor, c)]
          /\ Repeated(r, c) = ValuesF64(r)[Place(r, c)]
      BY <2>1, <2>2, <3>4, <3>6, RepeatedIsRead
    <3> QED
      BY <3>5, <3>8, <3>9
  <2>6. diff # Err => Broadcast(tensor, shape).shape = shape
    <3> HIDE DEF shape
    <3> QED
      BY <2>2, <2>3, BroadcastFine
  <2>7. ValidPair(tensor, r) => BroadcastAdd(tensor, r) = BinaryOp(tensor, r, "add")
    BY <2>1, BroadcastAddIsAdd
  <2> HIDE DEF v
  <2> QED
    BY <2>2, <2>3, <2>4, <2>5, <2>6, <2>7
<1> QED
  BY <1>1, TensorHeld, PTL


-----------------------------------------------------------------------------
(* Matrix products, entry by entry. *)

\* One axis more multiplies every block.
LEMMA BlocksAppend ==
  ASSUME NEW s \in Shapes, NEW x \in Nat
  PROVE  /\ \A i \in 1 .. (Len(s) + 1) : Blocks(Append(s, x))[i] = Blocks(s)[i] * x
         /\ Blocks(Append(s, x))[Len(s) + 2] = 1
<1> DEFINE n == Len(s)
           e == Append(s, x)
           b == Blocks(s)
           d == Blocks(e)
           S == {i \in 1 .. (n + 1) : d[i] = b[i] * x}
<1>1. /\ n \in Nat /\ e \in Shapes /\ Len(e) = n + 1
      /\ e[n + 1] = x /\ \A i \in 1 .. n : e[i] = s[i] /\ s[i] \in Nat
  BY DEF Shapes
<1> HIDE DEF e
<1>2. IsBlocks(s, b) /\ IsBlocks(e, d)
  BY <1>1, BlocksExist
<1> HIDE DEF b, d
<1>3. d[n + 2] = 1 /\ b[n + 1] = 1
  <2>1. (n + 1) + 1 = n + 2
    BY <1>1
  <2> QED
    BY <1>1, <1>2, <2>1 DEF IsBlocks
<1>4. n + 1 \in S
  <2>1. n + 1 \in 1 .. (n + 1) /\ (n + 1) + 1 = n + 2
    BY <1>1
  <2>2. d[n + 1] = x * d[n + 2]
    BY <1>1, <1>2, <2>1 DEF IsBlocks
  <2> QED
    BY <1>3, <2>1, <2>2
<1>5. ASSUME NEW i \in 1 .. n, i + 1 \in S PROVE i \in S
  <2>1. i \in 1 .. (n + 1) /\ i + 1 \in 1 .. (n + 1)
    BY <1>1
  <2>2. d[i] = s[i] * d[i + 1] /\ b[i] = s[i] * b[i + 1] /\ b[i + 1] \in Nat
    BY <1>1, <1>2, <2>1 DEF IsBlocks
  <2>3. d[i + 1] = b[i + 1] * x /\ s[i] \in Nat
    BY <1>1, <1>5
  <2>4. s[i] * (b[i + 1] * x) = (s[i] * b[i + 1]) * x
    BY <2>2, <2>3
  <2> QED
    BY <2>1, <2>2, <2>3, <2>4
<1>6. \A i \in 1 .. (n + 1) : i \in S
  <2> HIDE DEF S
  <2> QED
    BY <1>1, <1>4, <1>5, DownFrom
<1> QED
  BY <1>3, <1>6 DEF b, d, e

\* What a sequence with one element more is.
LEMMA AppendMeans ==
  ASSUME NEW k \in Nat, NEW g \in [1 .. k -> Nat], NEW y \in Nat
  PROVE  Append(g, y) = [i \in 1 .. (k + 1) |-> IF i = k + 1 THEN y ELSE g[i]]
<1>1. g \in Seq(Nat) /\ Len(g) = k
  OBVIOUS
<1>2. /\ Append(g, y) \in Seq(Nat) /\ Len(Append(g, y)) = k + 1
      /\ Append(g, y)[k + 1] = y /\ \A i \in 1 .. k : Append(g, y)[i] = g[i]
  BY <1>1
<1>3. \A e \in Seq(Nat) : e = [i \in 1 .. Len(e) |-> e[i]]
  OBVIOUS
<1>4. Append(g, y) = [i \in 1 .. (k + 1) |-> Append(g, y)[i]]
  BY <1>2, <1>3
<1>5. \A i \in 1 .. (k + 1) : i # k + 1 => i \in 1 .. k
  OBVIOUS
<1> QED
  BY <1>2, <1>4, <1>5

\* The last axis of a place is its remainder.
LEMMA UnravelAppend ==
  ASSUME NEW s \in Shapes, NEW x \in Nat, NEW q \in 0 .. (Size(s) * x - 1)
  PROVE  /\ 0 < x /\ q \div x \in 0 .. (Size(s) - 1) /\ q % x \in 0 .. (x - 1)
         /\ Unravel(q, Append(s, x)) = Append(Unravel(q \div x, s), q % x)
<1> DEFINE n == Len(s)
           e == Append(s, x)
           h == q \div x
           u == Unravel(h, s)
<1>1. /\ n \in Nat /\ e \in Shapes /\ Len(e) = n + 1
      /\ e[n + 1] = x /\ \A i \in 1 .. n : e[i] = s[i] /\ s[i] \in Nat
  BY DEF Shapes
<1>2. Size(s) \in Nat /\ Size(e) = Size(s) * x /\ q \in Nat /\ q < Size(s) * x
  <2>1. Size(s) \in Nat /\ Size(e) = Size(s) * x
    BY SizesExist, SizeAppend
  <2>2. \A y, z \in Nat : y * z \in Nat
    OBVIOUS
  <2>3. Size(s) * x \in Nat
    BY <2>1, <2>2
  <2> QED
    BY <2>1, <2>3
<1>3. 0 < x
  <2>1. x = 0 => Size(s) * x = 0
    BY <1>2
  <2> QED
    BY <1>2, <2>1
<1>4. h \in Nat /\ q % x \in Nat /\ q % x < x /\ q = x * h + (q % x)
  BY <1>2, <1>3, DivMod
<1>5. h < Size(s)
  <2> HIDE DEF h
  <2>1. ASSUME Size(s) <= h PROVE FALSE
    <3>1. x * Size(s) <= x * h /\ x * Size(s) \in Nat /\ x * h \in Nat /\ x * Size(s) = Size(s) * x
      BY <1>2, <1>4, <2>1
    <3> QED
      BY <1>2, <1>4, <3>1
  <2> QED
    BY <1>2, <1>4, <2>1
<1>6. h \in 0 .. (Size(s) - 1) /\ q \in 0 .. (Size(e) - 1) /\ q % x \in 0 .. (x - 1)
  BY <1>2, <1>4, <1>5
<1>7. Unravel(q, e) = [i \in 1 .. (n + 1) |-> (q \div Blocks(e)[i + 1]) % e[i]]
  <2> HIDE DEF e
  <2> QED
    BY <1>1, <1>6, UnravelIsDivMod
<1>8. u = [i \in 1 .. n |-> (h \div Blocks(s)[i + 1]) % s[i]]
  <2> HIDE DEF h
  <2> QED
    BY <1>6, UnravelIsDivMod
<1>9. ASSUME NEW i \in 1 .. n PROVE (q \div Blocks(e)[i + 1]) % e[i] = u[i]
  <2> DEFINE b == Blocks(s)[i + 1]
  <2>1. i + 1 \in 1 .. (n + 1)
    BY <1>1
  <2>2. Blocks(e)[i + 1] = b * x
    BY <2>1, BlocksAppend
  <2>3. b \in Nat /\ 0 < b
    BY <1>6, <2>1, BlocksPositive
  <2> HIDE DEF b
  <2>4. (q \div x) \div b = q \div (b * x)
    BY <1>2, <1>3, <2>3, DivModProduct
  <2> QED
    BY <1>1, <1>8, <2>2, <2>4 DEF b
<1>10. (q \div Blocks(e)[(n + 1) + 1]) % e[n + 1] = q % x
  <2>1. (n + 1) + 1 = n + 2 /\ q \div 1 = q
    BY <1>1, <1>2
  <2> QED
    BY <1>1, <2>1, BlocksAppend
<1>11. Append(u, q % x) = [i \in 1 .. (n + 1) |-> IF i = n + 1 THEN q % x ELSE u[i]]
  <2> DEFINE z == q % x
  <2>1. u \in Coordinates(s)
    <3> HIDE DEF h
    <3> QED
      BY <1>6, UnravelIsDivMod
  <2>2. u \in [1 .. n -> Nat] /\ z \in Nat
    BY <1>4, <2>1 DEF Coordinates
  <2>3. n \in Nat
    BY <1>1
  <2> HIDE DEF u, z, n
  <2>4. Append(u, z) = [i \in 1 .. (n + 1) |-> IF i = n + 1 THEN z ELSE u[i]]
    BY <2>2, <2>3, AppendMeans
  <2> QED
    BY <2>4 DEF z
<1>12. Unravel(q, e) = Append(u, q % x)
  <2> HIDE DEF u, e
  <2>1. \A i \in 1 .. (n + 1) : (q \div Blocks(e)[i + 1]) % e[i] = IF i = n + 1 THEN q % x ELSE u[i]
    <3>1. \A i \in 1 .. (n + 1) : i = n + 1 \/ i \in 1 .. n
      BY <1>1
    <3>2. n + 1 \notin 1 .. n
      BY <1>1
    <3> QED
      BY <1>9, <1>10, <3>1, <3>2
  <2> QED
    BY <1>7, <1>11, <2>1
<1> QED
  BY <1>3, <1>6, <1>12

\* The place of a coordinate with one axis more.
LEMMA OffsetAppend ==
  ASSUME NEW s \in Shapes, NEW c \in Coordinates(s), NEW x \in Nat, NEW y \in Nat, y < x
  PROVE  /\ Append(c, y) \in Coordinates(Append(s, x))
         /\ CoordOffset(Append(s, x), Append(c, y)) = CoordOffset(s, c) * x + y
<1> DEFINE o == CoordOffset(s, c)
           q == o * x + y
           e == Append(s, x)
<1>1. o \in Nat /\ o < Size(s) /\ Size(s) \in Nat /\ Unravel(o, s) = c
  BY CoordOffsetIsOffsets, UnravelOfOffset, SizeIsBlocks
<1>2. e \in Shapes /\ Size(e) = Size(s) * x
  BY SizeAppend
<1> HIDE DEF o
<1>3. q \in Nat /\ q < Size(s) * x
  BY <1>1, Nested
<1>4. Size(s) * x \in Nat
  <2>1. \A m, k \in Nat : m * k \in Nat
    OBVIOUS
  <2> QED
    BY <1>1, <2>1
<1>5. q \in 0 .. (Size(s) * x - 1)
  BY <1>3, <1>4
<1>6. q \div x = o /\ q % x = y
  <2>1. q = x * o + y
    BY <1>1
  <2>2. (x * o + y) \div x = o /\ (x * o + y) % x = y
    BY <1>1, DivModUnique
  <2> HIDE DEF q
  <2> QED
    BY <2>1, <2>2
<1> HIDE DEF q
<1>7. Unravel(q, e) = Append(c, y)
  BY <1>1, <1>5, <1>6, UnravelAppend
<1>8. q \in 0 .. (Size(e) - 1)
  BY <1>2, <1>5
<1> HIDE DEF e
<1>9. Unravel(q, e) \in Coordinates(e) /\ CoordOffset(e, Unravel(q, e)) = q
  BY <1>2, <1>8, UnravelIsDivMod, OffsetOfUnravel
<1> QED
  BY <1>7, <1>9 DEF q, e, o


\* A stack of matrices has two axes more than its batch.
LEMMA StackIsAppend ==
  ASSUME NEW s \in Shapes, NEW x \in Nat, NEW y \in Nat
  PROVE  s \o <<x, y>> = Append(Append(s, x), y)
BY DEF Shapes

\* A place in a stack is a batch, a row and a column.
LEMMA StackPlace ==
  ASSUME NEW batch \in Shapes, NEW rows \in Nat, NEW cols \in Nat,
         NEW x \in 0 .. (Size(batch \o <<rows, cols>>) - 1)
  PROVE  /\ x \div (rows * cols) \in 0 .. (Size(batch) - 1)
         /\ (x \div cols) % rows \in 0 .. (rows - 1) /\ x % cols \in 0 .. (cols - 1)
         /\ 0 < rows /\ 0 < cols
         /\ Unravel(x, batch \o <<rows, cols>>)
              = Append(Append(Unravel(x \div (rows * cols), batch), (x \div cols) % rows), x % cols)
<1> DEFINE s == Append(batch, rows)
           q == x \div cols
<1>1. s \in Shapes /\ Size(s) = Size(batch) * rows /\ batch \o <<rows, cols>> = Append(s, cols)
  BY SizeAppend, StackIsAppend
<1>2. Size(batch \o <<rows, cols>>) = Size(s) * cols
  BY <1>1, StackSize
<1> HIDE DEF s
<1>3. x \in 0 .. (Size(s) * cols - 1)
  BY <1>2
<1>4. /\ 0 < cols /\ q \in 0 .. (Size(s) - 1) /\ x % cols \in 0 .. (cols - 1)
      /\ Unravel(x, Append(s, cols)) = Append(Unravel(q, s), x % cols)
  BY <1>1, <1>3, UnravelAppend
<1>5. q \in 0 .. (Size(batch) * rows - 1)
  BY <1>1, <1>4
<1> HIDE DEF q
<1>6. /\ 0 < rows /\ q \div rows \in 0 .. (Size(batch) - 1) /\ q % rows \in 0 .. (rows - 1)
      /\ Unravel(q, Append(batch, rows)) = Append(Unravel(q \div rows, batch), q % rows)
  BY <1>5, UnravelAppend
<1>7. q \div rows = x \div (rows * cols)
  <2>1. x \in Nat
    OBVIOUS
  <2>2. (x \div cols) \div rows = x \div (rows * cols)
    BY <1>4, <1>6, <2>1, DivModProduct
  <2> QED
    BY <2>2 DEF q
<1> QED
  BY <1>1, <1>4, <1>6, <1>7 DEF s, q

\* A coordinate of a stack at a place of its batch.
AtBatch(coord, outer, place) ==
  /\ Len(coord) = Len(outer) + 2
  /\ \A a \in 1 .. Len(outer) : coord[a] = Unravel(place, outer)[a]

\* The entry of an operand that falls at a batch position is read at its place.
LEMMA EntryMeans ==
  ASSUME NEW t, IsTensor(t), 2 <= Len(t.shape), NEW outer \in Shapes,
         CanBroadcastTo(SubSeq(t.shape, 1, Len(t.shape) - 2), outer),
         NEW place \in 0 .. (Size(outer) - 1),
         NEW coord, AtBatch(coord, outer, place),
         NEW y \in Nat, y < t.shape[Len(t.shape) - 1],
         NEW z \in Nat, z < t.shape[Len(t.shape)]
  PROVE  Entry(t, coord, y, z)
           = t.values[BroadcastBatchOffset(place, outer, SubSeq(t.shape, 1, Len(t.shape) - 2))
                        * t.shape[Len(t.shape) - 1] * t.shape[Len(t.shape)]
                      + y * t.shape[Len(t.shape)] + z + 1]
<1> DEFINE n == Len(t.shape)
           src == SubSeq(t.shape, 1, n - 2)
           R == t.shape[n - 1]
           C == t.shape[n]
           u == Unravel(place, outer)
           p == ProjectBroadcastIndex(u, src)
           o == CoordOffset(src, p)
           e == [a \in 1 .. n |-> IF a = n - 1 THEN y ELSE IF a = n THEN z
                   ELSE IF t.shape[a] = 1 THEN 0 ELSE coord[(Len(coord) - n) + a]]
<1>1. t.shape \in Shapes /\ n \in Nat
  BY TensorParts, ShapeLength
<1>2. Len(coord) = Len(outer) + 2 /\ \A a \in 1 .. Len(outer) : coord[a] = u[a]
  BY DEF AtBatch
<1>3. /\ n \in Nat /\ src \in Shapes /\ Len(src) = n - 2 /\ R \in Nat /\ C \in Nat
      /\ \A a \in 1 .. (n - 2) : src[a] = t.shape[a]
      /\ t.shape = src \o <<R, C>>
  BY <1>1, StackParts
<1>4. Entry(t, coord, y, z) = At(t, e)
  BY DEF Entry
<1>5. u \in Coordinates(outer) /\ Len(u) = Len(outer) /\ Len(outer) \in Nat
  <2>1. u \in Coordinates(outer) /\ Len(outer) \in Nat
    BY UnravelIsDivMod, ShapeLength
  <2> QED
    BY <2>1 DEF Coordinates
<1>6. CanBroadcastTo(src, outer) /\ Len(src) <= Len(outer)
  BY DEF CanBroadcastTo
<1>7. BroadcastBatchOffset(place, outer, src) = o
  <2>1. p = [a \in DOMAIN src |-> IF src[a] = 1 THEN 0 ELSE u[Len(outer) - Len(src) + a]]
    BY <1>5 DEF ProjectBroadcastIndex
  <2> QED
    BY <2>1 DEF BroadcastBatchOffset
<1> HIDE DEF u
<1>8. p \in Coordinates(src)
  <2> HIDE DEF src
  <2> QED
    BY <1>3, <1>5, <1>6, ProjectFits
<1>9. \A a \in 1 .. (n - 2) : p[a] = IF t.shape[a] = 1 THEN 0 ELSE coord[(Len(coord) - n) + a]
  <2> HIDE DEF src, n
  <2> SUFFICES ASSUME NEW a \in 1 .. (n - 2)
               PROVE  p[a] = IF t.shape[a] = 1 THEN 0 ELSE coord[(Len(coord) - n) + a]
    OBVIOUS
  <2>1. Len(u) - Len(src) + a = (Len(coord) - n) + a /\ (Len(coord) - n) + a \in 1 .. Len(outer)
    BY <1>2, <1>3, <1>5, <1>6
  <2>2. a \in DOMAIN src
    BY <1>3 DEF Shapes
  <2>3. p[a] = IF src[a] = 1 THEN 0 ELSE u[Len(u) - Len(src) + a]
    BY <2>2 DEF ProjectBroadcastIndex
  <2>4. coord[(Len(coord) - n) + a] = u[(Len(coord) - n) + a]
    BY <1>2, <2>1
  <2> QED
    BY <1>3, <2>1, <2>3, <2>4
<1>10. p \in [1 .. (n - 2) -> Nat] /\ n - 2 \in Nat
  BY <1>3, <1>8 DEF Coordinates
<1>11. y < R /\ z < C
  OBVIOUS
<1> HIDE DEF p, src, R, C, n
<1>12. e = Append(Append(p, y), z)
  <2> DEFINE m == n - 2
             g == [a \in 1 .. (m + 1) |-> IF a = m + 1 THEN y ELSE p[a]]
  <2>1. m \in Nat /\ m + 1 \in Nat /\ m + 1 = n - 1 /\ (m + 1) + 1 = n
    BY <1>3, <1>10
  <2>2. Append(p, y) = g
    BY <1>10, AppendMeans
  <2>3. \A a \in 1 .. (m + 1) : a # m + 1 => a \in 1 .. m
    BY <2>1
  <2>4. g \in [1 .. (m + 1) -> Nat]
    BY <1>10, <2>3
  <2>5. Append(g, z) = [a \in 1 .. ((m + 1) + 1) |-> IF a = (m + 1) + 1 THEN z ELSE g[a]]
    <3> HIDE DEF g, m
    <3> QED
      BY <2>1, <2>4, AppendMeans
  <2>6. \A a \in 1 .. n : e[a] = IF a = n THEN z ELSE g[a]
    <3>1. \A a \in 1 .. n : a = n \/ a = n - 1 \/ a \in 1 .. (n - 2)
      BY <1>3
    <3>2. n # n - 1
      BY <1>3
    <3>3. \A a \in 1 .. (n - 2) : a # n /\ a # n - 1 /\ a \in 1 .. (m + 1)
      BY <1>3
    <3>4. n - 1 \in 1 .. (m + 1) /\ n \in 1 .. n /\ n - 1 \in 1 .. n
      BY <1>3, <1>10, <2>1
    <3> QED
      BY <1>9, <2>1, <3>1, <3>2, <3>3, <3>4
  <2>7. Append(g, z) = [a \in 1 .. n |-> IF a = n THEN z ELSE g[a]]
    BY <2>1, <2>5
  <2> QED
    BY <2>2, <2>6, <2>7
<1>13. t.shape = Append(Append(src, R), C)
  BY <1>3, StackIsAppend
<1> HIDE DEF e
<1>14. CoordOffset(t.shape, e) = (o * R + y) * C + z
  <2>1. /\ Append(p, y) \in Coordinates(Append(src, R))
        /\ CoordOffset(Append(src, R), Append(p, y)) = o * R + y
    BY <1>3, <1>8, <1>11, OffsetAppend
  <2>2. Append(src, R) \in Shapes
    BY <1>3, SizeAppend
  <2>3. CoordOffset(Append(Append(src, R), C), Append(Append(p, y), z))
          = CoordOffset(Append(src, R), Append(p, y)) * C + z
    BY <1>3, <1>11, <2>1, <2>2, OffsetAppend
  <2> QED
    BY <1>12, <1>13, <2>1, <2>3
<1>15. (o * R + y) * C + z + 1 = o * R * C + y * C + z + 1
  <2>1. o \in Nat
    BY <1>3, <1>8, CoordOffsetIsOffsets
  <2> HIDE DEF o
  <2>2. (o * R + y) * C = o * R * C + y * C
    BY <1>3, <2>1
  <2> QED
    BY <2>2
<1> QED
  BY <1>4, <1>7, <1>14, <1>15 DEF At, src, R, C, n


\* The coordinate of a place of a stack, axis by axis.
LEMMA StackCoordinate ==
  ASSUME NEW batch \in Shapes, NEW u \in Coordinates(batch), NEW y \in Nat, NEW z \in Nat
  PROVE  LET c == Append(Append(u, y), z)
         IN /\ Len(c) = Len(batch) + 2 /\ c[Len(batch) + 1] = y /\ c[Len(batch) + 2] = z
            /\ \A a \in 1 .. Len(batch) : c[a] = u[a]
<1> DEFINE m == Len(batch)
<1>1. m \in Nat /\ u \in [1 .. m -> Nat]
  BY ShapeLength DEF Coordinates
<1> HIDE DEF m
<1>2. u \in Seq(Nat) /\ Len(u) = m
  BY <1>1
<1>3. /\ Append(u, y) \in Seq(Nat) /\ Len(Append(u, y)) = m + 1
      /\ Append(u, y)[m + 1] = y /\ \A a \in 1 .. m : Append(u, y)[a] = u[a]
  BY <1>1, <1>2
<1>4. /\ \A e \in Seq(Nat) : /\ Len(Append(e, z)) = Len(e) + 1 /\ Append(e, z)[Len(e) + 1] = z
                             /\ \A a \in 1 .. Len(e) : Append(e, z)[a] = e[a]
  OBVIOUS
<1>5. (m + 1) + 1 = m + 2 /\ m + 1 \in 1 .. (m + 1) /\ \A a \in 1 .. m : a \in 1 .. (m + 1)
  BY <1>1
<1> HIDE DEF m
<1> QED
  BY <1>3, <1>4, <1>5 DEF m

\* The row of the left matrix at a place, with the column of the right one.
EntrySum(left, right, c, n) ==
  LET inner == left.shape[Len(left.shape)]
      sum == CHOOSE f : f = [k \in 0 .. inner |-> IF k = 0 THEN 0
               ELSE F64(f[k - 1] + F64(Entry(left, c, c[n - 1], k - 1) * Entry(right, c, k - 1, c[n])))]
  IN sum[inner]

\* The batched product at a coordinate is the product of the row and the column
\* of the matrices that fall at its batch position.
LEMMA ProductEntry ==
  ASSUME NEW left, IsTensor(left), NEW right, IsTensor(right),
         BatchedMatmul(left, right) # Err, BatchedMatmul(left, right).dtype = "f64",
         NEW c \in Coords(BatchedMatmul(left, right).shape)
  PROVE  At(BatchedMatmul(left, right), c)
           = EntrySum(left, right, c, Len(BatchedMatmul(left, right).shape))
<1> DEFINE rows == left.shape[Len(left.shape) - 1]
           inner == left.shape[Len(left.shape)]
           cols == right.shape[Len(right.shape)]
           aBatch == SubSeq(left.shape, 1, Len(left.shape) - 2)
           bBatch == SubSeq(right.shape, 1, Len(right.shape) - 2)
           batch == BroadcastShape(aBatch, bBatch)
           shape == batch \o <<rows, cols>>
           p == BatchedMatmul(left, right)
           n == Len(p.shape)
           x == CoordOffset(shape, c)
           b == x \div (rows * cols)
           row == (x \div cols) % rows
           col == x % cols
           u == Unravel(b, batch)
           g == Terms(left, right, batch, x)
           term(k) == Entry(left, c, c[n - 1], k) * Entry(right, c, k, c[n])
           Is(h) == h = [k \in 0 .. inner |-> IF k = 0 THEN 0
                           ELSE F64(h[k - 1] + F64(term(k - 1)))]
           f == CHOOSE h : Is(h)
<1>1. /\ 2 <= Len(left.shape) /\ 2 <= Len(right.shape) /\ ValidPair(left, right)
      /\ right.shape[Len(right.shape) - 1] = inner
      /\ batch \in Shapes /\ CanBroadcastTo(aBatch, batch) /\ CanBroadcastTo(bBatch, batch)
      /\ shape \in Shapes
      /\ p = [dtype |-> left.dtype, shape |-> shape,
              values |-> Products(left, right, batch, shape)]
  BY BatchedMatmulMeans
<1>2. left.shape \in Shapes /\ right.shape \in Shapes
  BY TensorParts
<1>3. rows \in Nat /\ inner \in Nat /\ cols \in Nat
  BY <1>1, <1>2, StackParts
<1>4. left.dtype = "f64" /\ p.shape = shape /\ p.values = Products(left, right, batch, shape)
  BY <1>1
<1>5. n = Len(batch) + 2 /\ Len(batch) \in Nat
  <2> HIDE DEF batch, rows, cols
  <2>1. Len(shape) = Len(batch) + 2 /\ Len(batch) \in Nat
    BY <1>1, <1>3, StackSize, ShapeLength
  <2> QED
    BY <1>4, <2>1
<1>6. c \in Coordinates(shape)
  BY <1>1, <1>4, CoordsAreCoordinates
<1>7. x + 1 \in 1 .. Size(shape) /\ x \in 0 .. (Size(shape) - 1) /\ Unravel(x, shape) = c /\ x \in Int
  <2> HIDE DEF shape
  <2>1. x \in 0 .. (Size(shape) - 1) /\ Unravel(x, shape) = c /\ Size(shape) \in Nat
    BY <1>1, <1>6, CoordOffsetIsOffsets, UnravelOfOffset, SizeIsBlocks
  <2> HIDE DEF x
  <2> QED
    BY <2>1
<1>8. At(p, c) = Sums(inner, g)[inner]
  <2>1. At(p, c) = Products(left, right, batch, shape)[x + 1]
    BY <1>4 DEF At
  <2>2. (x + 1) - 1 = x
    BY <1>7
  <2> HIDE DEF x, shape, batch
  <2> QED
    BY <1>4, <1>7, <2>1, <2>2 DEF Products
<1>9. g \in [0 .. (inner - 1) -> Int]
  <2> HIDE DEF batch, x
  <2> QED
    BY <1>1, <1>7, TermsFit
<1>10. /\ b \in 0 .. (Size(batch) - 1) /\ row \in Nat /\ row < rows /\ col \in Nat /\ col < cols
       /\ c = Append(Append(u, row), col)
  <2> HIDE DEF x, batch, rows, cols
  <2>1. /\ b \in 0 .. (Size(batch) - 1) /\ row \in 0 .. (rows - 1) /\ col \in 0 .. (cols - 1)
        /\ Unravel(x, shape) = Append(Append(u, row), col)
    BY <1>1, <1>3, <1>7, StackPlace
  <2>2. \A m \in Nat : \A y \in 0 .. (m - 1) : y \in Nat /\ y < m
    OBVIOUS
  <2> HIDE DEF b, row, col, u, shape
  <2> QED
    BY <1>3, <1>7, <2>1, <2>2
<1>11. /\ Len(c) = Len(batch) + 2 /\ c[n - 1] = row /\ c[n] = col
       /\ \A a \in 1 .. Len(batch) : c[a] = u[a]
  <2> HIDE DEF batch, b, row, col
  <2>1. u \in Coordinates(batch)
    BY <1>1, <1>10, UnravelIsDivMod
  <2> HIDE DEF u, n
  <2>2. n - 1 = Len(batch) + 1
    BY <1>5
  <2> QED
    BY <1>1, <1>5, <1>10, <2>1, <2>2, StackCoordinate, SMTT(30)
<1>12. ASSUME NEW k \in 0 .. (inner - 1) PROVE term(k) = g[k]
  <2>1. k \in Nat /\ k < inner
    BY <1>3
  <2> HIDE DEF x, batch, b, row, col, u, n
  <2>2. Entry(left, c, row, k)
          = left.values[BroadcastBatchOffset(b, batch, aBatch) * rows * inner + row * inner + k + 1]
    <3>1. CanBroadcastTo(aBatch, batch) /\ AtBatch(c, batch, b)
      BY <1>1, <1>11 DEF u, AtBatch
    <3> QED
      BY <1>1, <1>10, <2>1, <3>1, EntryMeans
  <2>3. Entry(right, c, k, col)
          = right.values[BroadcastBatchOffset(b, batch, bBatch) * inner * cols + k * cols + col + 1]
    <3>1. CanBroadcastTo(bBatch, batch) /\ AtBatch(c, batch, b)
      BY <1>1, <1>11 DEF u, AtBatch
    <3>2. /\ k < right.shape[Len(right.shape) - 1] /\ k \in Nat
          /\ col < right.shape[Len(right.shape)] /\ col \in Nat
          /\ 2 <= Len(right.shape) /\ batch \in Shapes /\ b \in 0 .. (Size(batch) - 1)
      BY <1>1, <1>10, <2>1
    <3>3. Entry(right, c, k, col)
            = right.values[BroadcastBatchOffset(b, batch, bBatch)
                             * right.shape[Len(right.shape) - 1] * right.shape[Len(right.shape)]
                           + k * right.shape[Len(right.shape)] + col + 1]
      BY <3>1, <3>2, EntryMeans
    <3> QED
      BY <1>1, <3>3
  <2>4. g[k] = left.values[BroadcastBatchOffset(b, batch, aBatch) * rows * inner + row * inner + k + 1]
               * right.values[BroadcastBatchOffset(b, batch, bBatch) * inner * cols + k * cols + col + 1]
    BY DEF Terms, b, row, col
  <2> QED
    BY <1>11, <2>2, <2>3, <2>4
<1>13. EntrySum(left, right, c, n) = f[inner]
  BY DEF EntrySum
<1> HIDE DEF term, g
<1>14. ASSUME NEW h PROVE Is(h) <=> IsSums(inner, g, h)
  <2>1. \A k \in 0 .. inner : k # 0 => k - 1 \in 0 .. (inner - 1)
    BY <1>3
  <2>2. [k \in 0 .. inner |-> IF k = 0 THEN 0 ELSE F64(h[k - 1] + F64(term(k - 1)))]
          = [k \in 0 .. inner |-> IF k = 0 THEN 0 ELSE F64(h[k - 1] + F64(g[k - 1]))]
    BY <1>12, <2>1
  <2> QED
    BY <2>2 DEF IsSums
<1> HIDE DEF Is, inner
<1>15. /\ IsSums(inner, g, Sums(inner, g))
       /\ \A h : IsSums(inner, g, h) => h = Sums(inner, g)
  BY <1>3, <1>9, SumsExist
<1>16. f = Sums(inner, g)
  <2>1. Is(f)
    BY <1>14, <1>15
  <2> QED
    BY <1>14, <1>15, <2>1
<1> HIDE DEF f
<1> QED
  BY <1>8, <1>13, <1>16 DEF inner


-----------------------------------------------------------------------------
(* Two matrices. *)

\* The shape without axes has one place.
LEMMA NoAxes ==
  /\ <<>> \in Shapes /\ Len(<<>>) = 0 /\ Size(<<>>) = 1
  /\ <<>> \in Coordinates(<<>>) /\ CoordOffset(<<>>, <<>>) = 0
<1>1. <<>> \in Shapes /\ Len(<<>>) = 0
  BY DEF Shapes
<1>2. Size(<<>>) = 1
  <2>1. Size(<<>>) = Sizes(<<>>)[Len(<<>>)] /\ Sizes(<<>>)[0] = 1
    BY <1>1, SizesExist
  <2> QED
    BY <1>1, <2>1
<1>3. <<>> \in Coordinates(<<>>)
  BY <1>1 DEF Coordinates
<1>4. CoordOffset(<<>>, <<>>) \in 0 .. (Size(<<>>) - 1)
  BY <1>1, <1>3, CoordOffsetIsOffsets
<1> QED
  BY <1>1, <1>2, <1>3, <1>4

\* A list is a shape.
LEMMA ListShape ==
  ASSUME NEW l \in Nat
  PROVE  Append(<<>>, l) \in Shapes /\ Size(Append(<<>>, l)) = l
<1>1. Append(<<>>, l) \in Shapes /\ Size(Append(<<>>, l)) = Size(<<>>) * l
  <2> DEFINE e == <<>>
  <2>1. e \in Shapes
    BY NoAxes
  <2> HIDE DEF e
  <2>2. Append(e, l) \in Shapes /\ Size(Append(e, l)) = Size(e) * l
    BY <2>1, SizeAppend
  <2> QED
    BY <2>2 DEF e
<1>2. Size(<<>>) * l = l
  <2>1. 1 * l = l
    OBVIOUS
  <2> QED
    BY <2>1, NoAxes
<1> QED
  BY <1>1, <1>2

\* The places of a matrix.
LEMMA MatrixPlaces ==
  ASSUME NEW a \in Nat, NEW b \in Nat
  PROVE  /\ <<a, b>> \in Shapes /\ Size(<<a, b>>) = a * b /\ a * b \in Nat
         /\ \A y \in 0 .. (a - 1), z \in 0 .. (b - 1) :
              <<y, z>> \in Coordinates(<<a, b>>) /\ CoordOffset(<<a, b>>, <<y, z>>) = y * b + z
<1>1. <<a, b>> = Append(Append(<<>>, a), b)
  OBVIOUS
<1>2. Append(<<>>, a) \in Shapes /\ Size(Append(<<>>, a)) = a
  BY ListShape
<1>3. <<a, b>> \in Shapes /\ Size(<<a, b>>) = a * b
  BY <1>1, <1>2, SizeAppend
<1>4. a * b \in Nat
  BY <1>3, SizeIsBlocks
<1>5. ASSUME NEW y \in 0 .. (a - 1), NEW z \in 0 .. (b - 1)
      PROVE  <<y, z>> \in Coordinates(<<a, b>>) /\ CoordOffset(<<a, b>>, <<y, z>>) = y * b + z
  <2>1. <<y, z>> = Append(Append(<<>>, y), z)
    OBVIOUS
  <2>2. y \in Nat /\ y < a /\ z \in Nat /\ z < b
    OBVIOUS
  <2>3. /\ Append(<<>>, y) \in Coordinates(Append(<<>>, a))
        /\ CoordOffset(Append(<<>>, a), Append(<<>>, y)) = 0 * a + y
    BY <2>2, NoAxes, OffsetAppend, ZenonT(40)
  <2>4. CoordOffset(Append(<<>>, a), Append(<<>>, y)) = y
    BY <2>2, <2>3
  <2> DEFINE line == Append(<<>>, a)
             row == Append(<<>>, y)
  <2>5. line \in Shapes /\ row \in Coordinates(line) /\ CoordOffset(line, row) = y
    BY <1>2, <2>3, <2>4
  <2>6. <<a, b>> = Append(line, b) /\ <<y, z>> = Append(row, z)
    BY <1>1, <2>1
  <2> HIDE DEF line, row
  <2>7. /\ Append(row, z) \in Coordinates(Append(line, b))
        /\ CoordOffset(Append(line, b), Append(row, z)) = CoordOffset(line, row) * b + z
    BY <2>2, <2>5, OffsetAppend
  <2> QED
    BY <2>5, <2>6, <2>7
<1> QED
  BY <1>3, <1>4, <1>5

\* A place of a matrix is a row and a column.
LEMMA MatrixUnravel ==
  ASSUME NEW a \in Nat, NEW b \in Nat, NEW x \in 0 .. (a * b - 1)
  PROVE  /\ 0 < a /\ 0 < b /\ x \div b \in 0 .. (a - 1) /\ x % b \in 0 .. (b - 1)
         /\ x = (x \div b) * b + (x % b)
         /\ Unravel(x, <<a, b>>) = <<x \div b, x % b>>
<1> DEFINE s == Append(<<>>, a)
           y == x \div b
           z == x % b
<1>1. s \in Shapes /\ Size(s) = a
  BY ListShape
<1>2. x \in 0 .. (Size(s) * b - 1)
  BY <1>1
<1> HIDE DEF s
<1>3. 0 < b /\ y \in 0 .. (a - 1) /\ z \in 0 .. (b - 1)
  BY <1>1, <1>2, UnravelAppend
<1>4. x \in Nat /\ x = b * y + z
  <2>1. x \in Nat
    OBVIOUS
  <2>2. x = b * (x \div b) + (x % b)
    BY <1>3, <2>1, DivMod
  <2> QED
    BY <2>1, <2>2
<1>5. 0 < a /\ x = y * b + z
  <2> HIDE DEF y, z
  <2> QED
    BY <1>3, <1>4
<1> HIDE DEF y, z
<1>6. <<y, z>> \in Coordinates(<<a, b>>) /\ CoordOffset(<<a, b>>, <<y, z>>) = x /\ <<a, b>> \in Shapes
  BY <1>3, <1>5, MatrixPlaces
<1>7. Unravel(x, <<a, b>>) = <<y, z>>
  <2> DEFINE c == <<y, z>>
             t == <<a, b>>
  <2>1. c \in Coordinates(t) /\ CoordOffset(t, c) = x /\ t \in Shapes
    BY <1>6
  <2> HIDE DEF c, t
  <2>2. Unravel(x, t) = c
    BY <2>1, UnravelOfOffset
  <2> QED
    BY <2>2 DEF c, t
<1> QED
  BY <1>3, <1>5, <1>7 DEF y, z


\* The terms of a place of a product of two matrices.
MatrixTerms(left, right, i) ==
  LET inner == left.shape[2]
      cols == right.shape[2]
  IN [k \in 0 .. (inner - 1) |-> left.values[(i \div cols) * inner + k + 1]
                                 * right.values[k * cols + (i % cols) + 1]]
MatrixProducts(left, right) ==
  LET inner == left.shape[2]
  IN [i \in 1 .. (left.shape[1] * right.shape[2]) |->
        LET sum == Sums(inner, MatrixTerms(left, right, i - 1))[inner]
        IN IF left.dtype = "f32" THEN F32(sum) ELSE sum]

\* Two float matrices that have a product.
Factors(left, right) ==
  /\ IsTensor(left) /\ IsTensor(right) /\ ValidPair(left, right)
  /\ Len(left.shape) = 2 /\ Len(right.shape) = 2 /\ right.shape[1] = left.shape[2]

\* What is known of two such matrices.
LEMMA FactorsMean ==
  ASSUME NEW left, NEW right, Factors(left, right)
  PROVE  /\ left.shape \in Shapes /\ right.shape \in Shapes
         /\ left.shape[1] \in Nat /\ left.shape[2] \in Nat /\ right.shape[2] \in Nat
         /\ left.shape = <<left.shape[1], left.shape[2]>>
         /\ right.shape = <<left.shape[2], right.shape[2]>>
         /\ left.dtype \in Float /\ right.dtype = left.dtype
         /\ left.values \in [1 .. (left.shape[1] * left.shape[2]) -> Held(left.dtype)]
         /\ right.values \in [1 .. (left.shape[2] * right.shape[2]) -> Held(left.dtype)]
         /\ ValuesF64(left) = left.values /\ ValuesF64(right) = right.values
<1>1. /\ left.shape \in Shapes /\ right.shape \in Shapes
      /\ left.values \in [1 .. Size(left.shape) -> Held(left.dtype)]
      /\ right.values \in [1 .. Size(right.shape) -> Held(right.dtype)]
  BY TensorParts DEF Factors
<1>2. /\ left.dtype \in Float /\ right.dtype = left.dtype /\ left.dtype # "u64"
      /\ Len(left.shape) = 2 /\ Len(right.shape) = 2 /\ right.shape[1] = left.shape[2]
  BY DEF Factors, ValidPair, Float
<1>3. \A s \in Shapes : Len(s) = 2 => s[1] \in Nat /\ s[2] \in Nat /\ s = <<s[1], s[2]>>
  BY SMTT(30) DEF Shapes
<1>4. /\ left.shape[1] \in Nat /\ left.shape[2] \in Nat /\ right.shape[2] \in Nat
      /\ left.shape = <<left.shape[1], left.shape[2]>>
      /\ right.shape = <<left.shape[2], right.shape[2]>>
  BY <1>1, <1>2, <1>3
<1>5. /\ Size(left.shape) = left.shape[1] * left.shape[2]
      /\ Size(right.shape) = left.shape[2] * right.shape[2]
  <2>1. \A x, y \in Nat : Size(<<x, y>>) = x * y
    BY MatrixPlaces
  <2> QED
    BY <1>4, <2>1
<1>6. ValuesF64(left) = left.values /\ ValuesF64(right) = right.values
  BY <1>2 DEF ValuesF64
<1> QED
  BY <1>1, <1>2, <1>4, <1>5, <1>6

\* The terms read within both matrices.
LEMMA MatrixTermsFit ==
  ASSUME NEW left, NEW right, Factors(left, right),
         NEW i \in 0 .. (left.shape[1] * right.shape[2] - 1)
  PROVE  /\ 0 < right.shape[2]
         /\ i \div right.shape[2] \in 0 .. (left.shape[1] - 1)
         /\ i % right.shape[2] \in 0 .. (right.shape[2] - 1)
         /\ MatrixTerms(left, right, i) \in [0 .. (left.shape[2] - 1) -> Int]
<1> DEFINE rows == left.shape[1]
           inner == left.shape[2]
           cols == right.shape[2]
           y == i \div cols
           z == i % cols
<1>1. /\ rows \in Nat /\ inner \in Nat /\ cols \in Nat
      /\ left.values \in [1 .. (rows * inner) -> Held(left.dtype)]
      /\ right.values \in [1 .. (inner * cols) -> Held(left.dtype)]
  BY FactorsMean
<1>2. Held(left.dtype) \subseteq Int
  BY FactorsMean, HeldTypes DEF Float, Dtype
<1>3. 0 < cols /\ y \in 0 .. (rows - 1) /\ z \in 0 .. (cols - 1)
  <2>1. i \in 0 .. (rows * cols - 1)
    OBVIOUS
  <2> HIDE DEF rows, cols
  <2> QED
    BY <1>1, <2>1, MatrixUnravel
<1>4. ASSUME NEW k \in 0 .. (inner - 1)
      PROVE  y * inner + k + 1 \in 1 .. (rows * inner) /\ k * cols + z + 1 \in 1 .. (inner * cols)
  <2> HIDE DEF rows, inner, cols, y, z
  <2>1. y \in Nat /\ y < rows /\ z \in Nat /\ z < cols /\ k \in Nat /\ k < inner
    BY <1>1, <1>3
  <2>2. /\ y * inner + k \in Nat /\ y * inner + k < rows * inner
        /\ k * cols + z \in Nat /\ k * cols + z < inner * cols
    BY <1>1, <2>1, Nested
  <2>3. \A u, v \in Nat : u * v \in Nat
    OBVIOUS
  <2>4. rows * inner \in Nat /\ inner * cols \in Nat
    BY <1>1, <2>3
  <2>5. \A u, v \in Nat : u < v => u + 1 \in 1 .. v
    OBVIOUS
  <2> QED
    BY <2>2, <2>4, <2>5
<1>5. MatrixTerms(left, right, i)
        = [k \in 0 .. (inner - 1) |-> left.values[y * inner + k + 1] * right.values[k * cols + z + 1]]
  BY DEF MatrixTerms
<1>6. ASSUME NEW k \in 0 .. (inner - 1)
      PROVE  left.values[y * inner + k + 1] * right.values[k * cols + z + 1] \in Int
  <2>1. left.values[y * inner + k + 1] \in Int /\ right.values[k * cols + z + 1] \in Int
    BY <1>1, <1>2, <1>4
  <2>2. \A u, v \in Int : u * v \in Int
    OBVIOUS
  <2> QED
    BY <2>1, <2>2
<1> QED
  BY <1>3, <1>5, <1>6

\* What the product of two matrices is.
LEMMA MatmulMeans ==
  ASSUME NEW left, NEW right, Factors(left, right)
  PROVE  /\ Matmul(left, right)
              = [dtype |-> left.dtype, shape |-> <<left.shape[1], right.shape[2]>>,
                 values |-> MatrixProducts(left, right)]
         /\ IsTensor(Matmul(left, right))
<1> DEFINE rows == left.shape[1]
           inner == left.shape[2]
           cols == right.shape[2]
           shape == <<rows, cols>>
           term(i, k) == left.values[(i \div cols) * inner + k + 1]
                         * right.values[k * cols + (i % cols) + 1]
           Is(i, f) == f = [k \in 0 .. inner |-> IF k = 0 THEN 0
                              ELSE F64(f[k - 1] + F64(term(i, k - 1)))]
           cell(i) == (CHOOSE f : Is(i, f))[inner]
           w == MatrixProducts(left, right)
<1>1. /\ rows \in Nat /\ inner \in Nat /\ cols \in Nat /\ left.dtype \in Float
      /\ ValuesF64(left) = left.values /\ ValuesF64(right) = right.values
  BY FactorsMean
<1>2. shape \in Shapes /\ Size(shape) = rows * cols /\ rows * cols \in Nat
  BY <1>1, MatrixPlaces
<1>3. Matmul(left, right) = FromF64Like(left.dtype, shape, [i \in 1 .. (rows * cols) |-> cell(i - 1)])
  <2>1. Len(left.shape) = 2 /\ Len(right.shape) = 2 /\ right.shape[1] = inner
    BY DEF Factors
  <2> QED
    BY <1>1, <2>1 DEF Matmul, Dot
<1>4. ASSUME NEW i \in 0 .. (rows * cols - 1)
      PROVE  /\ cell(i) = Sums(inner, MatrixTerms(left, right, i))[inner]
             /\ cell(i) \in Wide
  <2> DEFINE g == MatrixTerms(left, right, i)
             f == CHOOSE h : Is(i, h)
  <2>1. g \in [0 .. (inner - 1) -> Int]
    BY MatrixTermsFit
  <2>2. \A k \in 1 .. inner : g[k - 1] = term(i, k - 1)
    <3>1. \A k \in 1 .. inner : k - 1 \in 0 .. (inner - 1)
      BY <1>1
    <3> QED
      BY <3>1 DEF MatrixTerms
  <2> HIDE DEF g, term
  <2>3. ASSUME NEW h PROVE Is(i, h) <=> IsSums(inner, g, h)
    <3>1. \A k \in 0 .. inner : k # 0 => k \in 1 .. inner
      BY <1>1
    <3>2. [k \in 0 .. inner |-> IF k = 0 THEN 0 ELSE F64(h[k - 1] + F64(term(i, k - 1)))]
            = [k \in 0 .. inner |-> IF k = 0 THEN 0 ELSE F64(h[k - 1] + F64(g[k - 1]))]
      BY <2>2, <3>1
    <3> QED
      BY <3>2 DEF IsSums
  <2> HIDE DEF Is, inner
  <2>4. /\ IsSums(inner, g, Sums(inner, g)) /\ Sums(inner, g)[inner] \in Wide
        /\ \A h : IsSums(inner, g, h) => h = Sums(inner, g)
    BY <1>1, <2>1, SumsExist
  <2>5. Is(i, f)
    BY <2>3, <2>4
  <2>6. f = Sums(inner, g)
    BY <2>3, <2>4, <2>5
  <2> HIDE DEF f
  <2> QED
    BY <2>4, <2>6 DEF f, g
<1> HIDE DEF cell
<1>5. \A i \in 1 .. (rows * cols) : i - 1 \in 0 .. (rows * cols - 1)
  BY <1>2
<1>6. \A v \in Wide : v \in Int /\ F32(v) \in Held("f32")
  BY Widths DEF Held
<1>7. DOMAIN [i \in 1 .. (rows * cols) |-> cell(i - 1)] = 1 .. (rows * cols)
  OBVIOUS
<1>8. CASE left.dtype = "f32"
  <2>1. w = [i \in 1 .. (rows * cols) |-> F32(cell(i - 1))]
    BY <1>4, <1>5, <1>8 DEF MatrixProducts
  <2>2. w \in [1 .. Size(shape) -> Held("f32")]
    BY <1>2, <1>4, <1>5, <1>6, <2>1
  <2>3. Matmul(left, right) = Dense("f32", shape, w)
    BY <1>3, <1>7, <1>8, <2>1 DEF FromF64Like
  <2> HIDE DEF w, shape
  <2>4. /\ Dense("f32", shape, w) = [dtype |-> "f32", shape |-> shape, values |-> w]
        /\ IsTensor([dtype |-> "f32", shape |-> shape, values |-> w])
    BY <1>2, <2>2, DenseMeans, TensorMade DEF Dtype
  <2> QED
    BY <1>8, <2>3, <2>4 DEF w, shape
<1>9. CASE left.dtype # "f32"
  <2>1. left.dtype = "f64" /\ "f64" \in Dtype
    BY <1>1, <1>9 DEF Float, Dtype
  <2>2. w = [i \in 1 .. (rows * cols) |-> cell(i - 1)]
    BY <1>4, <1>5, <1>9 DEF MatrixProducts
  <2>3. w \in [1 .. Size(shape) -> Held("f64")]
    BY <1>2, <1>4, <1>5, <2>2 DEF Held, Wide
  <2>4. Matmul(left, right) = Dense("f64", shape, w)
    BY <1>3, <2>1, <2>2 DEF FromF64Like
  <2> HIDE DEF w, shape
  <2>5. /\ Dense("f64", shape, w) = [dtype |-> "f64", shape |-> shape, values |-> w]
        /\ IsTensor([dtype |-> "f64", shape |-> shape, values |-> w])
    BY <1>2, <2>1, <2>3, DenseMeans, TensorMade
  <2> QED
    BY <2>1, <2>4, <2>5 DEF w, shape
<1> QED
  BY <1>8, <1>9

\* A batch of one: the terms of the stack are those of the matrices.
LEMMA TermsOfMatrices ==
  ASSUME NEW left, NEW right, Factors(left, right),
         NEW i \in 0 .. (left.shape[1] * right.shape[2] - 1)
  PROVE  Terms(left, right, <<>>, i) = MatrixTerms(left, right, i)
<1> DEFINE rows == left.shape[1]
           inner == left.shape[2]
           cols == right.shape[2]
           aBatch == SubSeq(left.shape, 1, Len(left.shape) - 2)
           bBatch == SubSeq(right.shape, 1, Len(right.shape) - 2)
           b == i \div (rows * cols)
           o == BroadcastBatchOffset(b, <<>>, <<>>)
<1>1. /\ Len(left.shape) = 2 /\ Len(right.shape) = 2
      /\ rows \in Nat /\ inner \in Nat /\ cols \in Nat
      /\ left.shape \in Shapes /\ right.shape \in Shapes
  BY FactorsMean DEF Factors
<1>2. aBatch = <<>> /\ bBatch = <<>>
  BY <1>1 DEF Shapes
<1>3. 0 < cols /\ i \div cols \in 0 .. (rows - 1)
  BY MatrixTermsFit
<1>4. b = 0 /\ (i \div cols) % rows = i \div cols
  <2>1. i \in Nat /\ 0 < rows
    BY <1>1, <1>3
  <2>2. (i \div cols) \div rows = b
    <3> HIDE DEF rows, cols
    <3> QED
      BY <1>1, <1>3, <2>1, DivModProduct
  <2>3. \A u, v \in Nat : u < v => u \div v = 0 /\ u % v = u
    OBVIOUS
  <2>4. (i \div cols) \in Nat /\ (i \div cols) < rows
    BY <1>1, <1>3
  <2> HIDE DEF b
  <2> QED
    BY <1>1, <2>2, <2>3, <2>4
<1>5. o = 0
  <2>1. o = CoordOffset(<<>>, <<>>)
    BY NoAxes DEF BroadcastBatchOffset
  <2> QED
    BY <2>1, NoAxes
<1>6. o * rows * inner = 0 /\ o * inner * cols = 0
  BY <1>1, <1>5
<1>7. Len(left.shape) - 1 = 1 /\ right.shape[Len(right.shape)] = cols /\ left.shape[Len(left.shape)] = inner
  BY <1>1
<1>8. Terms(left, right, <<>>, i)
        = [k \in 0 .. (inner - 1) |-> left.values[0 + (i \div cols) * inner + k + 1]
                                      * right.values[0 + k * cols + (i % cols) + 1]]
  <2>1. Terms(left, right, <<>>, i)
          = [k \in 0 .. (inner - 1) |->
               left.values[o * rows * inner + ((i \div cols) % rows) * inner + k + 1]
               * right.values[o * inner * cols + k * cols + (i % cols) + 1]]
    BY <1>2, <1>7 DEF Terms
  <2> HIDE DEF o
  <2> QED
    BY <1>4, <1>6, <2>1
<1>9. ASSUME NEW k \in 0 .. (inner - 1)
      PROVE  /\ 0 + (i \div cols) * inner + k + 1 = (i \div cols) * inner + k + 1
             /\ 0 + k * cols + (i % cols) + 1 = k * cols + (i % cols) + 1
  <2>1. \A u, v \in Nat : u * v \in Nat
    OBVIOUS
  <2>2. (i \div cols) * inner \in Nat /\ k * cols \in Nat
    <3>1. i \div cols \in Nat /\ k \in Nat
      BY <1>1, <1>3
    <3> QED
      BY <1>1, <2>1, <3>1
  <2>3. \A u \in Nat : 0 + u = u
    OBVIOUS
  <2> QED
    BY <2>2, <2>3
<1> QED
  BY <1>8, <1>9 DEF MatrixTerms

\* On two matrices the batched product is the unbatched one.
LEMMA BatchedIsMatmul ==
  ASSUME NEW left, IsTensor(left), NEW right, IsTensor(right), BatchedMatmul(left, right) # Err,
         Len(left.shape) = 2, Len(right.shape) = 2
  PROVE  Factors(left, right) /\ BatchedMatmul(left, right) = Matmul(left, right)
<1> DEFINE rows == left.shape[1]
           inner == left.shape[2]
           cols == right.shape[2]
           aBatch == SubSeq(left.shape, 1, Len(left.shape) - 2)
           bBatch == SubSeq(right.shape, 1, Len(right.shape) - 2)
           batch == BroadcastShape(aBatch, bBatch)
           shape == batch \o <<left.shape[Len(left.shape) - 1], right.shape[Len(right.shape)]>>
<1>1. left.shape \in Shapes /\ right.shape \in Shapes
  BY TensorParts
<1>2. /\ ValidPair(left, right) /\ right.shape[Len(right.shape) - 1] = left.shape[Len(left.shape)]
      /\ BatchedMatmul(left, right)
           = [dtype |-> left.dtype, shape |-> shape,
              values |-> Products(left, right, batch, shape)]
  BY BatchedMatmulMeans
<1>3. Factors(left, right)
  <2>1. Len(right.shape) - 1 = 1
    OBVIOUS
  <2> QED
    BY <1>2, <2>1 DEF Factors
<1>4. batch = <<>>
  <2>1. aBatch = <<>> /\ bBatch = <<>>
    BY <1>1 DEF Shapes
  <2>2. MaxRank(<<>>, <<>>) = 0
    BY DEF MaxRank
  <2>3. BroadcastShape(<<>>, <<>>) \in Shapes /\ Len(BroadcastShape(<<>>, <<>>)) = 0
    BY <2>2, NoAxes, BroadcastShapeMeans
  <2>4. \A s \in Shapes : Len(s) = 0 => s = <<>>
    BY DEF Shapes
  <2> QED
    BY <2>1, <2>3, <2>4
<1>5. shape = <<rows, cols>>
  <2>1. \A u, v : <<>> \o <<u, v>> = <<u, v>>
    OBVIOUS
  <2>2. Len(left.shape) - 1 = 1
    OBVIOUS
  <2> QED
    BY <1>4, <2>1, <2>2
<1>6. rows \in Nat /\ cols \in Nat /\ Size(shape) = rows * cols
  <2>1. rows \in Nat /\ cols \in Nat
    BY <1>3, FactorsMean
  <2>2. Size(<<rows, cols>>) = rows * cols
    BY <2>1, MatrixPlaces
  <2> QED
    BY <1>5, <2>1, <2>2
<1>7. Products(left, right, batch, shape) = MatrixProducts(left, right)
  <2>1. \A i \in 1 .. (rows * cols) : i - 1 \in 0 .. (rows * cols - 1)
    BY <1>6
  <2>2. \A i \in 1 .. (rows * cols) : Terms(left, right, <<>>, i - 1) = MatrixTerms(left, right, i - 1)
    BY <1>3, <2>1, TermsOfMatrices
  <2> HIDE DEF shape, batch
  <2> QED
    BY <1>4, <1>6, <2>2 DEF Products, MatrixProducts
<1>8. Matmul(left, right) = [dtype |-> left.dtype, shape |-> <<rows, cols>>,
                             values |-> MatrixProducts(left, right)]
  BY <1>3, MatmulMeans
<1> QED
  BY <1>2, <1>3, <1>5, <1>7, <1>8


IsTransposeOf(u, t, a, b) ==
  /\ IsTensor(u) /\ u.dtype = t.dtype /\ u.shape = <<b, a>>
  /\ u.values = [i \in 1 .. (b * a) |-> t.values[((i - 1) % a) * b + ((i - 1) \div a) + 1]]

\* A matrix reversed is its transpose.
LEMMA ReversedMatrix ==
  ASSUME NEW a \in Nat, NEW b \in Nat, NEW t, IsTensor(t), t.shape = <<a, b>>
  PROVE  IsTransposeOf(Reversed(t), t, a, b)
<1> DEFINE perm == [i \in DOMAIN t.shape |-> Len(t.shape) - i]
           shape == <<b, a>>
           back(coord) == [x \in DOMAIN t.shape |->
                             LET i == CHOOSE j \in DOMAIN perm : perm[j] = x - 1 IN coord[i]]
           v == [i \in 1 .. Size(shape) |-> At(t, back(Unravel(i - 1, shape)))]
           w == [i \in 1 .. (b * a) |-> t.values[((i - 1) % a) * b + ((i - 1) \div a) + 1]]
<1>1. /\ t.dtype \in Dtype /\ t.shape \in Shapes /\ DOMAIN t.shape = 1 .. 2
      /\ t.values \in [1 .. Size(t.shape) -> Held(t.dtype)]
  <2>1. DOMAIN <<a, b>> = 1 .. 2
    OBVIOUS
  <2> QED
    BY <2>1, TensorParts
<1>2. a \in Nat /\ b \in Nat /\ t.shape = <<a, b>> /\ Len(t.shape) = 2
  OBVIOUS
<1>3. DOMAIN perm = 1 .. 2 /\ perm[1] = 1 /\ perm[2] = 0
  BY <1>1, <1>2
<1>4. TransposeOutputShape(t.shape, perm) = shape
  <2>1. perm = <<1, 0>>
    BY <1>3
  <2> HIDE DEF perm
  <2>2. \A f : f = [i \in 1 .. 2 |-> f[i]] => f = <<f[1], f[2]>>
    OBVIOUS
  <2> DEFINE o == [i \in DOMAIN perm |-> t.shape[perm[i] + 1]]
  <2>3. o = [i \in 1 .. 2 |-> o[i]] /\ o[1] = b /\ o[2] = a
    BY <1>3
  <2>4. o = <<o[1], o[2]>>
    <3> HIDE DEF o
    <3> QED
      BY <2>2, <2>3
  <2> QED
    BY <2>3, <2>4 DEF TransposeOutputShape
<1>5. /\ shape \in Shapes /\ Size(shape) = b * a /\ b * a \in Nat
      /\ Size(t.shape) = a * b
  BY <1>2, MatrixPlaces
<1>6. Reversed(t) = Dense(t.dtype, shape, v)
  <2>1. Reversed(t) = TransposeArray(t, perm)
    BY DEF Reversed
  <2> HIDE DEF perm
  <2> DEFINE o == TransposeOutputShape(t.shape, perm)
  <2>2. TransposeArray(t, perm)
          = Dense(t.dtype, o, [i \in 1 .. Size(o) |-> At(t, back(Unravel(i - 1, o)))])
    BY DEF TransposeArray, Fill
  <2>3. o = shape
    BY <1>4
  <2> HIDE DEF o, shape, back
  <2> QED
    BY <2>1, <2>2, <2>3
<1>7. ASSUME NEW i \in 1 .. (b * a)
      PROVE  /\ v[i] = t.values[((i - 1) % a) * b + ((i - 1) \div a) + 1]
             /\ v[i] \in Held(t.dtype)
  <2> DEFINE y == (i - 1) \div a
             z == (i - 1) % a
             c == back(Unravel(i - 1, shape))
  <2>1. i - 1 \in 0 .. (b * a - 1)
    BY <1>5
  <2>2. y \in 0 .. (b - 1) /\ z \in 0 .. (a - 1) /\ Unravel(i - 1, shape) = <<y, z>>
    <3> DEFINE x == i - 1
    <3>1. x \in 0 .. (b * a - 1)
      BY <2>1
    <3> HIDE DEF x
    <3>2. x \div a \in 0 .. (b - 1) /\ x % a \in 0 .. (a - 1) /\ Unravel(x, <<b, a>>) = <<x \div a, x % a>>
      BY <1>2, <3>1, MatrixUnravel
    <3> QED
      BY <3>2 DEF x
  <2> HIDE DEF y, z, perm
  <2>3. (CHOOSE j \in DOMAIN perm : perm[j] = 0) = 2 /\ (CHOOSE j \in DOMAIN perm : perm[j] = 1) = 1
    BY <1>3
  <2>4. c = <<z, y>>
    <3> DEFINE e == Unravel(i - 1, shape)
    <3>0. e[1] = y /\ e[2] = z
      BY <2>2
    <3> HIDE DEF e, shape
    <3> DEFINE f == back(e)
    <3>1. f = [x \in 1 .. 2 |-> f[x]]
      BY <1>1
    <3>2. f[1] = e[CHOOSE j \in DOMAIN perm : perm[j] = 0] /\ f[2] = e[CHOOSE j \in DOMAIN perm : perm[j] = 1]
      BY <1>1
    <3>3. f[1] = z /\ f[2] = y
      BY <2>3, <3>0, <3>2
    <3> HIDE DEF f
    <3>4. f = <<z, y>>
      BY <3>1, <3>3
    <3> QED
      BY <3>4 DEF f, e
  <2>5. CoordOffset(t.shape, <<z, y>>) = z * b + y
    <3>1. \A u \in 0 .. (a - 1), r \in 0 .. (b - 1) : CoordOffset(<<a, b>>, <<u, r>>) = u * b + r
      BY <1>2, MatrixPlaces
    <3> QED
      BY <1>2, <2>2, <3>1
  <2>6. v[i] = At(t, c)
    BY <1>5
  <2>7. z * b + y + 1 \in 1 .. (a * b)
    <3>1. z \in Nat /\ z < a /\ y \in Nat /\ y < b
      BY <1>2, <2>2
    <3>2. z * b + y \in Nat /\ z * b + y < a * b
      BY <1>2, <3>1, Nested
    <3>3. \A u, r \in Nat : u * r \in Nat
      OBVIOUS
    <3>4. a * b \in Nat
      BY <1>2, <3>3
    <3>5. \A u, r \in Nat : u < r => u + 1 \in 1 .. r
      OBVIOUS
    <3> QED
      BY <3>2, <3>4, <3>5
  <2> HIDE DEF c, v
  <2>8. v[i] = t.values[z * b + y + 1]
    BY <2>4, <2>5, <2>6 DEF At
  <2>9. t.values[z * b + y + 1] \in Held(t.dtype)
    BY <1>1, <1>5, <2>7
  <2> QED
    BY <2>8, <2>9 DEF y, z
<1>8. v = w
  BY <1>5, <1>7
<1>9. v \in [1 .. Size(shape) -> Held(t.dtype)]
  BY <1>5, <1>7
<1> HIDE DEF v, w, shape
<1>10. /\ Dense(t.dtype, shape, v) = [dtype |-> t.dtype, shape |-> shape, values |-> v]
       /\ IsTensor([dtype |-> t.dtype, shape |-> shape, values |-> v])
  BY <1>1, <1>5, <1>9, DenseMeans, TensorMade
<1>11. /\ IsTensor(Reversed(t)) /\ Reversed(t).dtype = t.dtype /\ Reversed(t).shape = shape
       /\ Reversed(t).values = w
  BY <1>6, <1>8, <1>10
<1> QED
  BY <1>11 DEF shape, w, IsTransposeOf

\* The transpose of a product of two matrices is the product of their transposes in
\* the other order.
LEMMA TransposedProduct ==
  ASSUME NEW left, NEW right, Factors(left, right)
  PROVE  Reversed(Matmul(left, right)) = Matmul(Reversed(right), Reversed(left))
<1> DEFINE rows == left.shape[1]
           inner == left.shape[2]
           cols == right.shape[2]
           p == Matmul(left, right)
           L == Reversed(left)
           R == Reversed(right)
           q == Matmul(R, L)
           cell(l, r, i) == LET sum == Sums(inner, MatrixTerms(l, r, i))[inner]
                            IN IF left.dtype = "f32" THEN F32(sum) ELSE sum
<1>1. /\ rows \in Nat /\ inner \in Nat /\ cols \in Nat
      /\ left.shape = <<rows, inner>> /\ right.shape = <<inner, cols>>
      /\ left.dtype \in Float /\ right.dtype = left.dtype
      /\ IsTensor(left) /\ IsTensor(right) /\ Len(left.shape) = 2 /\ Len(right.shape) = 2
      /\ left.values \in [1 .. (rows * inner) -> Held(left.dtype)]
      /\ right.values \in [1 .. (inner * cols) -> Held(left.dtype)]
  BY FactorsMean DEF Factors
<1>2. /\ IsTensor(L) /\ L.dtype = left.dtype /\ L.shape = <<inner, rows>>
      /\ L.values = [i \in 1 .. (inner * rows) |->
                       left.values[((i - 1) % rows) * inner + ((i - 1) \div rows) + 1]]
  <2> HIDE DEF rows, inner, cols, L
  <2>1. IsTransposeOf(Reversed(left), left, rows, inner)
    BY <1>1, ReversedMatrix
  <2> QED
    BY <2>1 DEF L, IsTransposeOf
<1>3. /\ IsTensor(R) /\ R.dtype = left.dtype /\ R.shape = <<cols, inner>>
      /\ R.values = [i \in 1 .. (cols * inner) |->
                       right.values[((i - 1) % inner) * cols + ((i - 1) \div inner) + 1]]
  <2> HIDE DEF rows, inner, cols, R
  <2>1. IsTransposeOf(Reversed(right), right, inner, cols)
    BY <1>1, ReversedMatrix
  <2> QED
    BY <1>1, <2>1 DEF R, IsTransposeOf
<1> HIDE DEF L, R
<1>4. Factors(R, L)
  BY <1>1, <1>2, <1>3 DEF Factors, ValidPair
<1>5. /\ IsTensor(p) /\ p.dtype = left.dtype /\ p.shape = <<rows, cols>> /\ Len(p.shape) = 2
      /\ p.values = [i \in 1 .. (rows * cols) |-> cell(left, right, i - 1)]
  <2>1. /\ IsTensor(p)
        /\ p = [dtype |-> left.dtype, shape |-> <<rows, cols>>, values |-> MatrixProducts(left, right)]
    BY MatmulMeans
  <2>2. MatrixProducts(left, right) = [i \in 1 .. (rows * cols) |-> cell(left, right, i - 1)]
    BY DEF MatrixProducts
  <2> HIDE DEF p, cell
  <2> QED
    BY <2>1, <2>2
<1>6. q = [dtype |-> left.dtype, shape |-> <<cols, rows>>,
           values |-> [i \in 1 .. (cols * rows) |-> cell(R, L, i - 1)]]
  <2>1. q = [dtype |-> R.dtype, shape |-> <<R.shape[1], L.shape[2]>>, values |-> MatrixProducts(R, L)]
    BY <1>4, MatmulMeans
  <2>2. R.shape[1] = cols /\ R.shape[2] = inner /\ L.shape[2] = rows
    BY <1>2, <1>3
  <2>3. MatrixProducts(R, L) = [i \in 1 .. (cols * rows) |-> cell(R, L, i - 1)]
    BY <1>3, <2>2 DEF MatrixProducts
  <2> HIDE DEF q, cell
  <2> QED
    BY <1>3, <2>1, <2>2, <2>3
<1>7. /\ Reversed(p).dtype = left.dtype /\ Reversed(p).shape = <<cols, rows>>
      /\ IsTensor(Reversed(p))
      /\ Reversed(p).values = [i \in 1 .. (cols * rows) |->
                                 p.values[((i - 1) % rows) * cols + ((i - 1) \div rows) + 1]]
  <2> HIDE DEF p
  <2>1. IsTensor(p) /\ p.shape = <<rows, cols>> /\ rows \in Nat /\ cols \in Nat
    BY <1>1, <1>5
  <2> HIDE DEF rows, cols
  <2>2. IsTransposeOf(Reversed(p), p, rows, cols)
    BY <2>1, ReversedMatrix
  <2> QED
    BY <1>5, <2>2 DEF IsTransposeOf
<1> HIDE DEF p, q
<1>8. ASSUME NEW x \in 0 .. (cols * rows - 1)
      PROVE  p.values[(x % rows) * cols + (x \div rows) + 1] = cell(R, L, x)
  <2> DEFINE y == x \div rows
             z == x % rows
             o == z * cols + y
  <2>1. y \in 0 .. (cols - 1) /\ z \in 0 .. (rows - 1) /\ 0 < rows /\ 0 < cols
    <3> HIDE DEF rows, cols
    <3> QED
      BY <1>1, MatrixUnravel
  <2>2. y \in Nat /\ y < cols /\ z \in Nat /\ z < rows
    BY <1>1, <2>1
  <2> HIDE DEF y, z
  <2>3. o \in Nat /\ o < rows * cols /\ rows * cols \in Nat
    <3>1. \A u, v \in Nat : u * v \in Nat
      OBVIOUS
    <3> HIDE DEF rows, cols
    <3> QED
      BY <1>1, <2>2, <3>1, Nested
  <2>4. o \div cols = z /\ o % cols = y
    <3> HIDE DEF rows, cols
    <3>1. (cols * z + y) \div cols = z /\ (cols * z + y) % cols = y
      BY <1>1, <2>2, DivModUnique
    <3>2. o = cols * z + y
      BY <1>1, <2>2
    <3> QED
      BY <3>1, <3>2
  <2>5. p.values[o + 1] = cell(left, right, o)
    <3> HIDE DEF o, cell
    <3>1. o + 1 \in 1 .. (rows * cols) /\ (o + 1) - 1 = o
      BY <2>3
    <3> QED
      BY <1>5, <3>1
  <2>6. MatrixTerms(left, right, o) = MatrixTerms(R, L, x)
    <3>1. MatrixTerms(left, right, o)
            = [k \in 0 .. (inner - 1) |-> left.values[z * inner + k + 1] * right.values[k * cols + y + 1]]
      BY <2>4 DEF MatrixTerms
    <3>2. MatrixTerms(R, L, x)
            = [k \in 0 .. (inner - 1) |-> R.values[y * inner + k + 1] * L.values[k * rows + z + 1]]
      <4>1. R.shape[2] = inner /\ L.shape[2] = rows
        BY <1>2, <1>3
      <4> QED
        BY <4>1 DEF MatrixTerms, y, z
    <3>3. ASSUME NEW k \in 0 .. (inner - 1)
          PROVE  left.values[z * inner + k + 1] * right.values[k * cols + y + 1]
                   = R.values[y * inner + k + 1] * L.values[k * rows + z + 1]
      <4>1. k \in Nat /\ k < inner
        BY <1>1
      <4>2. R.values[y * inner + k + 1] = right.values[k * cols + y + 1]
        <5> DEFINE j == y * inner + k
        <5>1. j \in Nat /\ j < cols * inner
          BY <1>1, <2>2, <4>1, Nested
        <5>2. j \div inner = y /\ j % inner = k
          <6>1. (inner * y + k) \div inner = y /\ (inner * y + k) % inner = k
            BY <1>1, <2>2, <4>1, DivModUnique
          <6>2. j = inner * y + k
            BY <1>1, <2>2, <4>1
          <6> QED
            BY <6>1, <6>2
        <5> HIDE DEF j
        <5>3. \A u, v \in Nat : u * v \in Nat
          OBVIOUS
        <5>4. cols * inner \in Nat
          BY <1>1, <5>3
        <5>5. j + 1 \in 1 .. (cols * inner) /\ (j + 1) - 1 = j
          BY <5>1, <5>4
        <5>6. R.values[j + 1] = right.values[k * cols + y + 1]
          BY <1>3, <5>2, <5>5
        <5> QED
          BY <5>6 DEF j
      <4>3. L.values[k * rows + z + 1] = left.values[z * inner + k + 1]
        <5> DEFINE j == k * rows + z
        <5>1. j \in Nat /\ j < inner * rows
          BY <1>1, <2>2, <4>1, Nested
        <5>2. j \div rows = k /\ j % rows = z
          <6>1. (rows * k + z) \div rows = k /\ (rows * k + z) % rows = z
            BY <1>1, <2>2, <4>1, DivModUnique
          <6>2. j = rows * k + z
            BY <1>1, <2>2, <4>1
          <6> QED
            BY <6>1, <6>2
        <5> HIDE DEF j
        <5>3. \A u, v \in Nat : u * v \in Nat
          OBVIOUS
        <5>4. inner * rows \in Nat
          BY <1>1, <5>3
        <5>5. j + 1 \in 1 .. (inner * rows) /\ (j + 1) - 1 = j
          BY <5>1, <5>4
        <5>6. L.values[j + 1] = left.values[z * inner + k + 1]
          BY <1>2, <5>2, <5>5
        <5> QED
          BY <5>6 DEF j
      <4>4. left.values[z * inner + k + 1] \in Int /\ right.values[k * cols + y + 1] \in Int
        <5>1. z * inner + k \in Nat /\ z * inner + k < rows * inner
              /\ k * cols + y \in Nat /\ k * cols + y < inner * cols
          BY <1>1, <2>2, <4>1, Nested
        <5>2. \A u, v \in Nat : u * v \in Nat
          OBVIOUS
        <5>3. rows * inner \in Nat /\ inner * cols \in Nat
          BY <1>1, <5>2
        <5>4. \A u, v \in Nat : u < v => u + 1 \in 1 .. v
          OBVIOUS
        <5>5. z * inner + k + 1 \in 1 .. (rows * inner) /\ k * cols + y + 1 \in 1 .. (inner * cols)
          BY <5>1, <5>3, <5>4
        <5>6. Held(left.dtype) \subseteq Int
          BY <1>1, HeldTypes DEF Float, Dtype
        <5> QED
          BY <1>1, <5>5, <5>6
      <4>5. \A u, v \in Int : u * v = v * u
        OBVIOUS
      <4> QED
        BY <4>2, <4>3, <4>4, <4>5
    <3> QED
      BY <3>1, <3>2, <3>3
  <2> QED
    BY <2>5, <2>6 DEF y, z, o
<1>9. cols * rows \in Nat
  <2>1. \A u, v \in Nat : u * v \in Nat
    OBVIOUS
  <2> QED
    BY <1>1, <2>1
<1>10. \A i \in 1 .. (cols * rows) : i - 1 \in 0 .. (cols * rows - 1)
  BY <1>9
<1> HIDE DEF cell
<1>11. Reversed(p).values = [i \in 1 .. (cols * rows) |-> cell(R, L, i - 1)]
  BY <1>7, <1>8, <1>10
<1>12. Reversed(p) = [dtype |-> left.dtype, shape |-> <<cols, rows>>, values |-> Reversed(p).values]
  <2>1. Reversed(p) = [dtype |-> Reversed(p).dtype, shape |-> Reversed(p).shape,
                       values |-> Reversed(p).values]
    BY <1>7, TensorParts
  <2> QED
    BY <1>7, <2>1
<1> QED
  BY <1>6, <1>11, <1>12 DEF p, q, L, R

\* BatchedMatmul: every entry of a batched product is the sum of the products of its
\* row and its column, at whatever place of the two batches that falls; on two
\* matrices it is core.rs's product, and transposes as a product does.
THEOREM BatchedProductsAreProducts == Spec => []BatchedMatmulIsMatmul
<1>1. IsTensor(tensor) => BatchedMatmulIsMatmul
  <2> SUFFICES ASSUME IsTensor(tensor), NEW r \in Operands, BatchedMatmul(tensor, r) # Err
               PROVE  LET p == BatchedMatmul(tensor, r)
                          n == Len(p.shape)
                          inner == tensor.shape[Len(tensor.shape)]
                      IN /\ p.dtype = "f64" => \A c \in Coords(p.shape) :
                              At(p, c) = Dot(inner, LAMBDA k : Entry(tensor, c, c[n - 1], k)
                                                               * Entry(r, c, k, c[n]))
                         /\ Len(tensor.shape) = 2 /\ Len(r.shape) = 2 =>
                              /\ p = Matmul(tensor, r)
                              /\ Reversed(p) = Matmul(Reversed(r), Reversed(tensor))
    BY DEF BatchedMatmulIsMatmul
  <2>1. IsTensor(r)
    BY InputAssumption
  <2>2. ASSUME BatchedMatmul(tensor, r).dtype = "f64",
               NEW c \in Coords(BatchedMatmul(tensor, r).shape)
        PROVE  At(BatchedMatmul(tensor, r), c)
                 = Dot(tensor.shape[Len(tensor.shape)],
                       LAMBDA k : Entry(tensor, c, c[Len(BatchedMatmul(tensor, r).shape) - 1], k)
                                  * Entry(r, c, k, c[Len(BatchedMatmul(tensor, r).shape)]))
    <3>1. At(BatchedMatmul(tensor, r), c)
            = EntrySum(tensor, r, c, Len(BatchedMatmul(tensor, r).shape))
      BY <2>1, <2>2, ProductEntry
    <3> QED
      BY <3>1 DEF EntrySum, Dot
  <2>3. Len(tensor.shape) = 2 /\ Len(r.shape) = 2 =>
          /\ BatchedMatmul(tensor, r) = Matmul(tensor, r)
          /\ Reversed(BatchedMatmul(tensor, r)) = Matmul(Reversed(r), Reversed(tensor))
    <3>1. Len(tensor.shape) = 2 /\ Len(r.shape) = 2 =>
            Factors(tensor, r) /\ BatchedMatmul(tensor, r) = Matmul(tensor, r)
      BY <2>1, BatchedIsMatmul
    <3>2. Factors(tensor, r) => Reversed(Matmul(tensor, r)) = Matmul(Reversed(r), Reversed(tensor))
      BY TransposedProduct
    <3> QED
      BY <3>1, <3>2
  <2> QED
    BY <2>2, <2>3
<1> QED
  BY <1>1, TensorHeld, PTL

-----------------------------------------------------------------------------
(* Reductions to an extreme. *)

\* What an accumulator holds of the values it has met: nothing, or their extremes.
Met(acc, n, v, K) ==
  /\ acc.initialized <=> K # {}
  /\ K # {} => /\ \E k \in K : acc.min = v[k]
               /\ \E k \in K : acc.max = v[k]
               /\ \A k \in K : acc.min <= v[k] /\ v[k] <= acc.max

\* The places that fall on one place of the result.
Falling(T, n, o) == {k \in 1 .. n : T[k] = o}

\* One value more.
LEMMA MetOneMore ==
  ASSUME NEW n \in Nat, NEW v \in [1 .. n -> Int], NEW K \in SUBSET (1 .. n),
         NEW acc \in Accums, Met(acc, n, v, K), NEW i \in 1 .. n
  PROVE  Met(AccumUpdate(acc, v[i]), n, v, K \cup {i})
<1> DEFINE new == AccumUpdate(acc, v[i])
<1>1. /\ acc.initialized \in BOOLEAN /\ acc.min \in Int /\ acc.max \in Int
      /\ \A k \in K : v[k] \in Int
  BY Widths DEF Accums
<1>2. v[i] \in Int
  OBVIOUS
<1>3. new.initialized
  <2>1. CASE acc.initialized
    BY <2>1 DEF AccumUpdate, Accums
  <2>2. CASE ~acc.initialized
    BY <2>2 DEF AccumUpdate
  <2> QED
    BY <2>1, <2>2
<1>4. CASE K = {}
  <2>1. ~acc.initialized
    BY <1>4 DEF Met
  <2>2. new.min = v[i] /\ new.max = v[i]
    BY <2>1 DEF AccumUpdate
  <2>3. K \cup {i} = {i}
    BY <1>4
  <2> HIDE DEF new
  <2> QED
    BY <1>2, <1>3, <2>2, <2>3 DEF Met, new
<1>5. CASE K # {}
  <2>1. acc.initialized
    BY <1>5 DEF Met
  <2>2. /\ new.min = IF v[i] < acc.min THEN v[i] ELSE acc.min
        /\ new.max = IF v[i] > acc.max THEN v[i] ELSE acc.max
    BY <2>1 DEF AccumUpdate, Accums
  <2> HIDE DEF new
  <2>3. \E k \in K \cup {i} : new.min = v[k]
    BY <1>5, <2>2 DEF Met
  <2>4. \E k \in K \cup {i} : new.max = v[k]
    BY <1>5, <2>2 DEF Met
  <2>5. \A k \in K : acc.min <= v[k] /\ v[k] <= acc.max
    BY <1>5 DEF Met
  <2>6. \A k \in K \cup {i} : new.min <= v[k] /\ v[k] <= new.max
    <3> SUFFICES ASSUME NEW k \in K \cup {i} PROVE new.min <= v[k] /\ v[k] <= new.max
      OBVIOUS
    <3>1. CASE k \in K
      <4>1. v[k] \in Int /\ acc.min <= v[k] /\ v[k] <= acc.max
        BY <1>1, <2>5, <3>1
      <4> QED
        BY <1>1, <1>2, <2>2, <4>1
    <3>2. CASE k = i
      BY <1>1, <1>2, <2>2, <3>2
    <3> QED
      BY <3>1, <3>2
  <2> QED
    BY <1>3, <2>3, <2>4, <2>6 DEF Met, new
<1> QED
  BY <1>4, <1>5

\* At the end of a run, each result holds the extremes of what fell on it.
LEMMA RunsMeet ==
  ASSUME NEW n \in Nat, NEW m \in Nat, NEW T \in [1 .. n -> 1 .. m], NEW v \in [1 .. n -> Int],
         NEW a \in [0 .. n -> [1 .. m -> Accums]], Runs(a, n, m, T, v), NEW o \in 1 .. m
  PROVE  Met(a[n][o], n, v, Falling(T, n, o))
<1> DEFINE K(i) == {k \in 1 .. i : T[k] = o}
           S == {i \in 0 .. n : Met(a[i][o], n, v, K(i))}
<1>1. 0 \in S
  <2>1. K(0) = {}
    OBVIOUS
  <2>2. a[0][o] = FreshAccum
    BY DEF Runs
  <2>3. Met(FreshAccum, n, v, {})
    BY DEF Met, FreshAccum
  <2> QED
    BY <2>1, <2>2, <2>3
<1>2. ASSUME NEW i \in 0 .. (n - 1), i \in S PROVE i + 1 \in S
  <2>1. i + 1 \in 1 .. n /\ i + 1 \in 0 .. n /\ i \in 0 .. n /\ (i + 1) - 1 = i
    OBVIOUS
  <2>2. a[i + 1] = [a[i] EXCEPT ![T[i + 1]] = AccumUpdate(@, v[i + 1])]
    BY <2>1 DEF Runs
  <2>3. a[i] \in [1 .. m -> Accums]
    BY <2>1
  <2>4. Met(a[i][o], n, v, K(i))
    BY <1>2
  <2>5. CASE T[i + 1] = o
    <3>1. K(i + 1) = K(i) \cup {i + 1}
      BY <2>1, <2>5
    <3>2. a[i + 1][o] = AccumUpdate(a[i][o], v[i + 1])
      BY <2>2, <2>3, <2>5
    <3>3. a[i][o] \in Accums /\ K(i) \in SUBSET (1 .. n)
      BY <2>1, <2>3
    <3> DEFINE J == K(i)
               b == a[i][o]
    <3>4. b \in Accums /\ J \in SUBSET (1 .. n) /\ Met(b, n, v, J)
      BY <2>4, <3>3
    <3> HIDE DEF J, b
    <3>5. Met(AccumUpdate(b, v[i + 1]), n, v, J \cup {i + 1})
      BY <2>1, <3>4, MetOneMore
    <3> QED
      BY <2>1, <3>1, <3>2, <3>5 DEF J, b
  <2>6. CASE T[i + 1] # o
    <3>1. K(i + 1) = K(i)
      BY <2>1, <2>6
    <3>2. a[i + 1][o] = a[i][o]
      BY <2>2, <2>3, <2>6
    <3> QED
      BY <2>1, <2>4, <3>1, <3>2
  <2> QED
    BY <2>5, <2>6
<1> HIDE DEF S
<1>3. \A i \in 0 .. n : i \in S
  BY <1>1, <1>2, UpTo
<1>4. n \in S
  BY <1>3
<1> QED
  BY <1>4 DEF S, Falling

\* Some value falls on every place of what a reduction leaves.
LEMMA SomethingFalls ==
  ASSUME NEW s \in Shapes, 0 < Size(s), NEW axes, NEW keepdims \in BOOLEAN,
         NEW o \in Coordinates(ReducedShape(s, axes, keepdims))
  PROVE  \E c \in Coordinates(s) : ReducedCoord(c, axes, keepdims) = o
<1> DEFINE n == Len(s)
           out == ReducedShape(s, axes, keepdims)
<1>1. n \in Nat /\ DOMAIN s = 1 .. n /\ \A i \in 1 .. n : s[i] \in Nat
  BY ShapeLength
<1>2. Size(s) \in Nat /\ 0 \in 0 .. (Size(s) - 1)
  BY SizeIsBlocks
<1>3. \A i \in 1 .. n : 0 < s[i]
  BY <1>2, BlocksPositive
<1>4. out \in Shapes
  BY ReducedFits
<1>5. CASE keepdims
  <2> DEFINE c == [i \in 1 .. n |-> IF i - 1 \in axes THEN 0 ELSE o[i]]
  <2>1. out = [i \in 1 .. n |-> IF i - 1 \in axes THEN 1 ELSE s[i]]
    BY <1>1, <1>5 DEF ReducedShape
  <2>2. Len(out) = n
    <3>1. out \in [1 .. n -> Nat]
      BY <1>1, <2>1
    <3> QED
      BY <1>1, <1>4, <3>1, SameLength DEF Shapes
  <2>3. o \in [1 .. n -> Nat] /\ \A i \in 1 .. n : o[i] < out[i]
    BY <2>2 DEF Coordinates
  <2>4. c \in Coordinates(s)
    BY <1>1, <1>3, <2>1, <2>3 DEF Coordinates
  <2>5. ReducedCoord(c, axes, keepdims) = [i \in 1 .. n |-> IF i - 1 \in axes THEN 0 ELSE c[i]]
    BY <1>5 DEF ReducedCoord
  <2>6. \A i \in 1 .. n : (IF i - 1 \in axes THEN 0 ELSE c[i]) = o[i]
    <3> SUFFICES ASSUME NEW i \in 1 .. n PROVE (IF i - 1 \in axes THEN 0 ELSE c[i]) = o[i]
      OBVIOUS
    <3>1. CASE i - 1 \in axes
      BY <2>1, <2>3, <3>1
    <3>2. CASE i - 1 \notin axes
      BY <3>2
    <3> QED
      BY <3>1, <3>2
  <2>7. ReducedCoord(c, axes, keepdims) = o
    BY <2>3, <2>5, <2>6
  <2> QED
    BY <2>4, <2>7
<1>6. CASE ~keepdims
  <2> DEFINE D == {i \in 1 .. n : i - 1 \notin axes}
             kept == KeptAxes(n, axes)
             m == Cardinality(D)
             place(i) == CHOOSE j \in 1 .. m : kept[j] = i
             c == [i \in 1 .. n |-> IF i \in D THEN o[place(i)] ELSE 0]
  <2>1. D \in SUBSET Int /\ IsFiniteSet(D)
    <3>1. IsFiniteSet(1 .. n)
      BY <1>1, FS_Interval
    <3> QED
      BY <3>1, FS_Subset
  <2>2. /\ m \in Nat /\ Enumerates(kept, m, D)
        /\ \A i, j \in 1 .. m : i < j => kept[i] < kept[j]
    BY <2>1, AscendingInOrder DEF KeptAxes
  <2>3. kept \in [1 .. m -> D] /\ \A i \in D : \E j \in 1 .. m : kept[j] = i
    BY <2>2 DEF Enumerates
  <2> HIDE DEF kept, m
  <2>4. out = [j \in 1 .. m |-> s[kept[j]]]
    BY <1>6, <2>3 DEF ReducedShape, kept
  <2>5. \A j \in 1 .. m : kept[j] \in 1 .. n /\ kept[j] \in D
    BY <2>3
  <2>6. Len(out) = m
    <3>1. out \in [1 .. m -> Nat]
      BY <1>1, <2>4, <2>5
    <3> QED
      BY <1>4, <2>2, <3>1, SameLength DEF Shapes
  <2>7. o \in [1 .. m -> Nat] /\ \A j \in 1 .. m : o[j] < s[kept[j]]
    BY <2>4, <2>6 DEF Coordinates
  <2>8. \A i \in D : place(i) \in 1 .. m /\ kept[place(i)] = i
    BY <2>3
  <2>9. \A j \in 1 .. m : place(kept[j]) = j
    <3> SUFFICES ASSUME NEW j \in 1 .. m PROVE place(kept[j]) = j
      OBVIOUS
    <3>1. place(kept[j]) \in 1 .. m /\ kept[place(kept[j])] = kept[j] /\ kept[j] \in Int
      BY <2>5, <2>8
    <3> HIDE DEF place
    <3>2. ~(place(kept[j]) < j) /\ ~(j < place(kept[j]))
      BY <2>2, <3>1
    <3> QED
      BY <3>1, <3>2
  <2> HIDE DEF place
  <2>10. c \in Coordinates(s)
    <3>1. \A i \in 1 .. n : c[i] \in Nat /\ c[i] < s[i]
      BY <1>1, <1>3, <2>7, <2>8
    <3> QED
      BY <1>1, <3>1 DEF Coordinates
  <2>11. Len(c) = n
    BY <1>1
  <2>12. ReducedCoord(c, axes, keepdims) = [j \in 1 .. m |-> c[kept[j]]]
    BY <1>6, <2>3, <2>11 DEF ReducedCoord, kept
  <2>13. \A j \in 1 .. m : c[kept[j]] = o[j]
    BY <2>5, <2>9
  <2> HIDE DEF c
  <2>14. ReducedCoord(c, axes, keepdims) = o
    BY <2>7, <2>12, <2>13
  <2> QED
    BY <2>10, <2>14
<1> QED
  BY <1>5, <1>6

\* The places that fall on one place of a reduction, as coordinates and as offsets.
LEMMA FallsAgree ==
  ASSUME NEW s \in Shapes, NEW axes, NEW keepdims \in BOOLEAN,
         NEW o \in Coordinates(ReducedShape(s, axes, keepdims)), NEW c \in Coordinates(s)
  PROVE  LET out == ReducedShape(s, axes, keepdims)
             k == CoordOffset(s, c) + 1
         IN /\ k \in 1 .. Size(s) /\ Unravel(k - 1, s) = c
            /\ ReducedCoord(c, axes, keepdims) = o <=>
                 CoordOffset(out, ReducedCoord(Unravel(k - 1, s), axes, keepdims)) = CoordOffset(out, o)
<1> DEFINE out == ReducedShape(s, axes, keepdims)
           x == CoordOffset(s, c)
           d == ReducedCoord(c, axes, keepdims)
<1>1. x \in 0 .. (Size(s) - 1) /\ Unravel(x, s) = c /\ Size(s) \in Nat
  BY CoordOffsetIsOffsets, UnravelOfOffset, SizeIsBlocks
<1>2. out \in Shapes /\ d \in Coordinates(out)
  BY ReducedFits
<1> HIDE DEF d, out, x
<1>3. (x + 1) - 1 = x /\ x + 1 \in 1 .. Size(s)
  BY <1>1
<1>4. o \in Coordinates(out)
  BY DEF out
<1>5. CoordOffset(out, d) = CoordOffset(out, o) => d = o
  <2>1. Unravel(CoordOffset(out, d), out) = d /\ Unravel(CoordOffset(out, o), out) = o
    BY <1>2, <1>4, UnravelOfOffset
  <2> QED
    BY <2>1
<1> QED
  BY <1>1, <1>3, <1>5 DEF d, out, x

\* A reduction answers at a place the extreme of the values that fall on it.
IsExtreme(t, op, axes, keepdims, o) ==
  LET r == At(ReduceAxes(t, op, axes, keepdims), o)
      F == {c \in Coordinates(t.shape) : ReducedCoord(c, axes, keepdims) = o}
  IN /\ \E c \in F : r = At(t, c)
     /\ \A c \in F : IF op = "min" THEN r <= At(t, c) ELSE At(t, c) <= r

\* It does so for either extreme.
LEMMA ExtremeAt ==
  ASSUME NEW t, IsTensor(t), t.dtype \in Float, t.values # <<>>,
         NEW axes \in SUBSET AxesOf(t), NEW keepdims \in BOOLEAN, NEW op \in {"min", "max"},
         NEW o \in Coordinates(ReducedShape(t.shape, axes, keepdims))
  PROVE  IsExtreme(t, op, axes, keepdims, o)
<1> DEFINE s == t.shape
           n == Size(s)
           v == t.values
           out == ReducedShape(s, axes, keepdims)
           m == Size(out)
           res == ReduceAxes(t, op, axes, keepdims)
           q == CoordOffset(out, o) + 1
<1>1. /\ t.dtype \in Dtype /\ s \in Shapes /\ n \in Nat /\ Len(v) = n
      /\ v \in [1 .. n -> Held(t.dtype)] /\ ValuesF64(t) = v
  BY TensorParts, ValuesF64Wide DEF Float
<1>2. Held(t.dtype) \subseteq Int
  BY <1>1, HeldTypes
<1>3. v \in [1 .. n -> Int]
  BY <1>1, <1>2
<1>4. 0 < n
  <2>1. v \in Seq(Int)
    BY DEF IsTensor
  <2> HIDE DEF v, n
  <2>2. Len(v) # 0
    BY <2>1 DEF v
  <2> QED
    BY <1>1, <2>2
<1>5. op \in ReduceOp
  BY DEF ReduceOp
<1>6. out \in Shapes /\ m \in Nat
  BY <1>5, ReduceMeans
<1>7. PICK T, a : IsReduction(t, op, axes, keepdims, T, a)
  BY <1>5, ReduceMeans
<1>8. ~(v = <<>> \/ \E x \in axes : x >= Len(s))
  <2>1. \A x \in axes : \E i \in 1 .. Len(s) : x = i - 1
    BY <1>1, ShapeLength DEF AxesOf
  <2>2. Len(s) \in Nat
    BY <1>1, ShapeLength
  <2> HIDE DEF s
  <2> QED
    BY <2>1, <2>2
<1> DEFINE K(p) == {k \in 1 .. n : T[k] = p}
           total == [p \in 1 .. m |-> AccumFinalize(a[n][p], op)]
<1>9. /\ T \in [1 .. n -> 1 .. m]
      /\ \A k \in 1 .. n : T[k] = CoordOffset(out, ReducedCoord(Unravel(k - 1, s), axes, keepdims)) + 1
      /\ a \in [0 .. n -> [1 .. m -> Accums]]
      /\ Runs(a, n, m, T, v)
  BY <1>1, <1>7 DEF IsReduction
<1>10. res = IF out = <<>> THEN Scalar(AccumFinalize(a[n][1], op)) ELSE FromF64Like(t.dtype, out, total)
  BY <1>1, <1>7, <1>8 DEF IsReduction
<1>11. o \in Coordinates(out) /\ axes \in SUBSET AxesOf(t)
  OBVIOUS
<1>12. 1 .. n # {} /\ n \in 0 .. n
  BY <1>1, <1>4
<1> HIDE DEF s, n, v, out, m, res
<1>13. ASSUME NEW p \in 1 .. m PROVE K(p) # {}
  <2>1. p - 1 \in 0 .. (m - 1) /\ (p - 1) + 1 = p
    BY <1>6
  <2> DEFINE d == Unravel(p - 1, out)
  <2>2. d \in Coordinates(out) /\ CoordOffset(out, d) = p - 1
    BY <1>6, <2>1, UnravelIsDivMod, OffsetOfUnravel DEF m
  <2> HIDE DEF d
  <2>3. PICK c \in Coordinates(s) : ReducedCoord(c, axes, keepdims) = d
    BY <1>1, <1>4, <2>2, SomethingFalls DEF out, n
  <2> DEFINE k == CoordOffset(s, c) + 1
  <2>4. k \in 1 .. n /\ Unravel(k - 1, s) = c
    BY <1>1, <2>2, FallsAgree DEF out, n
  <2> HIDE DEF k
  <2>5. T[k] = p
    BY <1>9, <2>1, <2>2, <2>3, <2>4
  <2> QED
    BY <2>4, <2>5
<1>14. ASSUME NEW p \in 1 .. m
       PROVE  /\ \E k \in K(p) : total[p] = v[k]
              /\ \A k \in K(p) : IF op = "min" THEN total[p] <= v[k] ELSE v[k] <= total[p]
  <2>1. Met(a[n][p], n, v, Falling(T, n, p))
    <3>1. n \in Nat /\ m \in Nat /\ v \in [1 .. n -> Int]
      BY <1>1, <1>3, <1>6
    <3>2. T \in [1 .. n -> 1 .. m] /\ a \in [0 .. n -> [1 .. m -> Accums]] /\ Runs(a, n, m, T, v)
      BY <1>9
    <3> HIDE DEF K, total
    <3> QED
      BY <3>1, <3>2, RunsMeet
  <2>2. total[p] = IF op = "min" THEN a[n][p].min ELSE a[n][p].max
    BY DEF AccumFinalize
  <2> HIDE DEF total
  <2> QED
    BY <1>13, <2>1, <2>2 DEF Met, Falling
<1>15. total \in [1 .. m -> Held(t.dtype)]
  <2>1. \A p \in 1 .. m : total[p] \in Held(t.dtype)
    BY <1>1, <1>14
  <2> QED
    BY <2>1
<1>16. q \in 1 .. m
  BY <1>6, <1>11, CoordOffsetIsOffsets DEF m
<1>17. At(res, o) = total[q]
  <2>1. CASE out = <<>>
    <3>1. m = 1
      BY <1>6, <2>1, SizesExist DEF m
    <3>2. q = 1
      BY <1>16, <3>1
    <3>3. res = Scalar(AccumFinalize(a[n][1], op))
      BY <1>10, <2>1
    <3>4. res.shape = out /\ res.values = <<total[1]>>
      BY <2>1, <3>1, <3>3 DEF Scalar
    <3> HIDE DEF total, q
    <3> QED
      BY <3>2, <3>4 DEF At, q
  <2>2. CASE out # <<>>
    <3>1. res = FromF64Like(t.dtype, out, total)
      BY <1>10, <2>2
    <3> HIDE DEF total
    <3>2. res = [dtype |-> t.dtype, shape |-> out, values |-> total]
      BY <1>6, <1>15, <3>1, FloatsAreExact DEF m
    <3> QED
      BY <3>2 DEF At
  <2> QED
    BY <2>1, <2>2
<1>18. ASSUME NEW c \in Coordinates(s)
       PROVE  LET k == CoordOffset(s, c) + 1
              IN /\ k \in 1 .. n /\ At(t, c) = v[k]
                 /\ ReducedCoord(c, axes, keepdims) = o <=> k \in K(q)
  <2> DEFINE k == CoordOffset(s, c) + 1
  <2>1. /\ k \in 1 .. n /\ Unravel(k - 1, s) = c
        /\ ReducedCoord(c, axes, keepdims) = o <=>
             CoordOffset(out, ReducedCoord(Unravel(k - 1, s), axes, keepdims)) = CoordOffset(out, o)
    BY <1>1, <1>11, FallsAgree DEF out, n
  <2>2. At(t, c) = v[k]
    BY DEF At, v, s
  <2>3. T[k] = CoordOffset(out, ReducedCoord(Unravel(k - 1, s), axes, keepdims)) + 1
    BY <1>9, <2>1
  <2>4. T[k] = q <=>
          CoordOffset(out, ReducedCoord(Unravel(k - 1, s), axes, keepdims)) = CoordOffset(out, o)
    <3>1. /\ CoordOffset(out, o) \in 0 .. (m - 1)
          /\ CoordOffset(out, ReducedCoord(Unravel(k - 1, s), axes, keepdims)) \in 0 .. (m - 1)
      <4>1. ReducedCoord(c, axes, keepdims) \in Coordinates(out)
        BY <1>1, ReducedFits DEF out
      <4> QED
        BY <1>6, <1>11, <2>1, <4>1, CoordOffsetIsOffsets DEF m
    <3> QED
      BY <1>6, <2>3, <3>1
  <2> HIDE DEF k, q
  <2> QED
    BY <2>1, <2>2, <2>4 DEF k
<1>19. ASSUME NEW k \in K(q)
       PROVE  \E c \in Coordinates(s) : ReducedCoord(c, axes, keepdims) = o /\ At(t, c) = v[k]
  <2> DEFINE c == Unravel(k - 1, s)
  <2>1. k - 1 \in 0 .. (n - 1) /\ (k - 1) + 1 = k
    BY <1>1
  <2>2. c \in Coordinates(s) /\ CoordOffset(s, c) = k - 1
    BY <1>1, <2>1, UnravelIsDivMod, OffsetOfUnravel DEF n
  <2> HIDE DEF c
  <2>3. At(t, c) = v[k] /\ ReducedCoord(c, axes, keepdims) = o
    BY <1>18, <2>1, <2>2
  <2> QED
    BY <2>2, <2>3
<1> HIDE DEF total, q, K
<1>20. /\ \E k \in K(q) : total[q] = v[k]
       /\ \A k \in K(q) : IF op = "min" THEN total[q] <= v[k] ELSE v[k] <= total[q]
  BY <1>14, <1>16
<1>21. \E c \in Coordinates(s) : ReducedCoord(c, axes, keepdims) = o /\ At(res, o) = At(t, c)
  BY <1>17, <1>19, <1>20
<1>22. \A c \in Coordinates(s) : ReducedCoord(c, axes, keepdims) = o =>
         IF op = "min" THEN At(res, o) <= At(t, c) ELSE At(t, c) <= At(res, o)
  BY <1>17, <1>18, <1>20
<1> QED
  BY <1>21, <1>22 DEF IsExtreme, res, s

\* A reduction to an extreme, over any axes of a tensor of any size, answers at each
\* place the extreme of the values that fall on it.
THEOREM ExtremesAreMet ==
  Spec => /\ [](tensor.dtype \in Float /\ tensor.values # <<>> => ExtremesOf(tensor))
          /\ []ExtremesAreValues
<1>1. IsTensor(tensor) => (tensor.dtype \in Float /\ tensor.values # <<>> => ExtremesOf(tensor))
  <2> SUFFICES ASSUME IsTensor(tensor), tensor.dtype \in Float, tensor.values # <<>>,
                      NEW axes \in SUBSET AxesOf(tensor), NEW keepdims \in BOOLEAN,
                      NEW o \in Coords(ReducedShape(tensor.shape, axes, keepdims))
               PROVE  LET least == ReduceAxes(tensor, "min", axes, keepdims)
                          greatest == ReduceAxes(tensor, "max", axes, keepdims)
                          F == {c \in Coords(tensor.shape) : ReducedCoord(c, axes, keepdims) = o}
                      IN /\ \E c, d \in F : At(least, o) = At(tensor, c) /\ At(greatest, o) = At(tensor, d)
                         /\ \A c \in F : At(least, o) <= At(tensor, c) /\ At(tensor, c) <= At(greatest, o)
    BY DEF ExtremesOf
  <2> DEFINE s == tensor.shape
             F == {c \in Coordinates(s) : ReducedCoord(c, axes, keepdims) = o}
             res(op) == ReduceAxes(tensor, op, axes, keepdims)
  <2>1. s \in Shapes /\ ReducedShape(s, axes, keepdims) \in Shapes
    BY TensorParts, ReducedFits
  <2>2. Coords(s) = Coordinates(s) /\ o \in Coordinates(ReducedShape(s, axes, keepdims))
    BY <2>1, CoordsAreCoordinates
  <2>3. ASSUME NEW op \in {"min", "max"}
        PROVE  /\ \E c \in F : At(res(op), o) = At(tensor, c)
               /\ \A c \in F : IF op = "min" THEN At(res(op), o) <= At(tensor, c)
                                              ELSE At(tensor, c) <= At(res(op), o)
    <3>1. IsExtreme(tensor, op, axes, keepdims, o)
      BY <2>2, ExtremeAt
    <3> QED
      BY <3>1 DEF IsExtreme
  <2> HIDE DEF res, F
  <2>4. (\E c \in F : At(res("min"), o) = At(tensor, c)) /\ \A c \in F : At(res("min"), o) <= At(tensor, c)
    BY <2>3
  <2>5. (\E c \in F : At(res("max"), o) = At(tensor, c)) /\ \A c \in F : At(tensor, c) <= At(res("max"), o)
    BY <2>3
  <2>6. F = {c \in Coords(tensor.shape) : ReducedCoord(c, axes, keepdims) = o}
    BY <2>2 DEF F
  <2> QED
    BY <2>4, <2>5, <2>6 DEF res
<1>2. IsTensor(tensor) => ExtremesAreValues
  BY <1>1 DEF ExtremesAreValues, Exact
<1> QED
  BY <1>1, <1>2, TensorHeld, PTL

-----------------------------------------------------------------------------
(* Sums and products: every value of the input goes into one place of the   *)
(* output, and the order and the grouping do not matter.                    *)

\* Sum and product are commutative, associative and have a unit.
LEMMA BothLaws ==
  ASSUME NEW op, NEW x \in Int, NEW y \in Int, NEW z \in Int
  PROVE  /\ Unit(op) \in Int /\ Both(op, x, y) \in Int
         /\ Both(op, Unit(op), x) = x /\ Both(op, x, Unit(op)) = x
         /\ Both(op, x, y) = Both(op, y, x)
         /\ Both(op, Both(op, x, y), z) = Both(op, Both(op, x, z), y)
<1>1. Both(op, x, y) \in Int /\ Unit(op) \in Int
  BY DEF Both, Unit
<1>2. Both(op, Unit(op), x) = x /\ Both(op, x, Unit(op)) = x
  BY DEF Both, Unit
<1>3. Both(op, x, y) = Both(op, y, x)
  BY DEF Both
<1>4. Both(op, Both(op, x, y), z) = Both(op, Both(op, x, z), y)
  <2>1. CASE op = "product"
    <3>1. (x * y) * z = (x * z) * y
      OBVIOUS
    <3> QED
      BY <2>1, <3>1 DEF Both
  <2>2. CASE op # "product"
    BY <2>2 DEF Both
  <2> QED
    BY <2>1, <2>2
<1> QED
  BY <1>1, <1>2, <1>3, <1>4

\* The unit on either side.
LEMMA BothUnit ==
  ASSUME NEW op, NEW x \in Int
  PROVE  Unit(op) \in Int /\ Both(op, Unit(op), x) = x /\ Both(op, x, Unit(op)) = x
BY BothLaws

\* The loop of Combined, and that no other function is one.
IsParts(op, n, f, c) ==
  c = [k \in 0 .. n |-> IF k = 0 THEN Unit(op) ELSE Both(op, c[k - 1], f[k])]
Parts(op, n, f) == CHOOSE c : IsParts(op, n, f, c)
LEMMA PartsExist ==
  ASSUME NEW op, NEW n \in Nat, NEW m \in Nat, n <= m, NEW f \in [1 .. m -> Int]
  PROVE  /\ Combined(op, n, f) = Parts(op, n, f)[n]
         /\ IsParts(op, n, f, Parts(op, n, f))
         /\ \A k \in 0 .. n : Parts(op, n, f)[k] \in Int
<1>1. \A k \in 1 .. n : f[k] \in Int
  OBVIOUS
<1>2. \A k \in 1 .. n, x \in Int : Both(op, x, f[k]) \in Int
  BY <1>1, BothLaws
<1>3. \E c : IsParts(op, n, f, c) /\ \A k \in 0 .. n : c[k] \in Int
  <2> DEFINE H == [k \in 1 .. n |-> [x \in Int |-> Both(op, x, f[k])]]
             z == Unit(op)
             W == Int
  <2>1. H \in Steps(1 .. n, W) /\ z \in W
    BY <1>2, BothLaws DEF Steps
  <2>2. \A k \in 1 .. n : \A x \in W : H[k][x] = Both(op, x, f[k])
    OBVIOUS
  <2> HIDE DEF H, W, z
  <2>3. RecursTo(n, W, z, H)
    BY <2>1, FiniteRecursion
  <2>4. PICK c \in [0 .. n -> W] : c[0] = z /\ \A k \in 1 .. n : c[k] = H[k][c[k - 1]]
    BY <2>3 DEF RecursTo
  <2>5. \A k \in 0 .. n : k # 0 => k \in 1 .. n /\ k - 1 \in 0 .. n
    OBVIOUS
  <2>6. \A k \in 0 .. n : c[k] = IF k = 0 THEN Unit(op) ELSE Both(op, c[k - 1], f[k])
    BY <2>2, <2>4, <2>5 DEF z
  <2>7. c = [k \in 0 .. n |-> IF k = 0 THEN Unit(op) ELSE Both(op, c[k - 1], f[k])]
    BY <2>6
  <2> QED
    BY <2>4, <2>7 DEF IsParts, W
<1>4. IsParts(op, n, f, Parts(op, n, f))
  BY <1>3 DEF Parts
<1> DEFINE p == Parts(op, n, f)
<1>5. Combined(op, n, f) = p[n]
  BY DEF Combined, Parts, IsParts
<1> HIDE DEF p
<1>6. p[0] = Unit(op) /\ \A k \in 1 .. n : p[k] = Both(op, p[k - 1], f[k])
  <2>1. 0 \in 0 .. n /\ \A k \in 1 .. n : k \in 0 .. n /\ k # 0
    OBVIOUS
  <2> QED
    BY <1>4, <2>1 DEF IsParts, p
<1> DEFINE S == {k \in 0 .. n : p[k] \in Int}
<1>7. 0 \in S
  BY <1>6, BothLaws
<1>8. ASSUME NEW k \in 0 .. (n - 1), k \in S PROVE k + 1 \in S
  <2>1. k + 1 \in 1 .. n /\ (k + 1) - 1 = k /\ k + 1 \in 0 .. n
    OBVIOUS
  <2> QED
    BY <1>2, <1>6, <1>8, <2>1
<1> HIDE DEF S
<1>9. \A k \in 0 .. n : k \in S
  BY <1>7, <1>8, UpTo
<1> QED
  BY <1>4, <1>5, <1>9 DEF S, p

\* One value after another.
LEMMA CombinedSteps ==
  ASSUME NEW op, NEW m \in Nat, NEW f \in [1 .. m -> Int]
  PROVE  /\ Combined(op, 0, f) = Unit(op)
         /\ \A n \in 0 .. m : Combined(op, n, f) \in Int
         /\ \A n \in 1 .. m : Combined(op, n, f) = Both(op, Combined(op, n - 1, f), f[n])
<1> DEFINE p == Parts(op, m, f)
<1>1. ASSUME NEW n \in 0 .. m
      PROVE  Combined(op, n, f) = p[n] /\ p[n] \in Int
  <2> DEFINE c == Parts(op, n, f)
             S == {k \in 0 .. n : c[k] = p[k]}
  <2>0. n \in Nat /\ n <= m /\ m <= m
    OBVIOUS
  <2>1. IsParts(op, n, f, c) /\ Combined(op, n, f) = c[n]
    BY <2>0, PartsExist
  <2>2. IsParts(op, m, f, p) /\ p[n] \in Int
    BY <2>0, PartsExist
  <2> HIDE DEF c, p
  <2>3. c[0] = Unit(op) /\ p[0] = Unit(op)
    <3>1. 0 \in 0 .. n /\ 0 \in 0 .. m
      OBVIOUS
    <3> QED
      BY <2>1, <2>2, <3>1 DEF IsParts
  <2>4. 0 \in 0 .. n
    OBVIOUS
  <2>5. 0 \in S
    BY <2>3, <2>4
  <2>6. ASSUME NEW k \in 0 .. (n - 1), k \in S PROVE k + 1 \in S
    <3>1. k + 1 \in 0 .. n /\ k + 1 \in 0 .. m /\ (k + 1) - 1 = k /\ k + 1 # 0
      OBVIOUS
    <3>2. c[k + 1] = Both(op, c[k], f[k + 1]) /\ p[k + 1] = Both(op, p[k], f[k + 1])
      BY <2>1, <2>2, <3>1 DEF IsParts
    <3> QED
      BY <2>6, <3>1, <3>2
  <2>7. n \in Nat
    OBVIOUS
  <2> HIDE DEF S
  <2>8. \A k \in 0 .. n : k \in S
    BY <2>5, <2>6, <2>7, UpTo
  <2>9. n \in S
    BY <2>7, <2>8
  <2> QED
    BY <2>1, <2>2, <2>9 DEF S
<1>2. IsParts(op, m, f, p)
  <2>1. m <= m
    OBVIOUS
  <2> QED
    BY <2>1, PartsExist
<1>3. p[0] = Unit(op) /\ \A n \in 1 .. m : p[n] = Both(op, p[n - 1], f[n])
  <2> HIDE DEF p
  <2>1. 0 \in 0 .. m /\ \A n \in 1 .. m : n \in 0 .. m /\ n # 0
    OBVIOUS
  <2> QED
    BY <1>2, <2>1 DEF IsParts
<1> HIDE DEF p
<1>4. 0 \in 0 .. m /\ \A n \in 1 .. m : n \in 0 .. m /\ n - 1 \in 0 .. m
  OBVIOUS
<1> QED
  BY <1>1, <1>3, <1>4

\* Units alone come to the unit.
LEMMA CombinedUnits ==
  ASSUME NEW op, NEW m \in Nat, NEW f \in [1 .. m -> Int], \A k \in 1 .. m : f[k] = Unit(op)
  PROVE  Combined(op, m, f) = Unit(op)
<1> DEFINE S == {k \in 0 .. m : Combined(op, k, f) = Unit(op)}
<1>1. 0 \in S
  BY CombinedSteps
<1>2. ASSUME NEW k \in 0 .. (m - 1), k \in S PROVE k + 1 \in S
  <2>1. k + 1 \in 1 .. m /\ (k + 1) - 1 = k /\ k + 1 \in 0 .. m
    OBVIOUS
  <2>2. Combined(op, k + 1, f) = Both(op, Combined(op, k, f), f[k + 1])
    BY <2>1, CombinedSteps
  <2>3. Unit(op) \in Int /\ Both(op, Unit(op), Unit(op)) = Unit(op)
    <3>1. Unit(op) \in Int
      BY DEF Unit
    <3> QED
      BY <3>1, BothLaws
  <2> QED
    BY <1>2, <2>1, <2>2, <2>3
<1> HIDE DEF S
<1>3. \A k \in 0 .. m : k \in S
  BY <1>1, <1>2, UpTo
<1> QED
  BY <1>3 DEF S

\* One value taken in at any place is taken in at the end.
TookIn(op, g, q, x) == [g EXCEPT ![q] = Both(op, g[q], x)]
LEMMA OneMore ==
  ASSUME NEW op, NEW m \in Nat, NEW g \in [1 .. m -> Int], NEW q \in 1 .. m, NEW x \in Int,
         TookIn(op, g, q, x) \in [1 .. m -> Int]
  PROVE  Combined(op, m, TookIn(op, g, q, x)) = Both(op, Combined(op, m, g), x)
<1> DEFINE h == TookIn(op, g, q, x)
           G(k) == Combined(op, k, g)
           H(k) == Combined(op, k, h)
           S == {k \in 0 .. m : H(k) = IF k < q THEN G(k) ELSE Both(op, G(k), x)}
<1>1. /\ G(0) = Unit(op) /\ H(0) = Unit(op)
      /\ \A k \in 0 .. m : G(k) \in Int /\ H(k) \in Int
      /\ \A k \in 1 .. m : G(k) = Both(op, G(k - 1), g[k]) /\ H(k) = Both(op, H(k - 1), h[k])
  BY CombinedSteps
<1>2. h[q] = Both(op, g[q], x) /\ \A k \in 1 .. m : k # q => h[k] = g[k]
  BY DEF TookIn
<1> HIDE DEF G, H, h
<1>3. 0 \in S
  BY <1>1
<1>4. ASSUME NEW k \in 0 .. (m - 1), k \in S PROVE k + 1 \in S
  <2>1. k + 1 \in 1 .. m /\ (k + 1) - 1 = k /\ k + 1 \in 0 .. m /\ k \in 0 .. m
    OBVIOUS
  <2>2. G(k + 1) = Both(op, G(k), g[k + 1]) /\ H(k + 1) = Both(op, H(k), h[k + 1])
    BY <1>1, <2>1
  <2>3. G(k) \in Int /\ g[k + 1] \in Int
    BY <1>1, <2>1
  <2>4. CASE k + 1 < q
    BY <1>2, <1>4, <2>1, <2>2, <2>4
  <2>5. CASE k + 1 = q
    <3>1. H(k) = G(k)
      BY <1>4, <2>1, <2>5
    <3>2. H(k + 1) = Both(op, G(k), Both(op, g[k + 1], x))
      BY <1>2, <2>2, <2>5, <3>1
    <3>3. Both(op, G(k), Both(op, g[k + 1], x)) = Both(op, Both(op, g[k + 1], x), G(k))
      <4>1. Both(op, g[k + 1], x) \in Int
        BY <2>3, BothLaws
      <4> QED
        BY <2>3, <4>1, BothLaws
    <3> DEFINE y == g[k + 1]
               z == G(k)
    <3>4. y \in Int /\ z \in Int
      BY <2>3
    <3> HIDE DEF y, z
    <3>5. Both(op, Both(op, y, x), z) = Both(op, Both(op, y, z), x) /\ Both(op, y, z) = Both(op, z, y)
      BY <3>4, BothLaws, SMTT(30)
    <3> QED
      BY <2>1, <2>2, <2>5, <3>2, <3>3, <3>5 DEF y, z
  <2>6. CASE k + 1 > q
    <3>1. H(k) = Both(op, G(k), x) /\ h[k + 1] = g[k + 1]
      BY <1>2, <1>4, <2>1, <2>6
    <3>2. Both(op, Both(op, G(k), x), g[k + 1]) = Both(op, Both(op, G(k), g[k + 1]), x)
      BY <2>3, BothLaws
    <3> QED
      BY <2>1, <2>2, <2>6, <3>1, <3>2
  <2> QED
    BY <2>1, <2>4, <2>5, <2>6
<1> HIDE DEF S
<1>5. \A k \in 0 .. m : k \in S
  BY <1>3, <1>4, UpTo
<1>6. m \in 0 .. m /\ ~(m < q)
  OBVIOUS
<1> QED
  BY <1>5, <1>6 DEF S, G, H, h

\* The values that fall on one place, and units elsewhere; what they come to.
Masked(op, n, T, f, p) == [k \in 1 .. n |-> IF T[k] = p THEN f[k] ELSE Unit(op)]
Group(op, n, m, T, f) == [p \in 1 .. m |-> Combined(op, n, Masked(op, n, T, f, p))]
\* Both are whole numbers.
LEMMA GroupTypes ==
  ASSUME NEW op, NEW n \in Nat, NEW m \in Nat, NEW T \in [1 .. n -> 1 .. m],
         NEW f \in [1 .. n -> Int]
  PROVE  /\ \A p : Masked(op, n, T, f, p) \in [1 .. n -> Int]
         /\ Group(op, n, m, T, f) \in [1 .. m -> Int]
<1>1. Unit(op) \in Int
  BY DEF Unit
<1>2. \A p : Masked(op, n, T, f, p) \in [1 .. n -> Int]
  BY <1>1 DEF Masked
<1>3. \A p : Combined(op, n, Masked(op, n, T, f, p)) \in Int
  <2> SUFFICES ASSUME NEW p PROVE Combined(op, n, Masked(op, n, T, f, p)) \in Int
    OBVIOUS
  <2> DEFINE g == Masked(op, n, T, f, p)
  <2>1. g \in [1 .. n -> Int] /\ n \in 0 .. n
    BY <1>2
  <2> HIDE DEF g
  <2>2. Combined(op, n, g) \in Int
    BY <2>1, CombinedSteps
  <2> QED
    BY <2>2 DEF g
<1> QED
  BY <1>2, <1>3 DEF Group

\* What the groups come to together is what all the values come to.
LEMMA Regroup ==
  ASSUME NEW op, NEW n \in Nat, NEW m \in Nat, NEW T \in [1 .. n -> 1 .. m],
         NEW f \in [1 .. n -> Int]
  PROVE  Combined(op, m, Group(op, n, m, T, f)) = Combined(op, n, f)
<1> DEFINE G(i) == [p \in 1 .. m |-> Combined(op, i, Masked(op, n, T, f, p))]
           S == {i \in 0 .. n : Combined(op, m, G(i)) = Combined(op, i, f)}
<1>1. ASSUME NEW p
      PROVE  /\ Combined(op, 0, Masked(op, n, T, f, p)) = Unit(op)
             /\ \A i \in 0 .. n : Combined(op, i, Masked(op, n, T, f, p)) \in Int
             /\ \A i \in 1 .. n : Combined(op, i, Masked(op, n, T, f, p))
                  = Both(op, Combined(op, i - 1, Masked(op, n, T, f, p)),
                         IF T[i] = p THEN f[i] ELSE Unit(op))
  <2> DEFINE g == Masked(op, n, T, f, p)
  <2>1. g \in [1 .. n -> Int]
    BY GroupTypes
  <2>2. \A i \in 1 .. n : g[i] = IF T[i] = p THEN f[i] ELSE Unit(op)
    BY DEF Masked
  <2> HIDE DEF g
  <2>3. /\ Combined(op, 0, g) = Unit(op)
        /\ \A i \in 0 .. n : Combined(op, i, g) \in Int
        /\ \A i \in 1 .. n : Combined(op, i, g) = Both(op, Combined(op, i - 1, g), g[i])
    BY <2>1, CombinedSteps
  <2> QED
    BY <2>2, <2>3 DEF g
<1>2. \A i \in 0 .. n : G(i) \in [1 .. m -> Int]
  BY <1>1
<1>3. 0 \in S
  <2>1. \A p \in 1 .. m : G(0)[p] = Unit(op)
    BY <1>1
  <2>2. G(0) \in [1 .. m -> Int]
    BY <1>2
  <2>3. Combined(op, 0, f) = Unit(op)
    BY CombinedSteps
  <2> HIDE DEF G
  <2>4. Combined(op, m, G(0)) = Unit(op)
    BY <2>1, <2>2, CombinedUnits
  <2> QED
    BY <2>3, <2>4
<1>4. ASSUME NEW i \in 0 .. (n - 1), i \in S PROVE i + 1 \in S
  <2>1. i + 1 \in 1 .. n /\ (i + 1) - 1 = i /\ i + 1 \in 0 .. n /\ i \in 0 .. n
    OBVIOUS
  <2> DEFINE q == T[i + 1]
             x == f[i + 1]
             g == G(i)
             h == G(i + 1)
  <2>2. q \in 1 .. m /\ x \in Int /\ g \in [1 .. m -> Int] /\ h \in [1 .. m -> Int]
    BY <1>2, <2>1
  <2>3. \A p \in 1 .. m : h[p] = Both(op, g[p], IF q = p THEN x ELSE Unit(op))
    BY <1>1, <2>1
  <2>4. Combined(op, i + 1, f) = Both(op, Combined(op, i, f), x)
    BY <2>1, CombinedSteps
  <2>5. Combined(op, m, g) = Combined(op, i, f)
    BY <1>4
  <2> HIDE DEF g, h, G, q, x
  <2>6. \A p \in 1 .. m : Both(op, g[p], Unit(op)) = g[p]
    BY <2>2, BothLaws, ZenonT(40)
  <2>7. h = TookIn(op, g, q, x)
    BY <2>2, <2>3, <2>6 DEF TookIn
  <2>8. Combined(op, m, TookIn(op, g, q, x)) = Both(op, Combined(op, m, g), x)
    BY <2>2, <2>7, OneMore
  <2> QED
    BY <2>1, <2>4, <2>5, <2>7, <2>8 DEF h
<1>5. n \in S
  <2> HIDE DEF S
  <2>1. \A i \in 0 .. n : i \in S
    BY <1>3, <1>4, UpTo
  <2> QED
    BY <2>1
<1> QED
  BY <1>5 DEF Group

\* Groups of groups are groups.
Through(n, T, U) == [k \in 1 .. n |-> U[T[k]]]
\* What falls on a place by the second step falls on it by the two.
LEMMA MaskedGroups ==
  ASSUME NEW op, NEW n \in Nat, NEW m \in Nat, NEW T \in [1 .. n -> 1 .. m],
         NEW f \in [1 .. n -> Int], NEW U, NEW p
  PROVE  Masked(op, m, U, Group(op, n, m, T, f), p)
           = Group(op, n, m, T, Masked(op, n, Through(n, T, U), f, p))
<1> DEFINE V == Through(n, T, U)
           h == Masked(op, n, V, f, p)
<1>1. Unit(op) \in Int /\ \A k \in 1 .. n : V[k] = U[T[k]]
  BY DEF Unit, Through
<1>2. h \in [1 .. n -> Int] /\ \A k \in 1 .. n : h[k] = IF V[k] = p THEN f[k] ELSE Unit(op)
  BY <1>1 DEF Masked
<1> HIDE DEF h, V
<1>3. ASSUME NEW q \in 1 .. m
      PROVE  (IF U[q] = p THEN Combined(op, n, Masked(op, n, T, f, q)) ELSE Unit(op))
               = Combined(op, n, Masked(op, n, T, h, q))
  <2>1. CASE U[q] = p
    <3>1. Masked(op, n, T, f, q) = Masked(op, n, T, h, q)
      BY <1>1, <1>2, <2>1 DEF Masked
    <3> QED
      BY <2>1, <3>1
  <2>2. CASE U[q] # p
    <3> DEFINE g == Masked(op, n, T, h, q)
    <3>1. g \in [1 .. n -> Int] /\ \A k \in 1 .. n : g[k] = Unit(op)
      BY <1>1, <1>2, <2>2 DEF Masked
    <3> HIDE DEF g
    <3>2. Combined(op, n, g) = Unit(op)
      BY <3>1, CombinedUnits
    <3> QED
      BY <2>2, <3>2 DEF g
  <2> QED
    BY <2>1, <2>2
<1>4. Group(op, n, m, T, h) = [q \in 1 .. m |-> Combined(op, n, Masked(op, n, T, h, q))]
  BY DEF Group
<1>5. Masked(op, m, U, Group(op, n, m, T, f), p)
        = [q \in 1 .. m |-> IF U[q] = p THEN Combined(op, n, Masked(op, n, T, f, q)) ELSE Unit(op)]
  BY DEF Group, Masked
<1>6. Masked(op, m, U, Group(op, n, m, T, f), p) = Group(op, n, m, T, h)
  BY <1>3, <1>4, <1>5
<1> QED
  BY <1>6 DEF h, V
\* So what the two steps come to is what the one they make comes to.
LEMMA GroupsOfGroups ==
  ASSUME NEW op, NEW n \in Nat, NEW m \in Nat, NEW l \in Nat,
         NEW T \in [1 .. n -> 1 .. m], NEW U \in [1 .. m -> 1 .. l], NEW f \in [1 .. n -> Int]
  PROVE  Group(op, m, l, U, Group(op, n, m, T, f)) = Group(op, n, l, Through(n, T, U), f)
<1> DEFINE V == Through(n, T, U)
           g == Group(op, n, m, T, f)
<1>1. V \in [1 .. n -> 1 .. l]
  BY DEF Through
<1> HIDE DEF V
<1>2. ASSUME NEW p \in 1 .. l
      PROVE  Combined(op, m, Masked(op, m, U, g, p)) = Combined(op, n, Masked(op, n, V, f, p))
  <2> DEFINE h == Masked(op, n, V, f, p)
  <2>1. h \in [1 .. n -> Int]
    BY <1>1, GroupTypes
  <2>2. Masked(op, m, U, g, p) = Group(op, n, m, T, h)
    BY MaskedGroups, SMTT(30) DEF V
  <2> HIDE DEF h
  <2>3. Combined(op, m, Group(op, n, m, T, h)) = Combined(op, n, h)
    BY <2>1, Regroup
  <2> QED
    BY <2>2, <2>3 DEF h
<1> HIDE DEF g
<1>3. Group(op, m, l, U, g) = Group(op, n, l, V, f)
  BY <1>2 DEF Group
<1> QED
  BY <1>3 DEF g, V

\* A factor common to what is summed.
LEMMA CommonFactor ==
  ASSUME NEW n \in Nat, NEW f \in [1 .. n -> Int], NEW g \in [1 .. n -> Int], NEW x \in Int,
         \A k \in 1 .. n : f[k] = x * g[k]
  PROVE  Combined("sum", n, f) = x * Combined("sum", n, g)
<1> DEFINE F(k) == Combined("sum", k, f)
           G(k) == Combined("sum", k, g)
           S == {k \in 0 .. n : F(k) = x * G(k)}
<1>1. /\ F(0) = 0 /\ G(0) = 0
      /\ \A k \in 0 .. n : F(k) \in Int /\ G(k) \in Int
      /\ \A k \in 1 .. n : F(k) = F(k - 1) + f[k] /\ G(k) = G(k - 1) + g[k]
  <2>1. /\ F(0) = Unit("sum") /\ G(0) = Unit("sum")
        /\ \A k \in 0 .. n : F(k) \in Int /\ G(k) \in Int
        /\ \A k \in 1 .. n : F(k) = Both("sum", F(k - 1), f[k]) /\ G(k) = Both("sum", G(k - 1), g[k])
    BY CombinedSteps
  <2> HIDE DEF F, G
  <2> QED
    BY <2>1 DEF Both, Unit
<1> HIDE DEF F, G
<1>2. 0 \in S
  BY <1>1
<1>3. ASSUME NEW k \in 0 .. (n - 1), k \in S PROVE k + 1 \in S
  <2>1. k + 1 \in 1 .. n /\ (k + 1) - 1 = k /\ k + 1 \in 0 .. n /\ k \in 0 .. n
    OBVIOUS
  <2>2. F(k + 1) = x * G(k) + x * g[k + 1] /\ G(k + 1) = G(k) + g[k + 1]
    BY <1>1, <1>3, <2>1
  <2>3. G(k) \in Int /\ g[k + 1] \in Int
    BY <1>1, <2>1
  <2>4. \A y, z \in Int : x * (y + z) = x * y + x * z
    OBVIOUS
  <2> QED
    BY <2>1, <2>2, <2>3, <2>4
<1>4. n \in S
  <2> HIDE DEF S
  <2>1. \A k \in 0 .. n : k \in S
    BY <1>2, <1>3, UpTo
  <2> QED
    BY <2>1
<1> QED
  BY <1>4 DEF F, G

-----------------------------------------------------------------------------
(* How large a sum or a product gets: the dtype that holds the distances from*)
(* zero of all the values together holds that of any of them.              *)

\* A sum or product is no further from zero than that of the distances.
LEMMA BothMagnitude ==
  ASSUME NEW op, NEW x \in Int, NEW y \in Int, NEW a \in Nat, NEW b \in Nat,
         Abs(x) <= a, Abs(y) <= b
  PROVE  /\ Both(op, a, b) \in Nat /\ Abs(Both(op, x, y)) <= Both(op, a, b)
         /\ (op = "product" => 1 <= b) => a <= Both(op, a, b)
<1>1. CASE op = "product"
  <2>1. Abs(x) \in Nat /\ Abs(y) \in Nat /\ Abs(x * y) = Abs(x) * Abs(y)
    <3>1. \A i, j \in Int : (-i) * j = -(i * j) /\ i * (-j) = -(i * j) /\ (-i) * (-j) = i * j
      OBVIOUS
    <3>2. \A i, j \in Int : (0 <= i /\ 0 <= j => 0 <= i * j) /\ (i < 0 /\ j < 0 => 0 < i * j)
                            /\ (i < 0 /\ 0 <= j => i * j <= 0) /\ (0 <= i /\ j < 0 => i * j <= 0)
      OBVIOUS
    <3>3. x * y \in Int
      OBVIOUS
    <3> QED
      BY <3>1, <3>2, <3>3 DEF Abs
  <2>2. \A i, j, k \in Nat : i <= j => i * k <= j * k /\ k * i <= k * j
    OBVIOUS
  <2>3. Abs(x) * Abs(y) <= a * Abs(y) /\ a * Abs(y) <= a * b
    BY <2>1, <2>2
  <2>4. \A i, j \in Nat : i * j \in Nat /\ i * 1 = i
    OBVIOUS
  <2>5. 1 <= b => a <= a * b
    BY <2>2, <2>4
  <2>6. Abs(x) * Abs(y) \in Nat /\ a * Abs(y) \in Nat /\ a * b \in Nat
    BY <2>1, <2>4
  <2>7. Abs(x * y) <= a * b
    BY <2>1, <2>3, <2>6
  <2> QED
    BY <1>1, <2>5, <2>6, <2>7 DEF Both
<1>2. CASE op # "product"
  BY <1>2 DEF Both, Abs
<1> QED
  BY <1>1, <1>2

\* How far from zero the values may be, place by place, and together.
Within(op, n, R, v) ==
  /\ R \in [1 .. n -> Nat] /\ v \in [1 .. n -> Int]
  /\ \A k \in 1 .. n : Abs(v[k]) <= R[k] /\ (op = "product" => 1 <= R[k])
Bounded(op, n, v, E) == \E R : Within(op, n, R, v) /\ Combined(op, n, R) <= E
LEMMA PartsWithin ==
  ASSUME NEW op, NEW n \in Nat, NEW R, NEW v, Within(op, n, R, v)
  PROVE  /\ \A i \in 0 .. n : /\ Combined(op, i, R) \in Nat
                              /\ (op = "product" => 1 <= Combined(op, i, R))
                              /\ Abs(Combined(op, i, v)) <= Combined(op, i, R)
         /\ \A i \in 0 .. n : Combined(op, i, R) <= Combined(op, n, R)
<1> DEFINE C(i) == Combined(op, i, R)
           D(i) == Combined(op, i, v)
           S == {i \in 0 .. n : /\ C(i) \in Nat /\ (op = "product" => 1 <= C(i))
                                /\ Abs(D(i)) <= C(i)
                                /\ \A j \in 0 .. i : C(j) <= C(i)}
<1>1. R \in [1 .. n -> Int] /\ v \in [1 .. n -> Int]
  BY DEF Within
<1>2. /\ C(0) = Unit(op) /\ D(0) = Unit(op)
      /\ \A i \in 0 .. n : C(i) \in Int /\ D(i) \in Int
      /\ \A i \in 1 .. n : C(i) = Both(op, C(i - 1), R[i]) /\ D(i) = Both(op, D(i - 1), v[i])
  BY <1>1, CombinedSteps
<1> HIDE DEF C, D
<1>3. 0 \in S
  <2>1. C(0) \in Nat /\ (op = "product" => 1 <= C(0)) /\ Abs(D(0)) <= C(0)
    BY <1>2 DEF Unit, Abs
  <2>2. \A j \in 0 .. 0 : C(j) <= C(0)
    BY <2>1
  <2> QED
    BY <2>1, <2>2
<1>4. ASSUME NEW i \in 0 .. (n - 1), i \in S PROVE i + 1 \in S
  <2>1. i + 1 \in 1 .. n /\ (i + 1) - 1 = i /\ i + 1 \in 0 .. n /\ i \in 0 .. n
    OBVIOUS
  <2>2. C(i + 1) = Both(op, C(i), R[i + 1]) /\ D(i + 1) = Both(op, D(i), v[i + 1])
    BY <1>2, <2>1
  <2>3. R[i + 1] \in Nat /\ v[i + 1] \in Int /\ Abs(v[i + 1]) <= R[i + 1] /\ (op = "product" => 1 <= R[i + 1])
    BY <2>1 DEF Within
  <2>4. D(i) \in Int /\ C(i) \in Nat /\ Abs(D(i)) <= C(i) /\ (op = "product" => 1 <= C(i))
    BY <1>2, <1>4, <2>1
  <2>5. C(i + 1) \in Nat /\ Abs(D(i + 1)) <= C(i + 1) /\ C(i) <= C(i + 1)
    BY <2>2, <2>3, <2>4, BothMagnitude
  <2>6. op = "product" => 1 <= C(i + 1)
    BY <2>4, <2>5
  <2>7. \A j \in 0 .. (i + 1) : C(j) <= C(i + 1)
    <3> SUFFICES ASSUME NEW j \in 0 .. (i + 1) PROVE C(j) <= C(i + 1)
      OBVIOUS
    <3>1. j = i + 1 \/ j \in 0 .. i
      OBVIOUS
    <3>2. C(j) \in Int
      BY <1>2, <2>1
    <3>3. j \in 0 .. i => C(j) <= C(i)
      BY <1>4
    <3> QED
      BY <2>4, <2>5, <3>1, <3>2, <3>3
  <2> QED
    BY <2>1, <2>5, <2>6, <2>7
<1> HIDE DEF S
<1>5. \A i \in 0 .. n : i \in S
  BY <1>3, <1>4, UpTo
<1>6. n \in 0 .. n
  OBVIOUS
<1> QED
  BY <1>5, <1>6 DEF S, C, D

\* What is bounded is bounded all the way, in every group, and group by group.
LEMMA BoundedParts ==
  ASSUME NEW op, NEW n \in Nat, NEW E \in Nat, NEW v, Bounded(op, n, v, E)
  PROVE  /\ v \in [1 .. n -> Int]
         /\ \A i \in 0 .. n : Combined(op, i, v) \in Int /\ Abs(Combined(op, i, v)) <= E
<1>1. PICK R : Within(op, n, R, v) /\ Combined(op, n, R) <= E
  BY DEF Bounded
<1>2. v \in [1 .. n -> Int]
  BY <1>1 DEF Within
<1>3. \A i \in 0 .. n : Combined(op, i, v) \in Int
  BY <1>2, CombinedSteps
<1>4. /\ \A i \in 0 .. n : Combined(op, i, R) \in Nat /\ Abs(Combined(op, i, v)) <= Combined(op, i, R)
      /\ \A i \in 0 .. n : Combined(op, i, R) <= Combined(op, n, R)
  BY <1>1, PartsWithin
<1>5. n \in 0 .. n /\ \A i \in Int : Abs(i) \in Int
  BY DEF Abs
<1>6. ASSUME NEW i \in 0 .. n PROVE Abs(Combined(op, i, v)) <= E
  <2>1. Combined(op, i, R) \in Nat /\ Combined(op, n, R) \in Nat /\ Abs(Combined(op, i, v)) \in Int
    BY <1>3, <1>4, <1>5
  <2>2. Abs(Combined(op, i, v)) <= Combined(op, i, R) /\ Combined(op, i, R) <= Combined(op, n, R)
    BY <1>4
  <2> QED
    BY <1>1, <2>1, <2>2
<1> QED
  BY <1>2, <1>3, <1>6
\* Without some of the values, the rest are within the same distances, and within theirs alone.
LEMMA MaskedWithin ==
  ASSUME NEW op, NEW n \in Nat, NEW m \in Nat, NEW T \in [1 .. n -> 1 .. m], NEW R, NEW v,
         Within(op, n, R, v), NEW p
  PROVE  /\ Within(op, n, Masked(op, n, T, R, p), Masked(op, n, T, v, p))
         /\ Within(op, n, R, Masked(op, n, T, v, p))
<1>1. /\ R \in [1 .. n -> Nat] /\ v \in [1 .. n -> Int]
      /\ \A k \in 1 .. n : Abs(v[k]) <= R[k] /\ (op = "product" => 1 <= R[k])
  BY DEF Within
<1>2. /\ Unit(op) \in Nat /\ Abs(Unit(op)) = Unit(op)
      /\ op = "product" => Unit(op) = 1
      /\ op # "product" => Unit(op) = 0
  BY DEF Unit, Abs
<1>3. \A k \in 1 .. n : Abs(Unit(op)) <= R[k] /\ Abs(Unit(op)) <= Unit(op)
  BY <1>1, <1>2
<1>4. Masked(op, n, T, R, p) \in [1 .. n -> Nat] /\ Masked(op, n, T, v, p) \in [1 .. n -> Int]
  BY <1>1, <1>2 DEF Masked
<1>5. \A k \in 1 .. n : /\ Masked(op, n, T, R, p)[k] = IF T[k] = p THEN R[k] ELSE Unit(op)
                        /\ Masked(op, n, T, v, p)[k] = IF T[k] = p THEN v[k] ELSE Unit(op)
  BY DEF Masked
<1>6. \A k \in 1 .. n :
        /\ Abs(Masked(op, n, T, v, p)[k]) <= Masked(op, n, T, R, p)[k]
        /\ op = "product" => 1 <= Masked(op, n, T, R, p)[k]
        /\ Abs(Masked(op, n, T, v, p)[k]) <= R[k]
  BY <1>1, <1>2, <1>3, <1>5
<1> QED
  BY <1>1, <1>4, <1>6 DEF Within
\* Some of the values.
LEMMA BoundedMasked ==
  ASSUME NEW op, NEW n \in Nat, NEW m \in Nat, NEW T \in [1 .. n -> 1 .. m],
         NEW E \in Nat, NEW v, Bounded(op, n, v, E), NEW p
  PROVE  Bounded(op, n, Masked(op, n, T, v, p), E)
<1>1. PICK R : Within(op, n, R, v) /\ Combined(op, n, R) <= E
  BY DEF Bounded
<1>2. Within(op, n, R, Masked(op, n, T, v, p))
  BY <1>1, MaskedWithin
<1> QED
  BY <1>1, <1>2 DEF Bounded
\* All of them, group by group.
LEMMA BoundedGroups ==
  ASSUME NEW op, NEW n \in Nat, NEW m \in Nat, NEW T \in [1 .. n -> 1 .. m],
         NEW E \in Nat, NEW v, Bounded(op, n, v, E)
  PROVE  Bounded(op, m, Group(op, n, m, T, v), E)
<1>1. PICK R : Within(op, n, R, v) /\ Combined(op, n, R) <= E
  BY DEF Bounded
<1>2. R \in [1 .. n -> Int] /\ v \in [1 .. n -> Int]
  BY <1>1 DEF Within
<1> DEFINE g == Group(op, n, m, T, v)
           Q == Group(op, n, m, T, R)
<1>3. g \in [1 .. m -> Int] /\ Q \in [1 .. m -> Int]
  BY <1>2, GroupTypes
<1>4. ASSUME NEW p \in 1 .. m
      PROVE  Q[p] \in Nat /\ (op = "product" => 1 <= Q[p]) /\ Abs(g[p]) <= Q[p]
  <2> DEFINE a == Masked(op, n, T, R, p)
             b == Masked(op, n, T, v, p)
  <2>1. Within(op, n, a, b)
    BY <1>1, MaskedWithin
  <2>2. Q[p] = Combined(op, n, a) /\ g[p] = Combined(op, n, b)
    BY DEF Group
  <2> HIDE DEF a, b, Q, g
  <2>3. n \in 0 .. n
    OBVIOUS
  <2>4. \A i \in 0 .. n : /\ Combined(op, i, a) \in Nat
                          /\ (op = "product" => 1 <= Combined(op, i, a))
                          /\ Abs(Combined(op, i, b)) <= Combined(op, i, a)
    BY <2>1, PartsWithin
  <2> QED
    BY <2>2, <2>3, <2>4
<1>5. Combined(op, m, Q) = Combined(op, n, R)
  BY <1>2, Regroup
<1> HIDE DEF g, Q
<1>6. Q \in [1 .. m -> Nat]
  BY <1>3, <1>4
<1>7. Within(op, m, Q, g)
  BY <1>3, <1>4, <1>6 DEF Within
<1>8. Bounded(op, m, g, E)
  BY <1>1, <1>5, <1>7 DEF Bounded
<1> QED
  BY <1>8 DEF g

\* The precondition of the properties is such a bound.
Limit(dtype) == IF dtype = "f32" THEN F32Exact ELSE F64Exact
LEMMA ExactIsBounded ==
  ASSUME NEW t, IsTensor(t), NEW op, Exact(op, t)
  PROVE  /\ t.dtype \in Float /\ Limit(t.dtype) \in Nat
         /\ Bounded(op, Size(t.shape), t.values, Limit(t.dtype))
<1> DEFINE n == Size(t.shape)
           v == t.values
           R == [k \in 1 .. n |-> Reach(op, v[k])]
<1>1. n \in Nat /\ Len(v) = n /\ v \in [1 .. n -> Held(t.dtype)] /\ Held(t.dtype) \subseteq Int
  BY TensorParts, HeldTypes
<1>2. t.dtype \in Float /\ Limit(t.dtype) \in Nat
  BY WidthAssumption DEF Exact, Limit
<1>3. Combined(op, n, R) <= Limit(t.dtype)
  <2>1. [k \in 1 .. Len(t.values) |-> Reach(op, t.values[k])] = R
    BY <1>1
  <2> HIDE DEF R, n
  <2> QED
    BY <1>1, <2>1 DEF Exact, Limit
<1>4. v \in [1 .. n -> Int]
  <2> HIDE DEF v, n
  <2> QED
    BY <1>1
<1>5. \A k \in 1 .. n : R[k] \in Nat /\ Abs(v[k]) <= R[k] /\ (op = "product" => 1 <= R[k])
  <2>1. \A x \in Int : Reach(op, x) \in Nat /\ Abs(x) <= Reach(op, x) /\ (op = "product" => 1 <= Reach(op, x))
    BY DEF Reach, Abs
  <2> HIDE DEF v, n
  <2> QED
    BY <1>4, <2>1
<1> HIDE DEF v, n
<1>6. R \in [1 .. n -> Nat]
  BY <1>5
<1> HIDE DEF R
<1>7. Within(op, n, R, v)
  BY <1>4, <1>5, <1>6 DEF Within
<1> QED
  BY <1>2, <1>3, <1>7 DEF Bounded, n, v

-----------------------------------------------------------------------------
(* What a reduction comes to, at every place.                              *)

\* At the end of a run, a result holds the sum or product of what fell on it.
Adding(op) == op \in {"sum", "product"}
TotalAt(a, n, T, v, o, op) ==
  a[n][o].initialized => AccumFinalize(a[n][o], op) = Combined(op, n, Masked(op, n, T, v, o))
LEMMA RunsTotal ==
  ASSUME NEW n \in Nat, NEW m \in Nat, NEW T \in [1 .. n -> 1 .. m], NEW v \in [1 .. n -> Int],
         NEW a \in [0 .. n -> [1 .. m -> Accums]], Runs(a, n, m, T, v), NEW o \in 1 .. m,
         NEW op, Adding(op), Bounded(op, n, v, F64Exact)
  PROVE  TotalAt(a, n, T, v, o, op)
<1> DEFINE g == Masked(op, n, T, v, o)
           C(i) == Combined(op, i, g)
           S == {i \in 0 .. n : IF a[i][o].initialized
                                THEN AccumFinalize(a[i][o], op) = C(i) ELSE C(i) = Unit(op)}
<1>1. F64Exact \in Nat /\ 0 < F64Exact /\ Wide \subseteq Int
  BY WidthAssumption, Widths
<1>2. g \in [1 .. n -> Int] /\ \A i \in 0 .. n : C(i) \in Int /\ Abs(C(i)) <= F64Exact
  BY <1>1, BoundedMasked, BoundedParts
<1>3. \A i \in 1 .. n : g[i] = IF T[i] = o THEN v[i] ELSE Unit(op)
  BY DEF Masked
<1>4. C(0) = Unit(op) /\ \A i \in 1 .. n : C(i) = Both(op, C(i - 1), g[i])
  BY <1>2, CombinedSteps
<1> HIDE DEF g, C
<1>5. 0 \in S
  <2>1. a[0][o] = FreshAccum
    BY DEF Runs
  <2> QED
    BY <1>4, <2>1 DEF FreshAccum
<1>6. ASSUME NEW i \in 0 .. (n - 1), i \in S PROVE i + 1 \in S
  <2>1. i + 1 \in 1 .. n /\ i + 1 \in 0 .. n /\ i \in 0 .. n /\ (i + 1) - 1 = i
    OBVIOUS
  <2>2. a[i + 1] = [a[i] EXCEPT ![T[i + 1]] = AccumUpdate(@, v[i + 1])]
    BY <2>1 DEF Runs
  <2>3. a[i] \in [1 .. m -> Accums] /\ a[i][o] \in Accums
    BY <2>1
  <2>4. C(i + 1) = Both(op, C(i), g[i + 1]) /\ C(i) \in Int /\ v[i + 1] \in Int
    BY <1>2, <1>4, <2>1
  <2> DEFINE old == a[i][o]
             new == a[i + 1][o]
  <2>5. IF old.initialized THEN AccumFinalize(old, op) = C(i) ELSE C(i) = Unit(op)
    BY <1>6
  <2>6. CASE T[i + 1] = o
    <3>1. new = AccumUpdate(old, v[i + 1]) /\ g[i + 1] = v[i + 1]
      BY <1>3, <2>1, <2>2, <2>3, <2>6
    <3>2. old \in Accums
      BY <2>3
    <3>3. F64(C(i + 1)) = C(i + 1)
      BY <1>1, <1>2, <2>1, RoundStable DEF F64
    <3> HIDE DEF old, new
    <3>4. CASE old.initialized
      <4>1. new.initialized /\ new.sum = F64(old.sum + v[i + 1]) /\ new.product = F64(old.product * v[i + 1])
        BY <3>1, <3>2, <3>4 DEF AccumUpdate, Accums
      <4>2. AccumFinalize(new, op) = F64(Both(op, AccumFinalize(old, op), v[i + 1]))
        <5>1. CASE op = "sum"
          BY <4>1, <5>1 DEF AccumFinalize, Both
        <5>2. CASE op = "product"
          BY <4>1, <5>2 DEF AccumFinalize, Both
        <5> QED
          BY <5>1, <5>2 DEF Adding
      <4>3. AccumFinalize(new, op) = C(i + 1)
        BY <2>4, <2>5, <3>1, <3>3, <3>4, <4>2
      <4> QED
        BY <2>1, <4>1, <4>3 DEF new
    <3>5. CASE ~old.initialized
      <4>1. new.initialized /\ new.sum = v[i + 1] /\ new.product = v[i + 1]
        BY <3>1, <3>5 DEF AccumUpdate
      <4>2. AccumFinalize(new, op) = v[i + 1]
        BY <4>1 DEF AccumFinalize, Adding
      <4>3. C(i + 1) = v[i + 1]
        BY <2>4, <2>5, <3>1, <3>5, BothUnit
      <4> QED
        BY <2>1, <4>1, <4>2, <4>3 DEF new
    <3> QED
      BY <3>4, <3>5
  <2>7. CASE T[i + 1] # o
    <3>1. new = old /\ g[i + 1] = Unit(op)
      BY <1>3, <2>1, <2>2, <2>3, <2>7
    <3>2. C(i + 1) = C(i)
      BY <2>4, <3>1, BothUnit
    <3> QED
      BY <2>1, <2>5, <3>1, <3>2
  <2> QED
    BY <2>6, <2>7
<1> HIDE DEF S
<1>7. \A i \in 0 .. n : i \in S
  BY <1>5, <1>6, UpTo
<1>8. n \in S
  BY <1>7
<1> QED
  BY <1>8 DEF S, C, g, TotalAt

\* What a reduction comes to at every place: the extreme, or the sum or product, of
\* the values that fall on it.
ExtremeOf(op, n, T, v, p, x) ==
  /\ \E k \in Falling(T, n, p) : x = v[k]
  /\ \A k \in Falling(T, n, p) : IF op = "min" THEN x <= v[k] ELSE v[k] <= x
Result(op, n, m, T, v) ==
  IF op \in {"min", "max"} THEN [p \in 1 .. m |-> CHOOSE x : ExtremeOf(op, n, T, v, p, x)]
  ELSE Group(op, n, m, T, v)
Covers(T, n, m) == \A p \in 1 .. m : Falling(T, n, p) # {}
Safe(op, n, v, E) == Adding(op) => Bounded(op, n, v, E)

\* There is only one extreme.
LEMMA OneExtreme ==
  ASSUME NEW op \in {"min", "max"}, NEW n \in Nat, NEW T, NEW v \in [1 .. n -> Int], NEW p,
         NEW x, NEW y, ExtremeOf(op, n, T, v, p, x), ExtremeOf(op, n, T, v, p, y)
  PROVE  x = y
<1>1. PICK j \in 1 .. n : T[j] = p /\ x = v[j]
  BY DEF ExtremeOf, Falling
<1>2. PICK k \in 1 .. n : T[k] = p /\ y = v[k]
  BY DEF ExtremeOf, Falling
<1>3. /\ IF op = "min" THEN x <= v[k] ELSE v[k] <= x
      /\ IF op = "min" THEN y <= v[j] ELSE v[j] <= y
  BY <1>1, <1>2 DEF ExtremeOf, Falling
<1>4. v[j] \in Int /\ v[k] \in Int
  OBVIOUS
<1> QED
  BY <1>1, <1>2, <1>3, <1>4
\* So it is the one chosen.
LEMMA TheExtreme ==
  ASSUME NEW op \in {"min", "max"}, NEW n \in Nat, NEW T, NEW v \in [1 .. n -> Int], NEW p,
         NEW x, ExtremeOf(op, n, T, v, p, x)
  PROVE  (CHOOSE y : ExtremeOf(op, n, T, v, p, y)) = x
<1>1. ExtremeOf(op, n, T, v, p, CHOOSE y : ExtremeOf(op, n, T, v, p, y))
  OBVIOUS
<1> QED
  BY <1>1, OneExtreme

\* Where something falls there is an extreme.
LEMMA ExtremeExists ==
  ASSUME NEW op \in {"min", "max"}, NEW n \in Nat, NEW T, NEW v \in [1 .. n -> Int], NEW p,
         Falling(T, n, p) # {}
  PROVE  \E x : ExtremeOf(op, n, T, v, p, x)
<1> DEFINE S == {i \in 0 .. n : Falling(T, i, p) # {} => \E x : ExtremeOf(op, i, T, v, p, x)}
<1>1. 0 \in S
  BY DEF Falling
<1>2. ASSUME NEW i \in 0 .. (n - 1), i \in S PROVE i + 1 \in S
  <2>1. i + 1 \in 1 .. n /\ i + 1 \in 0 .. n /\ i \in 0 .. n
    OBVIOUS
  <2>2. v[i + 1] \in Int /\ \A k \in Falling(T, i, p) : v[k] \in Int
    BY <2>1 DEF Falling
  <2>3. Falling(T, i + 1, p) = IF T[i + 1] = p THEN Falling(T, i, p) \cup {i + 1} ELSE Falling(T, i, p)
    BY <2>1 DEF Falling
  <2>4. CASE T[i + 1] # p
    BY <1>2, <2>1, <2>3, <2>4 DEF ExtremeOf
  <2>5. CASE T[i + 1] = p /\ Falling(T, i, p) = {}
    <3>1. ExtremeOf(op, i + 1, T, v, p, v[i + 1])
      BY <2>2, <2>3, <2>5 DEF ExtremeOf
    <3> QED
      BY <2>1, <3>1
  <2>6. CASE T[i + 1] = p /\ Falling(T, i, p) # {}
    <3>1. PICK y : ExtremeOf(op, i, T, v, p, y)
      BY <1>2, <2>6
    <3> DEFINE w == v[i + 1]
               x == IF op = "min" THEN (IF y <= w THEN y ELSE w) ELSE (IF w <= y THEN y ELSE w)
    <3>2. y \in Int /\ w \in Int
      BY <2>2, <3>1 DEF ExtremeOf
    <3>3. x \in Int /\ x \in {y, w} /\ (IF op = "min" THEN x <= y /\ x <= w ELSE y <= x /\ w <= x)
      BY <3>2
    <3> HIDE DEF x, w
    <3>4. \E k \in Falling(T, i + 1, p) : x = v[k]
      BY <2>3, <2>6, <3>1, <3>3 DEF ExtremeOf, w
    <3>5. \A k \in Falling(T, i, p) : IF op = "min" THEN x <= v[k] ELSE v[k] <= x
      BY <2>2, <3>1, <3>2, <3>3 DEF ExtremeOf
    <3>6. \A k \in Falling(T, i + 1, p) : IF op = "min" THEN x <= v[k] ELSE v[k] <= x
      BY <2>3, <2>6, <3>3, <3>5 DEF w
    <3> QED
      BY <2>1, <3>4, <3>6 DEF ExtremeOf
  <2> QED
    BY <2>4, <2>5, <2>6
<1> HIDE DEF S
<1>3. \A i \in 0 .. n : i \in S
  BY <1>1, <1>2, UpTo
<1>4. n \in S
  BY <1>3
<1> QED
  BY <1>4 DEF S

\* A run comes to the result.
LEMMA RunsResult ==
  ASSUME NEW n \in Nat, NEW m \in Nat, NEW T \in [1 .. n -> 1 .. m], NEW v \in [1 .. n -> Int],
         NEW a \in [0 .. n -> [1 .. m -> Accums]], Runs(a, n, m, T, v), Covers(T, n, m),
         NEW op \in ReduceOp, Safe(op, n, v, F64Exact)
  PROVE  [p \in 1 .. m |-> AccumFinalize(a[n][p], op)] = Result(op, n, m, T, v)
<1>1. ASSUME NEW p \in 1 .. m PROVE Met(a[n][p], n, v, Falling(T, n, p)) /\ a[n][p].initialized
  <2>1. Met(a[n][p], n, v, Falling(T, n, p))
    BY RunsMeet
  <2> QED
    BY <2>1 DEF Met, Covers
<1>2. CASE op \in {"min", "max"}
  <2>1. ASSUME NEW p \in 1 .. m
        PROVE  AccumFinalize(a[n][p], op) = CHOOSE x : ExtremeOf(op, n, T, v, p, x)
    <3> DEFINE x == AccumFinalize(a[n][p], op)
    <3>1. x = IF op = "min" THEN a[n][p].min ELSE a[n][p].max
      BY <1>2 DEF AccumFinalize
    <3>2. Falling(T, n, p) # {}
      BY DEF Covers
    <3> HIDE DEF x
    <3>3. ExtremeOf(op, n, T, v, p, x)
      BY <1>1, <1>2, <3>1, <3>2 DEF Met, ExtremeOf
    <3>4. (CHOOSE y : ExtremeOf(op, n, T, v, p, y)) = x
      BY <1>2, <3>3, TheExtreme
    <3> QED
      BY <3>4 DEF x
  <2> QED
    BY <1>2, <2>1 DEF Result
<1>3. CASE Adding(op)
  <2>1. op \notin {"min", "max"} /\ Bounded(op, n, v, F64Exact)
    BY <1>3 DEF Safe, Adding
  <2>2. ASSUME NEW p \in 1 .. m
        PROVE  AccumFinalize(a[n][p], op) = Combined(op, n, Masked(op, n, T, v, p))
    <3>1. a[n][p].initialized
      BY <1>1
    <3>2. Adding(op) /\ Bounded(op, n, v, F64Exact)
      BY <1>3, <2>1
    <3>3. TotalAt(a, n, T, v, p, op)
      BY <3>2, RunsTotal
    <3> QED
      BY <3>1, <3>3 DEF TotalAt
  <2> QED
    BY <2>1, <2>2 DEF Result, Group
<1> QED
  BY <1>2, <1>3 DEF ReduceOp, Adding

\* The dtype that holds the sums or products of all the values holds every result.
LEMMA ResultHeld ==
  ASSUME NEW d \in Float, NEW n \in Nat, NEW m \in Nat, NEW T \in [1 .. n -> 1 .. m],
         NEW v \in [1 .. n -> Held(d)], Covers(T, n, m), NEW op \in ReduceOp,
         Safe(op, n, v, Limit(d))
  PROVE  Result(op, n, m, T, v) \in [1 .. m -> Held(d)]
<1>1. d \in Dtype /\ Held(d) \subseteq Int
  BY HeldTypes DEF Float, Dtype
<1>2. v \in [1 .. n -> Int]
  BY <1>1
<1>3. CASE op \in {"min", "max"}
  <2>1. ASSUME NEW p \in 1 .. m
        PROVE  (CHOOSE x : ExtremeOf(op, n, T, v, p, x)) \in Held(d)
    <3>1. PICK x : ExtremeOf(op, n, T, v, p, x)
      BY <1>2, <1>3, ExtremeExists DEF Covers
    <3>2. x \in Held(d)
      BY <3>1 DEF ExtremeOf, Falling
    <3>3. (CHOOSE y : ExtremeOf(op, n, T, v, p, y)) = x
      BY <1>2, <1>3, <3>1, TheExtreme
    <3> QED
      BY <3>2, <3>3
  <2> QED
    BY <1>3, <2>1 DEF Result
<1>4. CASE Adding(op)
  <2>1. Bounded(op, n, v, Limit(d)) /\ op \notin {"min", "max"}
    BY <1>4 DEF Safe, Adding
  <2>2. Limit(d) \in Nat /\ 0 < Limit(d) /\ Held(d) = Representable(Limit(d))
    BY WidthAssumption DEF Limit, Held, Float
  <2>3. Bounded(op, m, Group(op, n, m, T, v), Limit(d))
    BY <2>1, <2>2, BoundedGroups
  <2>4. ASSUME NEW p \in 1 .. m PROVE Group(op, n, m, T, v)[p] \in Held(d)
    <3> DEFINE g == Masked(op, n, T, v, p)
    <3>1. Bounded(op, n, g, Limit(d))
      BY <2>1, <2>2, BoundedMasked
    <3> HIDE DEF g
    <3>2. n \in 0 .. n
      OBVIOUS
    <3>3. Combined(op, n, g) \in Int /\ Abs(Combined(op, n, g)) <= Limit(d)
      BY <2>2, <3>1, <3>2, BoundedParts
    <3>4. Combined(op, n, g) \in Representable(Limit(d))
      BY <2>2, <3>3, RoundStable
    <3>5. Group(op, n, m, T, v)[p] = Combined(op, n, g)
      BY DEF Group, g
    <3> QED
      BY <2>2, <3>4, <3>5
  <2>5. Group(op, n, m, T, v) \in [1 .. m -> Int]
    BY <1>2, GroupTypes
  <2>6. Group(op, n, m, T, v) \in [1 .. m -> Held(d)]
    BY <2>4, <2>5
  <2> QED
    BY <2>1, <2>6 DEF Result
<1> QED
  BY <1>3, <1>4 DEF ReduceOp, Adding

\* Where each value of a tensor falls, and what a reduction of floats answers when
\* the dtype holds its results.
Targets(s, axes, keepdims) ==
  [k \in 1 .. Size(s) |-> CoordOffset(ReducedShape(s, axes, keepdims),
                                      ReducedCoord(Unravel(k - 1, s), axes, keepdims)) + 1]
ResultOf(t, op, axes, keepdims) ==
  Result(op, Size(t.shape), Size(ReducedShape(t.shape, axes, keepdims)),
         Targets(t.shape, axes, keepdims), t.values)
Reducible(t, op, axes) ==
  /\ IsTensor(t) /\ t.dtype \in Float /\ t.values # <<>> /\ op \in ReduceOp
  /\ axes \subseteq AxesOf(t)
  /\ Safe(op, Size(t.shape), t.values, Limit(t.dtype))
\* Every place of the output is one some place of the input falls on.
LEMMA TargetsCover ==
  ASSUME NEW s \in Shapes, 0 < Size(s), NEW axes, NEW keepdims \in BOOLEAN
  PROVE  LET n == Size(s)
             m == Size(ReducedShape(s, axes, keepdims))
             T == Targets(s, axes, keepdims)
         IN n \in Nat /\ m \in Nat /\ T \in [1 .. n -> 1 .. m] /\ Covers(T, n, m)
<1> DEFINE n == Size(s)
           out == ReducedShape(s, axes, keepdims)
           m == Size(out)
           T == Targets(s, axes, keepdims)
<1>1. out \in Shapes /\ n \in Nat /\ m \in Nat
  BY ReducedFits, SizeIsBlocks
<1>2. ASSUME NEW k \in 1 .. n PROVE T[k] \in 1 .. m
  <2>1. k - 1 \in 0 .. (n - 1)
    BY <1>1
  <2>2. Unravel(k - 1, s) \in Coordinates(s)
    BY <2>1, UnravelIsDivMod
  <2>3. ReducedCoord(Unravel(k - 1, s), axes, keepdims) \in Coordinates(out)
    BY <2>2, ReducedFits
  <2>4. CoordOffset(out, ReducedCoord(Unravel(k - 1, s), axes, keepdims)) + 1 \in 1 .. m
    BY <1>1, <2>3, PlaceOfCoordinate
  <2> QED
    BY <2>4 DEF Targets
<1>3. T \in [1 .. n -> 1 .. m]
  BY <1>2 DEF Targets
<1>4. ASSUME NEW p \in 1 .. m PROVE Falling(T, n, p) # {}
  <2> DEFINE o == Unravel(p - 1, out)
  <2>1. p - 1 \in 0 .. (m - 1) /\ (p - 1) + 1 = p
    BY <1>1
  <2>2. o \in Coordinates(out) /\ CoordOffset(out, o) = p - 1
    BY <1>1, <2>1, UnravelIsDivMod, OffsetOfUnravel
  <2> HIDE DEF o
  <2>3. PICK c \in Coordinates(s) : ReducedCoord(c, axes, keepdims) = o
    BY <2>2, SomethingFalls
  <2>4. CoordOffset(s, c) + 1 \in 1 .. n /\ Unravel((CoordOffset(s, c) + 1) - 1, s) = c
    BY <2>3, PlaceOfCoordinate
  <2> DEFINE k == CoordOffset(s, c) + 1
  <2>5. k \in 1 .. n /\ Unravel(k - 1, s) = c
    BY <2>4
  <2> HIDE DEF k
  <2>6. T[k] = p
    BY <2>1, <2>2, <2>3, <2>5 DEF Targets
  <2> QED
    BY <2>5, <2>6 DEF Falling
<1> QED
  BY <1>1, <1>3, <1>4 DEF Covers

\* What is reducible, part by part.
LEMMA ReducibleParts ==
  ASSUME NEW t, NEW op, NEW axes, Reducible(t, op, axes)
  PROVE  /\ t.dtype \in Dtype /\ t.shape \in Shapes /\ Size(t.shape) \in Nat /\ 0 < Size(t.shape)
         /\ t.values \in [1 .. Size(t.shape) -> Held(t.dtype)]
         /\ t.values \in [1 .. Size(t.shape) -> Int] /\ Held(t.dtype) \subseteq Int
         /\ ValuesF64(t) = t.values
         /\ ~(\E x \in axes : x >= Len(t.shape))
<1> DEFINE n == Size(t.shape)
           v == t.values
<1>0. IsTensor(t) /\ t.dtype \in Float /\ v # <<>> /\ axes \subseteq AxesOf(t)
  BY DEF Reducible
<1>1. /\ t.dtype \in Dtype /\ t.shape \in Shapes /\ n \in Nat /\ Len(v) = n
      /\ v \in [1 .. n -> Held(t.dtype)]
  BY <1>0, TensorParts
<1>2. ValuesF64(t) = v
  BY <1>0, ValuesF64Wide DEF Float
<1>3. Held(t.dtype) \subseteq Int
  BY <1>1, HeldTypes
<1>4. v \in Seq(Int)
  BY <1>0 DEF IsTensor
<1> HIDE DEF n, v
<1>5. 0 < n
  <2>1. Len(v) # 0
    BY <1>0, <1>4
  <2> QED
    BY <1>1, <2>1
<1>6. v \in [1 .. n -> Int]
  BY <1>1, <1>3
<1>7. ~(\E x \in axes : x >= Len(t.shape))
  <2>1. \A x \in axes : \E i \in 1 .. Len(t.shape) : x = i - 1
    BY <1>0, <1>1, ShapeLength DEF AxesOf
  <2>2. Len(t.shape) \in Nat
    BY <1>1, ShapeLength
  <2> QED
    BY <2>1, <2>2
<1> QED
  BY <1>1, <1>2, <1>3, <1>5, <1>6, <1>7 DEF n, v

IsReduced(t, op, axes, keepdims) ==
  LET out == ReducedShape(t.shape, axes, keepdims)
      r == ResultOf(t, op, axes, keepdims)
  IN /\ out \in Shapes /\ Size(out) \in Nat /\ 0 < Size(out)
     /\ r \in [1 .. Size(out) -> Held(t.dtype)]
     /\ ReduceAxes(t, op, axes, keepdims)
          = IF out = <<>> THEN Scalar(r[1])
            ELSE [dtype |-> t.dtype, shape |-> out, values |-> r]
     /\ out # <<>> => IsTensor(ReduceAxes(t, op, axes, keepdims))
\* The run of a reduction is over the targets.
RunOver(t, op, axes, keepdims) ==
  LET n == Size(t.shape)
      out == ReducedShape(t.shape, axes, keepdims)
      m == Size(out)
      T == Targets(t.shape, axes, keepdims)
  IN \E a \in [0 .. n -> [1 .. m -> Accums]] :
       /\ Runs(a, n, m, T, t.values)
       /\ ReduceAxes(t, op, axes, keepdims)
            = IF out = <<>> THEN Scalar(AccumFinalize(a[n][1], op))
              ELSE FromF64Like(t.dtype, out, [o \in 1 .. m |-> AccumFinalize(a[n][o], op)])
\* The loop of a reduction is such a run.
LEMMA ReductionRuns ==
  ASSUME NEW t, NEW op, NEW axes, NEW keepdims \in BOOLEAN, Reducible(t, op, axes)
  PROVE  RunOver(t, op, axes, keepdims)
<1> DEFINE n == Size(t.shape)
           out == ReducedShape(t.shape, axes, keepdims)
           m == Size(out)
           T == Targets(t.shape, axes, keepdims)
<1>1. IsTensor(t) /\ op \in ReduceOp /\ t.values # <<>>
  BY DEF Reducible
<1>2. ValuesF64(t) = t.values /\ ~(\E x \in axes : x >= Len(t.shape)) /\ Size(t.shape) \in Nat
  BY ReducibleParts
<1>3. PICK U, a : IsReduction(t, op, axes, keepdims, U, a)
  BY <1>1, ReduceMeans
<1>4. /\ U \in [1 .. n -> 1 .. m]
      /\ \A k \in 1 .. n : U[k] = CoordOffset(out, ReducedCoord(Unravel(k - 1, t.shape), axes, keepdims)) + 1
      /\ a \in [0 .. n -> [1 .. m -> Accums]]
      /\ Runs(a, n, m, U, t.values)
  BY <1>2, <1>3 DEF IsReduction
<1>5. ReduceAxes(t, op, axes, keepdims)
        = IF out = <<>> THEN Scalar(AccumFinalize(a[n][1], op))
          ELSE FromF64Like(t.dtype, out, [o \in 1 .. m |-> AccumFinalize(a[n][o], op)])
  BY <1>1, <1>2, <1>3 DEF IsReduction
<1>6. U = T
  BY <1>4 DEF Targets
<1> QED
  BY <1>4, <1>5, <1>6 DEF RunOver
\* A reduction of floats answers its result unrounded.
LEMMA ReduceExact ==
  ASSUME NEW t, NEW op, NEW axes, NEW keepdims \in BOOLEAN, Reducible(t, op, axes)
  PROVE  IsReduced(t, op, axes, keepdims)
<1> DEFINE s == t.shape
           n == Size(s)
           v == t.values
           out == ReducedShape(s, axes, keepdims)
           m == Size(out)
           T == Targets(s, axes, keepdims)
           d == t.dtype
           r == Result(op, n, m, T, v)
           res == ReduceAxes(t, op, axes, keepdims)
<1>1. d \in Float /\ op \in ReduceOp /\ Safe(op, n, v, Limit(d))
  BY DEF Reducible
<1>2. s \in Shapes /\ n \in Nat /\ 0 < n /\ v \in [1 .. n -> Held(d)] /\ v \in [1 .. n -> Int]
  BY ReducibleParts
<1>3. out \in Shapes
  BY <1>2, ReducedFits
<1>4. m \in Nat /\ T \in [1 .. n -> 1 .. m] /\ Covers(T, n, m)
  BY <1>2, TargetsCover
<1>5. PICK a \in [0 .. n -> [1 .. m -> Accums]] :
        /\ Runs(a, n, m, T, v)
        /\ res = IF out = <<>> THEN Scalar(AccumFinalize(a[n][1], op))
                 ELSE FromF64Like(d, out, [o \in 1 .. m |-> AccumFinalize(a[n][o], op)])
  <2>1. RunOver(t, op, axes, keepdims)
    BY ReductionRuns
  <2> QED
    BY <2>1 DEF RunOver
<1>6. 0 < m
  <2>1. 1 \in 1 .. n
    BY <1>2
  <2>2. T[1] \in 1 .. m
    BY <1>4, <2>1
  <2> QED
    BY <1>4, <2>2
<1> DEFINE total == [o \in 1 .. m |-> AccumFinalize(a[n][o], op)]
<1> HIDE DEF s, n, v, m, T, d
<1>7. Safe(op, n, v, F64Exact)
  <2>1. Limit(d) \in Nat /\ F64Exact \in Nat /\ Limit(d) <= F64Exact
    BY WidthAssumption DEF Limit
  <2>2. SUFFICES ASSUME Bounded(op, n, v, Limit(d)) PROVE Bounded(op, n, v, F64Exact)
    BY <1>1 DEF Safe
  <2>3. PICK R : Within(op, n, R, v) /\ Combined(op, n, R) <= Limit(d)
    BY <2>2 DEF Bounded
  <2>4. Combined(op, n, R) \in Nat
    <3>1. n \in 0 .. n
      BY <1>2
    <3> QED
      BY <1>2, <2>3, <3>1, PartsWithin
  <2>5. Combined(op, n, R) <= F64Exact
    BY <2>1, <2>3, <2>4
  <2> QED
    BY <2>3, <2>5 DEF Bounded
<1>8. total = r
  <2> HIDE DEF r
  <2> QED
    BY <1>1, <1>2, <1>4, <1>5, <1>7, RunsResult, ZenonT(40) DEF r
<1>9. r \in [1 .. m -> Held(d)]
  <2> HIDE DEF r
  <2> QED
    BY <1>1, <1>2, <1>4, ResultHeld DEF r
<1>10. r = ResultOf(t, op, axes, keepdims)
  BY DEF ResultOf, s, n, v, m, T
<1> HIDE DEF total, r, res
<1>11. 1 \in 1 .. m
  BY <1>4, <1>6
<1>12. AccumFinalize(a[n][1], op) = r[1]
  <2>1. total[1] = AccumFinalize(a[n][1], op)
    BY <1>11 DEF total
  <2> QED
    BY <1>8, <2>1
<1>13. res = IF out = <<>> THEN Scalar(r[1]) ELSE FromF64Like(d, out, r)
  BY <1>5, <1>8, <1>12 DEF total
<1>14. /\ FromF64Like(d, out, r) = [dtype |-> d, shape |-> out, values |-> r]
       /\ IsTensor([dtype |-> d, shape |-> out, values |-> r])
  BY <1>1, <1>3, <1>9, FloatsAreExact DEF m
<1> QED
  BY <1>3, <1>4, <1>6, <1>9, <1>10, <1>13, <1>14 DEF IsReduced, res, m, s, d

-----------------------------------------------------------------------------
(* One reduction after another.                                            *)

\* The result at a place is the extreme.
LEMMA ResultIsExtreme ==
  ASSUME NEW op \in {"min", "max"}, NEW n \in Nat, NEW m \in Nat, NEW T,
         NEW v \in [1 .. n -> Int], Covers(T, n, m), NEW p \in 1 .. m
  PROVE  ExtremeOf(op, n, T, v, p, Result(op, n, m, T, v)[p])
<1>1. PICK x : ExtremeOf(op, n, T, v, p, x)
  BY ExtremeExists DEF Covers
<1>2. (CHOOSE y : ExtremeOf(op, n, T, v, p, y)) = x
  BY <1>1, TheExtreme
<1> QED
  BY <1>1, <1>2 DEF Result

\* Reducing what a reduction came to is reducing once, to where the two steps lead.
LEMMA ResultTwice ==
  ASSUME NEW op \in ReduceOp, NEW n \in Nat, NEW m \in Nat, NEW l \in Nat,
         NEW T \in [1 .. n -> 1 .. m], NEW U \in [1 .. m -> 1 .. l], NEW v \in [1 .. n -> Int],
         Covers(T, n, m), Covers(U, m, l), Result(op, n, m, T, v) \in [1 .. m -> Int]
  PROVE  Result(op, m, l, U, Result(op, n, m, T, v)) = Result(op, n, l, Through(n, T, U), v)
<1> DEFINE r == Result(op, n, m, T, v)
           V == Through(n, T, U)
<1>1. CASE op \notin {"min", "max"}
  <2> DEFINE g == Group(op, n, m, T, v)
  <2>1. r = g /\ Result(op, n, l, V, v) = Group(op, n, l, V, v)
    BY <1>1 DEF Result
  <2>2. Group(op, m, l, U, g) = Group(op, n, l, V, v)
    BY GroupsOfGroups, ZenonT(40)
  <2> HIDE DEF g, V, r
  <2>3. Result(op, m, l, U, g) = Group(op, m, l, U, g)
    BY <1>1 DEF Result
  <2>4. Result(op, m, l, U, r) = Result(op, n, l, V, v)
    BY <2>1, <2>2, <2>3
  <2> QED
    BY <2>4 DEF r, V
<1>2. CASE op \in {"min", "max"}
  <2>1. ASSUME NEW p \in 1 .. l
        PROVE  (CHOOSE x : ExtremeOf(op, m, U, r, p, x)) = CHOOSE x : ExtremeOf(op, n, V, v, p, x)
    <3>1. r \in [1 .. m -> Int]
      OBVIOUS
    <3>2. \A q \in 1 .. m : ExtremeOf(op, n, T, v, q, r[q])
      BY <1>2, ResultIsExtreme
    <3>3. \A k \in 1 .. n : V[k] = U[T[k]] /\ T[k] \in 1 .. m /\ v[k] \in Int
      BY DEF Through
    <3> HIDE DEF r, V
    <3>4. PICK x : ExtremeOf(op, m, U, r, p, x)
      BY <1>2, <3>1, ExtremeExists DEF Covers
    <3>5. PICK q \in 1 .. m : U[q] = p /\ x = r[q]
      BY <3>4 DEF ExtremeOf, Falling
    <3>6. PICK k \in 1 .. n : T[k] = q /\ r[q] = v[k]
      BY <3>2, <3>5 DEF ExtremeOf, Falling
    <3>7. k \in Falling(V, n, p) /\ x = v[k]
      BY <3>3, <3>5, <3>6 DEF Falling
    <3>8. ASSUME NEW j \in Falling(V, n, p)
          PROVE  IF op = "min" THEN x <= v[j] ELSE v[j] <= x
      <4>1. j \in 1 .. n /\ V[j] = p
        BY DEF Falling
      <4>2. T[j] \in Falling(U, m, p) /\ j \in Falling(T, n, T[j])
        BY <3>3, <4>1 DEF Falling
      <4>3. IF op = "min" THEN x <= r[T[j]] ELSE r[T[j]] <= x
        BY <3>4, <4>2 DEF ExtremeOf
      <4>4. IF op = "min" THEN r[T[j]] <= v[j] ELSE v[j] <= r[T[j]]
        BY <3>2, <3>3, <4>1, <4>2 DEF ExtremeOf
      <4>5. x \in Int /\ r[T[j]] \in Int /\ v[j] \in Int
        BY <3>1, <3>3, <3>5, <4>1
      <4> QED
        BY <4>3, <4>4, <4>5
    <3>9. ExtremeOf(op, n, V, v, p, x)
      BY <3>7, <3>8 DEF ExtremeOf
    <3>10. (CHOOSE y : ExtremeOf(op, n, V, v, p, y)) = x
      BY <1>2, <3>9, TheExtreme
    <3>11. (CHOOSE y : ExtremeOf(op, m, U, r, p, y)) = x
      BY <1>2, <3>1, <3>4, TheExtreme
    <3> QED
      BY <3>10, <3>11
  <2> HIDE DEF r, V
  <2>2. Result(op, m, l, U, r) = Result(op, n, l, V, v)
    BY <1>2, <2>1 DEF Result
  <2> QED
    BY <2>2 DEF r, V
<1> QED
  BY <1>1, <1>2

\* Two sets of axes, reduced one after the other, lead where both at once do.
LeadsTo(s, a, s1, b, c) ==
  /\ s1 \in Shapes /\ Len(s1) = Len(s)
  /\ ReducedShape(s1, b, TRUE) = ReducedShape(s, c, TRUE)
  /\ Through(Size(s), Targets(s, a, TRUE), Targets(s1, b, TRUE)) = Targets(s, c, TRUE)
LEMMA AxesTwice ==
  ASSUME NEW s \in Shapes, 0 < Size(s), NEW a, NEW b
  PROVE  LeadsTo(s, a, ReducedShape(s, a, TRUE), b, a \cup b)
<1> DEFINE c == a \cup b
           s1 == ReducedShape(s, a, TRUE)
           s2 == ReducedShape(s, c, TRUE)
           n == Size(s)
           A == Targets(s, a, TRUE)
           B == Targets(s1, b, TRUE)
<1>1. Len(s) \in Nat /\ DOMAIN s = 1 .. Len(s) /\ s1 \in Shapes /\ s2 \in Shapes /\ TRUE \in BOOLEAN
  BY ShapeLength, ReducedFits
<1>2. s1 = [i \in 1 .. Len(s) |-> IF i - 1 \in a THEN 1 ELSE s[i]]
  BY <1>1 DEF ReducedShape
<1>3. s2 = [i \in 1 .. Len(s) |-> IF i - 1 \in c THEN 1 ELSE s[i]]
  BY <1>1 DEF ReducedShape
<1>4. DOMAIN s1 = 1 .. Len(s) /\ Len(s1) = Len(s)
  <2>1. DOMAIN s1 = 1 .. Len(s)
    BY <1>2
  <2> HIDE DEF s1
  <2> QED
    BY <1>1, <2>1 DEF Shapes
<1>5. ReducedShape(s1, b, TRUE) = s2
  <2>1. ReducedShape(s1, b, TRUE) = [i \in 1 .. Len(s) |-> IF i - 1 \in b THEN 1 ELSE s1[i]]
    BY <1>4 DEF ReducedShape
  <2>2. \A i \in 1 .. Len(s) :
          (IF i - 1 \in b THEN 1 ELSE s1[i]) = (IF i - 1 \in c THEN 1 ELSE s[i])
    BY <1>2
  <2> QED
    BY <1>3, <2>1, <2>2
<1>6. ASSUME NEW u \in Coordinates(s)
      PROVE  ReducedCoord(ReducedCoord(u, a, TRUE), b, TRUE) = ReducedCoord(u, c, TRUE)
  <2> DEFINE w == ReducedCoord(u, a, TRUE)
  <2>1. DOMAIN u = 1 .. Len(s)
    BY DEF Coordinates
  <2>2. w = [i \in 1 .. Len(s) |-> IF i - 1 \in a THEN 0 ELSE u[i]]
    BY <2>1 DEF ReducedCoord
  <2>3. DOMAIN w = 1 .. Len(s) /\ \A i \in 1 .. Len(s) : w[i] = IF i - 1 \in a THEN 0 ELSE u[i]
    BY <2>2
  <2> HIDE DEF w
  <2>4. ReducedCoord(w, b, TRUE) = [i \in 1 .. Len(s) |-> IF i - 1 \in b THEN 0 ELSE w[i]]
    BY <2>3 DEF ReducedCoord
  <2>5. ReducedCoord(u, c, TRUE) = [i \in 1 .. Len(s) |-> IF i - 1 \in c THEN 0 ELSE u[i]]
    BY <2>1 DEF ReducedCoord
  <2>6. \A i \in 1 .. Len(s) :
          (IF i - 1 \in b THEN 0 ELSE w[i]) = (IF i - 1 \in c THEN 0 ELSE u[i])
    BY <2>3
  <2> QED
    BY <2>4, <2>5, <2>6 DEF w
<1>7. n \in Nat /\ A \in [1 .. n -> 1 .. Size(s1)] /\ Size(s1) \in Nat
  BY TargetsCover
<1> HIDE DEF s1, s2
<1>8. ASSUME NEW k \in 1 .. n PROVE B[A[k]] = Targets(s, c, TRUE)[k]
  <2> DEFINE u == Unravel(k - 1, s)
             w == ReducedCoord(u, a, TRUE)
  <2>1. k - 1 \in 0 .. (n - 1)
    BY <1>7
  <2>2. u \in Coordinates(s)
    BY <2>1, UnravelIsDivMod
  <2>3. w \in Coordinates(s1)
    BY <1>1, <2>2, ReducedFits DEF s1
  <2>4. A[k] = CoordOffset(s1, w) + 1
    BY DEF Targets, s1
  <2>5. CoordOffset(s1, w) + 1 \in 1 .. Size(s1) /\ Unravel((CoordOffset(s1, w) + 1) - 1, s1) = w
    BY <1>1, <2>3, PlaceOfCoordinate
  <2> HIDE DEF w
  <2>6. B[A[k]] = CoordOffset(s2, ReducedCoord(w, b, TRUE)) + 1
    <3> DEFINE j == A[k]
    <3>1. j \in 1 .. Size(s1) /\ Unravel(j - 1, s1) = w
      BY <2>4, <2>5
    <3> HIDE DEF j, A
    <3>2. B[j] = CoordOffset(s2, ReducedCoord(w, b, TRUE)) + 1
      BY <1>5, <3>1 DEF Targets
    <3> QED
      BY <3>2 DEF j
  <2>7. ReducedCoord(w, b, TRUE) = ReducedCoord(u, c, TRUE)
    BY <1>6, <2>2 DEF w
  <2>8. Targets(s, c, TRUE)[k] = CoordOffset(s2, ReducedCoord(u, c, TRUE)) + 1
    BY DEF Targets, s2
  <2> QED
    BY <2>6, <2>7, <2>8
<1>9. Through(n, A, B) = Targets(s, c, TRUE)
  <2>1. Targets(s, c, TRUE) = [k \in 1 .. n |-> Targets(s, c, TRUE)[k]]
    BY DEF Targets
  <2> QED
    BY <1>8, <2>1 DEF Through
<1> QED
  BY <1>1, <1>4, <1>5, <1>9 DEF s1, s2, LeadsTo

\* What a reduction comes to is reducible again.
LEMMA ReducedIsReducible ==
  ASSUME NEW t, NEW op, NEW axes, Reducible(t, op, axes), t.shape # <<>>, NEW b \in SUBSET AxesOf(t)
  PROVE  /\ Reducible(ReduceAxes(t, op, axes, TRUE), op, b)
         /\ ReduceAxes(t, op, axes, TRUE)
              = [dtype |-> t.dtype, shape |-> ReducedShape(t.shape, axes, TRUE),
                 values |-> ResultOf(t, op, axes, TRUE)]
<1> DEFINE u == ReduceAxes(t, op, axes, TRUE)
           out == ReducedShape(t.shape, axes, TRUE)
           r == ResultOf(t, op, axes, TRUE)
           d == t.dtype
<1>1. TRUE \in BOOLEAN /\ op \in ReduceOp /\ d \in Float /\ Safe(op, Size(t.shape), t.values, Limit(d))
  BY DEF Reducible
<1>2. /\ t.shape \in Shapes /\ Size(t.shape) \in Nat /\ 0 < Size(t.shape)
      /\ t.values \in [1 .. Size(t.shape) -> Int]
  BY ReducibleParts
<1>3. Len(t.shape) \in Nat /\ DOMAIN t.shape = 1 .. Len(t.shape) /\ Len(t.shape) # 0
  <2>1. Len(t.shape) \in Nat /\ DOMAIN t.shape = 1 .. Len(t.shape)
    BY <1>2, ShapeLength
  <2>2. Len(t.shape) # 0
    BY <1>2 DEF Shapes
  <2> QED
    BY <2>1, <2>2
<1>4. IsReduced(t, op, axes, TRUE)
  BY <1>1, ReduceExact
<1>5. out \in Shapes /\ Size(out) \in Nat /\ 0 < Size(out) /\ r \in [1 .. Size(out) -> Held(d)]
  BY <1>4 DEF IsReduced
<1>6. DOMAIN out = 1 .. Len(t.shape)
  BY <1>3 DEF ReducedShape
<1>7. out # <<>>
  <2> HIDE DEF out
  <2>1. 1 \in DOMAIN out
    BY <1>3, <1>6
  <2> QED
    BY <2>1
<1>8. u = [dtype |-> d, shape |-> out, values |-> r] /\ IsTensor(u)
  BY <1>4, <1>7 DEF IsReduced
<1> HIDE DEF u, r, out
<1>9. u.dtype = d /\ u.shape = out /\ u.values = r
  BY <1>8
<1>10. u.values # <<>>
  <2>1. 1 \in 1 .. Size(out)
    BY <1>5
  <2>2. 1 \in DOMAIN r
    BY <1>5, <2>1
  <2> QED
    BY <1>9, <2>2
<1>11. b \subseteq AxesOf(u)
  <2>1. DOMAIN u.shape = DOMAIN t.shape
    BY <1>3, <1>6, <1>9
  <2> QED
    BY <2>1 DEF AxesOf
<1>12. Safe(op, Size(u.shape), u.values, Limit(u.dtype))
  <2>1. SUFFICES ASSUME Adding(op) PROVE Bounded(op, Size(out), r, Limit(d))
    BY <1>9 DEF Safe
  <2> DEFINE n == Size(t.shape)
             m == Size(out)
             T == Targets(t.shape, axes, TRUE)
  <2>2. Bounded(op, n, t.values, Limit(d)) /\ op \notin {"min", "max"} /\ Limit(d) \in Nat
    BY <1>1, <2>1, WidthAssumption DEF Safe, Adding, Limit
  <2>3. n \in Nat /\ m \in Nat /\ T \in [1 .. n -> 1 .. m]
    BY <1>1, <1>2, TargetsCover DEF out
  <2>4. r = Group(op, n, m, T, t.values)
    BY <2>2 DEF r, ResultOf, Result, out
  <2> HIDE DEF n, m, T
  <2>5. Bounded(op, m, Group(op, n, m, T, t.values), Limit(d))
    BY <2>2, <2>3, BoundedGroups
  <2> QED
    BY <2>4, <2>5 DEF m
<1> QED
  BY <1>1, <1>8, <1>9, <1>10, <1>11, <1>12 DEF Reducible, u, out, r

\* Reducing several axes at once is reducing them one after the other.
LEMMA ReduceTwice ==
  ASSUME NEW t, NEW op, NEW a, NEW b, NEW c, c = a \cup b, Reducible(t, op, c), t.shape # <<>>
  PROVE  ReduceAxes(t, op, c, TRUE) = ReduceAxes(ReduceAxes(t, op, a, TRUE), op, b, TRUE)
<1> DEFINE s == t.shape
           n == Size(s)
           s1 == ReducedShape(s, a, TRUE)
           s2 == ReducedShape(s, c, TRUE)
           T == Targets(s, a, TRUE)
           U == Targets(s1, b, TRUE)
           u == ReduceAxes(t, op, a, TRUE)
           v == t.values
           r == Result(op, n, Size(s1), T, v)
<1>1. Reducible(t, op, a) /\ {} \in SUBSET AxesOf(t) /\ b \in SUBSET AxesOf(t) /\ op \in ReduceOp
  BY DEF Reducible
<1>2. /\ s \in Shapes /\ n \in Nat /\ 0 < n /\ v \in [1 .. n -> Int] /\ Held(t.dtype) \subseteq Int
  BY ReducibleParts
<1>3. Reducible(u, op, b) /\ u = [dtype |-> t.dtype, shape |-> s1, values |-> r]
  <2>1. ResultOf(t, op, a, TRUE) = r
    BY DEF ResultOf
  <2> HIDE DEF r, u, s1
  <2>2. Reducible(ReduceAxes(t, op, a, TRUE), op, b)
    BY <1>1, ReducedIsReducible
  <2>3. ReduceAxes(t, op, a, TRUE)
          = [dtype |-> t.dtype, shape |-> ReducedShape(t.shape, a, TRUE),
             values |-> ResultOf(t, op, a, TRUE)]
    BY <1>1, ReducedIsReducible
  <2>4. u = [dtype |-> t.dtype, shape |-> s1, values |-> r]
    BY <2>1, <2>3 DEF u, s1
  <2> QED
    BY <2>2, <2>4 DEF u
<1>4. s1 \in Shapes /\ Len(s1) = Len(s) /\ ReducedShape(s1, b, TRUE) = s2
      /\ Through(n, T, U) = Targets(s, c, TRUE)
  <2>1. LeadsTo(s, a, ReducedShape(s, a, TRUE), b, a \cup b)
    BY <1>2, AxesTwice
  <2> QED
    BY <2>1 DEF LeadsTo
<1>5. IsReduced(t, op, c, TRUE) /\ IsReduced(u, op, b, TRUE) /\ IsReduced(t, op, a, TRUE)
  BY <1>1, <1>3, ReduceExact
<1> HIDE DEF s, n, u, v
<1>6. Size(s1) \in Nat /\ 0 < Size(s1) /\ r \in [1 .. Size(s1) -> Held(t.dtype)]
  <2>1. ResultOf(t, op, a, TRUE) = r
    BY DEF ResultOf, s, n, v
  <2> QED
    BY <1>5, <2>1 DEF IsReduced, s
<1>7. r \in [1 .. Size(s1) -> Int]
  <2> HIDE DEF r
  <2> QED
    BY <1>2, <1>6
<1>8. T \in [1 .. n -> 1 .. Size(s1)] /\ Covers(T, n, Size(s1))
  BY <1>2, TargetsCover DEF n
<1>9. U \in [1 .. Size(s1) -> 1 .. Size(s2)] /\ Covers(U, Size(s1), Size(s2)) /\ Size(s2) \in Nat
  <2> HIDE DEF s1, s2
  <2> QED
    BY <1>4, <1>6, TargetsCover
<1> HIDE DEF s1, s2, T, U
<1>10. Result(op, Size(s1), Size(s2), U, r) = Result(op, n, Size(s2), Through(n, T, U), v)
  BY <1>1, <1>2, <1>6, <1>7, <1>8, <1>9, ResultTwice, ZenonT(40)
<1>11. ResultOf(t, op, c, TRUE) = Result(op, n, Size(s2), Through(n, T, U), v)
  BY <1>4 DEF ResultOf, n, s, s2, v
<1>12. u.shape = s1 /\ u.values = r /\ u.dtype = t.dtype
  BY <1>3
<1>13. ResultOf(u, op, b, TRUE) = Result(op, Size(s1), Size(s2), U, r)
  BY <1>4, <1>12 DEF ResultOf, U
<1>14. s2 # <<>>
  <2>1. s2 \in Shapes /\ Len(s) \in Nat /\ Len(s) # 0
    <3>1. Len(s) \in Nat
      BY <1>2, ShapeLength
    <3>2. Len(s) # 0
      BY <1>2 DEF Shapes, s
    <3> QED
      BY <1>2, <3>1, <3>2, ReducedFits DEF s2
  <2>2. DOMAIN s2 = DOMAIN s
    BY DEF s2, ReducedShape
  <2>3. 1 \in DOMAIN s
    BY <1>2, <2>1, ShapeLength
  <2> QED
    BY <2>2, <2>3
<1>15. ReduceAxes(t, op, c, TRUE) = [dtype |-> t.dtype, shape |-> s2, values |-> ResultOf(t, op, c, TRUE)]
  BY <1>5, <1>14 DEF IsReduced, s2, s
<1>16. ReduceAxes(u, op, b, TRUE) = [dtype |-> t.dtype, shape |-> s2, values |-> ResultOf(u, op, b, TRUE)]
  BY <1>4, <1>5, <1>12, <1>14 DEF IsReduced
<1> QED
  BY <1>10, <1>11, <1>13, <1>15, <1>16 DEF u

-----------------------------------------------------------------------------
(* Dimensions of one change no place.                                      *)

\* One shape is another without some dimensions of one: k[j] is where its axis j is.
Squeezes(k, big, small) ==
  /\ k \in [1 .. Len(small) -> 1 .. Len(big)]
  /\ \A i, j \in 1 .. Len(small) : i < j => k[i] < k[j]
  /\ \A j \in 1 .. Len(small) : small[j] = big[k[j]]
  /\ \A i \in 1 .. Len(big) : (\E j \in 1 .. Len(small) : k[j] = i) \/ big[i] = 1
Squeezed(k, small, c) == [j \in 1 .. Len(small) |-> c[k[j]]]
\* Axis j of the small shape is the first that is not before axis i of the big one.
Cut(k, m, i, j) == (j = m + 1 \/ i <= k[j]) /\ (j = 1 \/ k[j - 1] < i)
LEMMA CutSteps ==
  ASSUME NEW r \in Nat, NEW m \in Nat, NEW k \in [1 .. m -> 1 .. r],
         \A i, j \in 1 .. m : i < j => k[i] < k[j],
         NEW i \in 1 .. r, NEW j \in 1 .. (m + 1), Cut(k, m, i, j)
  PROVE  /\ (\E l \in 1 .. m : k[l] = i) => j \in 1 .. m /\ k[j] = i /\ Cut(k, m, i + 1, j + 1)
         /\ ~(\E l \in 1 .. m : k[l] = i) => Cut(k, m, i + 1, j)
<1>1. \A l \in 1 .. m : k[l] \in Nat
  OBVIOUS
<1>2. ASSUME NEW l \in 1 .. m, k[l] = i PROVE j \in 1 .. m /\ k[j] = i /\ Cut(k, m, i + 1, j + 1)
  <2>1. ~(l < j)
    <3> SUFFICES ASSUME l < j PROVE FALSE
      OBVIOUS
    <3>1. j - 1 \in 1 .. m /\ (l < j - 1 \/ l = j - 1) /\ j # 1
      OBVIOUS
    <3>2. k[l] <= k[j - 1] /\ k[j - 1] < i
      BY <1>1, <3>1 DEF Cut
    <3> QED
      BY <1>1, <1>2, <3>1, <3>2
  <2>2. ~(j < l)
    <3> SUFFICES ASSUME j < l PROVE FALSE
      OBVIOUS
    <3>1. j \in 1 .. m /\ j # m + 1
      OBVIOUS
    <3>2. k[j] < k[l] /\ i <= k[j]
      BY <3>1 DEF Cut
    <3> QED
      BY <1>1, <1>2, <3>1, <3>2
  <2>3. j = l
    BY <2>1, <2>2
  <2>4. j + 1 = m + 1 \/ i + 1 <= k[j + 1]
    <3> SUFFICES ASSUME j + 1 # m + 1 PROVE i + 1 <= k[j + 1]
      OBVIOUS
    <3>1. j + 1 \in 1 .. m /\ j \in 1 .. m /\ j < j + 1
      BY <2>3
    <3>2. k[j] < k[j + 1]
      BY <3>1
    <3> QED
      BY <1>1, <1>2, <2>3, <3>1, <3>2
  <2>5. k[(j + 1) - 1] < i + 1
    BY <1>2, <2>3
  <2> QED
    BY <1>2, <2>3, <2>4, <2>5 DEF Cut
<1>3. ASSUME ~(\E l \in 1 .. m : k[l] = i) PROVE Cut(k, m, i + 1, j)
  <2>1. j = m + 1 \/ i + 1 <= k[j]
    <3> SUFFICES ASSUME j # m + 1 PROVE i + 1 <= k[j]
      OBVIOUS
    <3>1. j \in 1 .. m
      OBVIOUS
    <3>2. k[j] # i /\ i <= k[j]
      BY <1>3, <3>1 DEF Cut
    <3> QED
      BY <1>1, <3>1, <3>2
  <2>2. j = 1 \/ k[j - 1] < i + 1
    <3> SUFFICES ASSUME j # 1 PROVE k[j - 1] < i + 1
      OBVIOUS
    <3>1. j - 1 \in 1 .. m
      OBVIOUS
    <3>2. k[j - 1] < i
      BY DEF Cut
    <3> QED
      BY <1>1, <3>1, <3>2
  <2> QED
    BY <2>1, <2>2 DEF Cut
<1> QED
  BY <1>2, <1>3

\* Dimensions of one change neither the size nor any place.
LEMMA SqueezedSize ==
  ASSUME NEW big \in Shapes, NEW small \in Shapes, NEW k, Squeezes(k, big, small)
  PROVE  /\ \A i \in 1 .. (Len(big) + 1), j \in 1 .. (Len(small) + 1) :
              Cut(k, Len(small), i, j) => Blocks(big)[i] = Blocks(small)[j]
         /\ Size(big) = Size(small)
<1> DEFINE r == Len(big)
           m == Len(small)
           B == Blocks(big)
           D == Blocks(small)
           S == {i \in 1 .. (r + 1) : \A j \in 1 .. (m + 1) : Cut(k, m, i, j) => B[i] = D[j]}
<1>1. r \in Nat /\ m \in Nat
  BY DEF Shapes
<1>2. /\ B \in [1 .. (r + 1) -> Nat] /\ B[r + 1] = 1 /\ \A i \in 1 .. r : B[i] = big[i] * B[i + 1]
      /\ D \in [1 .. (m + 1) -> Nat] /\ D[m + 1] = 1 /\ \A j \in 1 .. m : D[j] = small[j] * D[j + 1]
  BY BlocksExist DEF IsBlocks
<1>3. /\ k \in [1 .. m -> 1 .. r] /\ \A i, j \in 1 .. m : i < j => k[i] < k[j]
      /\ \A j \in 1 .. m : small[j] = big[k[j]]
      /\ \A i \in 1 .. r : (\E j \in 1 .. m : k[j] = i) \/ big[i] = 1
  BY DEF Squeezes
<1> HIDE DEF r, m, B, D
<1>4. r + 1 \in S
  <2>1. ASSUME NEW j \in 1 .. (m + 1), Cut(k, m, r + 1, j) PROVE j = m + 1
    <3> SUFFICES ASSUME j # m + 1 PROVE FALSE
      OBVIOUS
    <3>1. j \in 1 .. m
      BY <1>1
    <3>2. k[j] \in 1 .. r /\ r + 1 <= k[j]
      BY <1>3, <2>1, <3>1 DEF Cut
    <3> QED
      BY <1>1, <3>2
  <2>2. r + 1 \in 1 .. (r + 1)
    BY <1>1
  <2> QED
    BY <1>2, <2>1, <2>2
<1>5. ASSUME NEW i \in 1 .. r, i + 1 \in S PROVE i \in S
  <2> SUFFICES ASSUME NEW j \in 1 .. (m + 1), Cut(k, m, i, j) PROVE B[i] = D[j]
    BY <1>1
  <2>1. i + 1 \in 1 .. (r + 1) /\ B[i + 1] \in Nat /\ B[i] = big[i] * B[i + 1]
    BY <1>1, <1>2
  <2>2. CASE \E l \in 1 .. m : k[l] = i
    <3>1. j \in 1 .. m /\ k[j] = i /\ Cut(k, m, i + 1, j + 1)
      BY <1>1, <1>3, <2>2, CutSteps
    <3>2. j + 1 \in 1 .. (m + 1)
      BY <1>1, <3>1
    <3>3. B[i + 1] = D[j + 1]
      BY <1>5, <3>1, <3>2
    <3> QED
      BY <1>2, <1>3, <2>1, <3>1, <3>3
  <2>3. CASE ~(\E l \in 1 .. m : k[l] = i)
    <3>1. Cut(k, m, i + 1, j) /\ big[i] = 1
      BY <1>1, <1>3, <2>3, CutSteps
    <3>2. B[i + 1] = D[j]
      BY <1>5, <3>1
    <3> QED
      BY <2>1, <3>1, <3>2
  <2> QED
    BY <2>2, <2>3
<1> HIDE DEF S
<1>6. \A i \in 1 .. (r + 1) : i \in S
  BY <1>1, <1>4, <1>5, DownFrom
<1>7. Cut(k, m, 1, 1) /\ 1 \in 1 .. (r + 1) /\ 1 \in 1 .. (m + 1)
  <2>1. m = 0 \/ 1 \in 1 .. m
    BY <1>1
  <2>2. 1 \in 1 .. m => k[1] \in 1 .. r
    BY <1>3
  <2> QED
    BY <1>1, <2>1, <2>2 DEF Cut
<1>8. B[1] = D[1]
  BY <1>6, <1>7 DEF S
<1>9. Size(big) = B[1] /\ Size(small) = D[1]
  BY SizeIsBlocks DEF B, D
<1> QED
  BY <1>6, <1>8, <1>9 DEF S, r, m, B, D
\* A coordinate squeezed is at the same place.
LEMMA SqueezedPlace ==
  ASSUME NEW big \in Shapes, NEW small \in Shapes, NEW k, Squeezes(k, big, small),
         NEW c \in Coordinates(big)
  PROVE  /\ Squeezed(k, small, c) \in Coordinates(small)
         /\ CoordOffset(big, c) = CoordOffset(small, Squeezed(k, small, c))
<1> DEFINE r == Len(big)
           m == Len(small)
           e == Squeezed(k, small, c)
           B == Blocks(big)
           D == Blocks(small)
           P == Offsets(big, c)
           Q == Offsets(small, e)
           S == {i \in 1 .. (r + 1) : \A j \in 1 .. (m + 1) : Cut(k, m, i, j) => P[i] = Q[j]}
<1>1. r \in Nat /\ m \in Nat
  BY DEF Shapes
<1>2. /\ k \in [1 .. m -> 1 .. r] /\ \A i, j \in 1 .. m : i < j => k[i] < k[j]
      /\ \A j \in 1 .. m : small[j] = big[k[j]]
      /\ \A i \in 1 .. r : (\E j \in 1 .. m : k[j] = i) \/ big[i] = 1
  BY DEF Squeezes
<1>3. c \in [1 .. r -> Nat] /\ \A i \in 1 .. r : c[i] < big[i]
  BY DEF Coordinates
<1>4. e \in [1 .. m -> Nat] /\ \A j \in 1 .. m : e[j] = c[k[j]]
  BY <1>2, <1>3 DEF Squeezed
<1>5. e \in Coordinates(small)
  <2> HIDE DEF e
  <2>1. \A j \in 1 .. m : e[j] < small[j]
    BY <1>2, <1>3, <1>4
  <2> QED
    BY <1>4, <2>1 DEF Coordinates
<1> HIDE DEF e
<1>6. /\ P \in [1 .. (r + 1) -> Nat] /\ P[r + 1] = 0
      /\ \A i \in 1 .. r : P[i] = P[i + 1] + c[i] * B[i + 1]
  BY <1>3, OffsetsExist DEF IsOffsets
<1>7. /\ Q \in [1 .. (m + 1) -> Nat] /\ Q[m + 1] = 0
      /\ \A j \in 1 .. m : Q[j] = Q[j + 1] + e[j] * D[j + 1]
  BY <1>4, OffsetsExist DEF IsOffsets
<1>8. \A i \in 1 .. (r + 1), j \in 1 .. (m + 1) : Cut(k, m, i, j) => B[i] = D[j]
  BY SqueezedSize
<1>9. \A i \in 1 .. (r + 1) : B[i] \in Nat
  BY BlocksExist DEF IsBlocks
<1>10. big \in [1 .. r -> Nat]
  BY <1>1, ShapeLength DEF Shapes
<1> HIDE DEF r, m, B, D, P, Q
<1>11. r + 1 \in S
  <2>1. ASSUME NEW j \in 1 .. (m + 1), Cut(k, m, r + 1, j) PROVE j = m + 1
    <3> SUFFICES ASSUME j # m + 1 PROVE FALSE
      OBVIOUS
    <3>1. j \in 1 .. m
      BY <1>1
    <3>2. k[j] \in 1 .. r /\ r + 1 <= k[j]
      BY <1>2, <2>1, <3>1 DEF Cut
    <3> QED
      BY <1>1, <3>2
  <2>2. r + 1 \in 1 .. (r + 1)
    BY <1>1
  <2> QED
    BY <1>6, <1>7, <2>1, <2>2
<1>12. ASSUME NEW i \in 1 .. r, i + 1 \in S PROVE i \in S
  <2> SUFFICES ASSUME NEW j \in 1 .. (m + 1), Cut(k, m, i, j) PROVE P[i] = Q[j]
    BY <1>1
  <2>1. i + 1 \in 1 .. (r + 1) /\ P[i] = P[i + 1] + c[i] * B[i + 1]
    BY <1>1, <1>6
  <2>2. CASE \E l \in 1 .. m : k[l] = i
    <3>1. j \in 1 .. m /\ k[j] = i /\ Cut(k, m, i + 1, j + 1)
      BY <1>1, <1>2, <2>2, CutSteps
    <3>2. j + 1 \in 1 .. (m + 1)
      BY <1>1, <3>1
    <3>3. P[i + 1] = Q[j + 1] /\ B[i + 1] = D[j + 1]
      BY <1>8, <1>12, <2>1, <3>1, <3>2
    <3>4. Q[j] = Q[j + 1] + e[j] * D[j + 1] /\ e[j] = c[i]
      BY <1>4, <1>7, <3>1
    <3> QED
      BY <2>1, <3>3, <3>4
  <2>3. CASE ~(\E l \in 1 .. m : k[l] = i)
    <3>1. Cut(k, m, i + 1, j) /\ big[i] = 1
      BY <1>1, <1>2, <2>3, CutSteps
    <3>2. P[i + 1] = Q[j]
      BY <1>12, <3>1
    <3>3. c[i] = 0
      <4>1. c[i] \in Nat /\ c[i] < big[i]
        BY <1>3
      <4> QED
        BY <3>1, <4>1
    <3>4. B[i + 1] \in Nat /\ P[i + 1] \in Nat
      BY <1>6, <1>9, <2>1
    <3> QED
      BY <2>1, <3>2, <3>3, <3>4
  <2> QED
    BY <2>2, <2>3
<1> HIDE DEF S
<1>13. \A i \in 1 .. (r + 1) : i \in S
  BY <1>1, <1>11, <1>12, DownFrom
<1>14. Cut(k, m, 1, 1) /\ 1 \in 1 .. (r + 1) /\ 1 \in 1 .. (m + 1)
  <2>1. m = 0 \/ 1 \in 1 .. m
    BY <1>1
  <2>2. 1 \in 1 .. m => k[1] \in 1 .. r
    BY <1>2
  <2> QED
    BY <1>1, <2>1, <2>2 DEF Cut
<1>15. P[1] = Q[1]
  BY <1>13, <1>14 DEF S
<1>16. CoordOffset(big, c) = P[1] /\ CoordOffset(small, e) = Q[1]
  BY <1>5, CoordOffsetIsOffsets DEF P, Q
<1> QED
  BY <1>5, <1>15, <1>16 DEF e

\* The shape without the reduced axes is the shape with them at one, squeezed.
LEMMA DroppedIsSqueezed ==
  ASSUME NEW s \in Shapes, NEW axes
  PROVE  LET k == KeptAxes(Len(s), axes)
             small == ReducedShape(s, axes, FALSE)
         IN /\ Squeezes(k, ReducedShape(s, axes, TRUE), small)
            /\ \A c \in Coordinates(s) :
                 ReducedCoord(c, axes, FALSE) = Squeezed(k, small, ReducedCoord(c, axes, TRUE))
<1> DEFINE r == Len(s)
           K == {i \in 1 .. r : i - 1 \notin axes}
           m == Cardinality(K)
           k == KeptAxes(r, axes)
           big == ReducedShape(s, axes, TRUE)
           small == ReducedShape(s, axes, FALSE)
<1>1. r \in Nat /\ DOMAIN s = 1 .. r
  BY ShapeLength
<1>2. K \in SUBSET Int /\ IsFiniteSet(K)
  <2>1. IsFiniteSet(1 .. r)
    BY <1>1, FS_Interval
  <2> QED
    BY <1>1, <2>1, FS_Subset
<1>3. k = Ascending(K)
  BY DEF KeptAxes
<1> HIDE DEF K, k
<1>4. m \in Nat /\ Enumerates(k, m, K) /\ \A i, j \in 1 .. m : i < j => k[i] < k[j]
  BY <1>2, <1>3, AscendingInOrder
<1>5. /\ k \in [1 .. m -> 1 .. r] /\ \A j \in 1 .. m : k[j] - 1 \notin axes
      /\ \A i \in 1 .. r : i - 1 \notin axes => \E j \in 1 .. m : k[j] = i
  BY <1>4 DEF Enumerates, K
<1> HIDE DEF m
<1>6. DOMAIN k = 1 .. m
  BY <1>5
<1>7. big = [i \in 1 .. r |-> IF i - 1 \in axes THEN 1 ELSE s[i]]
  BY <1>1 DEF ReducedShape
<1>8. small = [j \in 1 .. m |-> s[k[j]]]
  BY <1>6 DEF ReducedShape, k
<1>9. big \in Shapes /\ small \in Shapes
  BY ReducedFits
<1>10. Len(big) = r /\ Len(small) = m
  <2>1. DOMAIN big = 1 .. r /\ DOMAIN small = 1 .. m
    BY <1>7, <1>8
  <2> HIDE DEF big, small, r
  <2> QED
    BY <1>1, <1>4, <1>9, <2>1 DEF Shapes
<1>11. Squeezes(k, big, small)
  <2>1. \A j \in 1 .. m : small[j] = big[k[j]]
    BY <1>5, <1>7, <1>8
  <2>2. \A i \in 1 .. r : (\E j \in 1 .. m : k[j] = i) \/ big[i] = 1
    BY <1>5, <1>7
  <2> HIDE DEF big, small
  <2> QED
    BY <1>4, <1>5, <1>10, <2>1, <2>2 DEF Squeezes
<1>12. ASSUME NEW c \in Coordinates(s)
       PROVE  ReducedCoord(c, axes, FALSE) = Squeezed(k, small, ReducedCoord(c, axes, TRUE))
  <2>1. DOMAIN c = 1 .. r /\ Len(c) = r
    <3>1. c \in [1 .. r -> Nat]
      BY DEF Coordinates
    <3> QED
      BY <1>1, <3>1, SameLength
  <2>2. ReducedCoord(c, axes, FALSE) = [j \in 1 .. m |-> c[k[j]]]
    BY <1>6, <2>1 DEF ReducedCoord, k
  <2>3. ReducedCoord(c, axes, TRUE) = [i \in 1 .. r |-> IF i - 1 \in axes THEN 0 ELSE c[i]]
    BY <2>1 DEF ReducedCoord
  <2>4. \A j \in 1 .. m : c[k[j]] = ReducedCoord(c, axes, TRUE)[k[j]]
    BY <1>5, <2>3
  <2> HIDE DEF small
  <2> QED
    BY <1>10, <2>2, <2>4 DEF Squeezed
<1> QED
  BY <1>11, <1>12 DEF k

\* Dropping the reduced axes changes the shape alone.
LEMMA DroppedTargets ==
  ASSUME NEW s \in Shapes, 0 < Size(s), NEW axes
  PROVE  /\ Size(ReducedShape(s, axes, FALSE)) = Size(ReducedShape(s, axes, TRUE))
         /\ Targets(s, axes, FALSE) = Targets(s, axes, TRUE)
<1> DEFINE k == KeptAxes(Len(s), axes)
           big == ReducedShape(s, axes, TRUE)
           small == ReducedShape(s, axes, FALSE)
<1>1. big \in Shapes /\ small \in Shapes /\ Size(s) \in Nat /\ TRUE \in BOOLEAN
  BY ReducedFits, SizeIsBlocks
<1>2. Squeezes(k, big, small)
  BY DroppedIsSqueezed
<1>3. Size(small) = Size(big)
  BY <1>1, <1>2, SqueezedSize
<1>4. ASSUME NEW i \in 1 .. Size(s) PROVE Targets(s, axes, FALSE)[i] = Targets(s, axes, TRUE)[i]
  <2> DEFINE u == Unravel(i - 1, s)
             c == ReducedCoord(u, axes, TRUE)
  <2>1. i - 1 \in 0 .. (Size(s) - 1)
    BY <1>1
  <2>2. u \in Coordinates(s)
    BY <2>1, UnravelIsDivMod
  <2>3. c \in Coordinates(big)
    BY <1>1, <2>2, ReducedFits
  <2>4. ReducedCoord(u, axes, FALSE) = Squeezed(k, small, c)
    BY <2>2, DroppedIsSqueezed
  <2>5. Targets(s, axes, FALSE)[i] = CoordOffset(small, ReducedCoord(u, axes, FALSE)) + 1
    BY DEF Targets
  <2>6. Targets(s, axes, TRUE)[i] = CoordOffset(big, c) + 1
    BY DEF Targets
  <2> HIDE DEF u, c, k, big, small
  <2>7. CoordOffset(big, c) = CoordOffset(small, Squeezed(k, small, c))
    BY <1>1, <1>2, <2>3, SqueezedPlace
  <2> QED
    BY <2>4, <2>5, <2>6, <2>7
<1>5. Targets(s, axes, FALSE) = [i \in 1 .. Size(s) |-> Targets(s, axes, FALSE)[i]]
  BY DEF Targets
<1>6. Targets(s, axes, TRUE) = [i \in 1 .. Size(s) |-> Targets(s, axes, TRUE)[i]]
  BY DEF Targets
<1>7. Targets(s, axes, FALSE) = Targets(s, axes, TRUE)
  BY <1>4, <1>5, <1>6
<1> QED
  BY <1>3, <1>7
\* And keeps every value.
LEMMA DropAxes ==
  ASSUME NEW t, NEW op, NEW axes, Reducible(t, op, axes), t.shape # <<>>
  PROVE  ReduceAxes(t, op, axes, TRUE).values = ReduceAxes(t, op, axes, FALSE).values
<1> DEFINE s == t.shape
           big == ReducedShape(s, axes, TRUE)
           small == ReducedShape(s, axes, FALSE)
           r == ResultOf(t, op, axes, TRUE)
<1>1. s \in Shapes /\ 0 < Size(s) /\ TRUE \in BOOLEAN /\ FALSE \in BOOLEAN
  BY ReducibleParts
<1>2. Size(small) = Size(big) /\ Targets(s, axes, FALSE) = Targets(s, axes, TRUE)
  BY <1>1, DroppedTargets
<1>3. ResultOf(t, op, axes, FALSE) = r
  BY <1>2 DEF ResultOf
<1>4. ReduceAxes(t, op, axes, TRUE) = [dtype |-> t.dtype, shape |-> big, values |-> r]
  <2>1. {} \in SUBSET AxesOf(t)
    OBVIOUS
  <2> QED
    BY <2>1, ReducedIsReducible
<1>5. IsReduced(t, op, axes, FALSE)
  BY <1>1, ReduceExact
<1>6. small \in Shapes /\ r \in [1 .. Size(small) -> Held(t.dtype)]
  BY <1>3, <1>5 DEF IsReduced
<1>7. ReduceAxes(t, op, axes, FALSE)
        = IF small = <<>> THEN Scalar(r[1]) ELSE [dtype |-> t.dtype, shape |-> small, values |-> r]
  BY <1>3, <1>5 DEF IsReduced
<1>8. ReduceAxes(t, op, axes, TRUE).values = r
  <2> DEFINE u == ReduceAxes(t, op, axes, TRUE)
             d == t.dtype
  <2>1. u = [dtype |-> d, shape |-> big, values |-> r]
    BY <1>4
  <2> HIDE DEF big, r, u, d
  <2>2. u.values = r
    BY <2>1
  <2> QED
    BY <2>2 DEF u
<1> HIDE DEF small, big, r
<1>9. CASE small = <<>>
  <2>1. Size(small) = 1
    BY <1>9, NoAxes
  <2>2. r = <<r[1]>>
    BY <1>6, <2>1
  <2>3. Scalar(r[1]).values = <<r[1]>>
    BY DEF Scalar
  <2>4. ReduceAxes(t, op, axes, FALSE) = Scalar(r[1])
    BY <1>7, <1>9
  <2>5. ReduceAxes(t, op, axes, FALSE).values = r
    BY <2>2, <2>3, <2>4
  <2> QED
    BY <1>8, <2>5
<1>10. CASE small # <<>>
  <2> DEFINE u == ReduceAxes(t, op, axes, FALSE)
             d == t.dtype
  <2>1. u = [dtype |-> d, shape |-> small, values |-> r]
    BY <1>7, <1>10
  <2> HIDE DEF u, d
  <2>2. u.values = r
    BY <2>1
  <2> QED
    BY <1>8, <2>2 DEF u
<1> QED
  BY <1>9, <1>10

\* ReduceAxes: whatever the axes, reducing several at once is reducing them one
\* after the other, and dropping them from the shape keeps every value.
THEOREM ReducingAxisByAxis == Spec => []ReduceAxisByAxis
<1>1. IsTensor(tensor) => ReduceAxisByAxis
  <2> SUFFICES ASSUME IsTensor(tensor), Exact("sum", tensor), tensor.values # <<>>,
                      NEW op \in ReduceOp, NEW a \in AxesOf(tensor), NEW b \in AxesOf(tensor),
                      op = "product" => Exact(op, tensor)
               PROVE  LET both == ReduceAxes(tensor, op, {a, b}, TRUE)
                      IN /\ both = ReduceAxes(ReduceAxes(tensor, op, {a}, TRUE), op, {b} \ {a}, TRUE)
                         /\ both.values = ReduceAxes(tensor, op, {a, b}, FALSE).values
    BY DEF ReduceAxisByAxis
  <2>1. tensor.dtype \in Float
    BY DEF Exact
  <2>2. Safe(op, Size(tensor.shape), tensor.values, Limit(tensor.dtype))
    <3> SUFFICES ASSUME Adding(op) PROVE Bounded(op, Size(tensor.shape), tensor.values, Limit(tensor.dtype))
      BY DEF Safe
    <3>1. Exact(op, tensor)
      BY DEF Adding
    <3> QED
      BY <3>1, ExactIsBounded
  <2>3. {a, b} \subseteq AxesOf(tensor) /\ {a, b} = {a} \cup ({b} \ {a})
    OBVIOUS
  <2>4. Reducible(tensor, op, {a, b})
    BY <2>1, <2>2, <2>3 DEF Reducible
  <2>5. tensor.shape # <<>>
    <3>1. PICK i \in DOMAIN tensor.shape : a = i - 1
      BY DEF AxesOf
    <3> QED
      BY <3>1
  <2> DEFINE c == {a, b}
             d == {b} \ {a}
             e == {a}
  <2>6. c = e \cup d /\ Reducible(tensor, op, c)
    BY <2>3, <2>4
  <2> HIDE DEF c, d, e
  <2>7. ReduceAxes(tensor, op, c, TRUE) = ReduceAxes(ReduceAxes(tensor, op, e, TRUE), op, d, TRUE)
    BY <2>5, <2>6, ReduceTwice, ZenonT(40)
  <2>8. ReduceAxes(tensor, op, c, TRUE).values = ReduceAxes(tensor, op, c, FALSE).values
    BY <2>5, <2>6, DropAxes
  <2> QED
    BY <2>7, <2>8 DEF c, d, e
<1> QED
  BY <1>1, TensorHeld, PTL

-----------------------------------------------------------------------------
(* A broadcast and its reduction.                                          *)

\* The shape left when a broadcast is reduced is the shape it was broadcast from,
\* with leading dimensions of one, and coordinates fall where the broadcast took
\* them from.
Trailing(s, small) == [j \in 1 .. Len(small) |-> Len(s) - Len(small) + j]
Undoes(s, small, axes, k) ==
  /\ BroadcastReducible(s, small) /\ axes \subseteq 0 .. (Len(s) - 1)
  /\ Squeezes(k, ReducedShape(s, axes, TRUE), small)
  /\ \A c \in Coordinates(s) :
       ProjectBroadcastIndex(c, small) = Squeezed(k, small, ReducedCoord(c, axes, TRUE))
  /\ axes = {} => small = s
LEMMA BroadcastUndone ==
  ASSUME NEW s \in Shapes, 0 < Size(s), NEW small \in Shapes, CanBroadcastTo(small, s)
  PROVE  Undoes(s, small, BroadcastReduceAxes(s, small), Trailing(s, small))
<1> DEFINE r == Len(s)
           m == Len(small)
           l == r - m
           axes == BroadcastReduceAxes(s, small)
           k == Trailing(s, small)
           big == ReducedShape(s, axes, TRUE)
<1>1. /\ r \in Nat /\ DOMAIN s = 1 .. r /\ \A i \in 1 .. r : s[i] \in Nat /\ 0 < s[i]
      /\ m \in Nat /\ DOMAIN small = 1 .. m /\ \A j \in 1 .. m : small[j] \in Nat
  <2>1. 0 \in 0 .. (Size(s) - 1)
    BY SizeIsBlocks
  <2> QED
    BY <2>1, ShapeLength, BlocksPositive
<1>2. m <= r /\ l \in Nat /\ r = l + m /\ \A j \in 1 .. m : small[j] = 1 \/ small[j] = s[l + j]
  <2>1. m <= r /\ \A j \in 1 .. m : small[j] \in {1, s[l + j]}
    BY <1>1 DEF CanBroadcastTo
  <2>2. l \in Nat /\ r = l + m
    BY <1>1, <2>1
  <2> QED
    BY <2>1, <2>2
<1>3. \A j \in 1 .. m : l + j \in 1 .. r
  BY <1>1, <1>2
<1>4. axes = 0 .. (l - 1) \cup {l + j - 1 : j \in {i \in 1 .. m : small[i] # s[l + i]}}
  BY <1>1 DEF BroadcastReduceAxes
<1>a. BroadcastReducible(s, small) <=>
        m <= r /\ \A j \in 1 .. m : s[l + j] = small[j] \/ (small[j] = 1 /\ s[l + j] > 1)
  BY <1>1 DEF BroadcastReducible
<1>b. k = [j \in 1 .. m |-> l + j]
  BY DEF Trailing
<1> HIDE DEF l, r, m, k
<1>5. \A j \in 1 .. m : (l + j) - 1 \in axes <=> small[j] # s[l + j]
  <2> HIDE DEF axes
  <2> SUFFICES ASSUME NEW j \in 1 .. m
               PROVE  (l + j) - 1 \in axes <=> small[j] # s[l + j]
    OBVIOUS
  <2>1. (l + j) - 1 \notin 0 .. (l - 1)
    BY <1>1, <1>2
  <2>2. (l + j) - 1 \in axes <=> \E i \in 1 .. m : small[i] # s[l + i] /\ (l + j) - 1 = l + i - 1
    BY <1>4, <2>1
  <2>3. \A i \in 1 .. m : (l + j) - 1 = l + i - 1 => i = j
    BY <1>1, <1>2
  <2>4. ASSUME NEW i \in 1 .. m, small[i] # s[l + i], (l + j) - 1 = l + i - 1
        PROVE  small[j] # s[l + j]
    BY <2>3, <2>4
  <2>5. ASSUME small[j] # s[l + j] PROVE (l + j) - 1 \in axes
    <3>1. \E i \in 1 .. m : small[i] # s[l + i] /\ (l + j) - 1 = l + i - 1
      <4> WITNESS j \in 1 .. m
      <4> QED
        BY <1>1, <1>2, <2>5
    <3> QED
      BY <2>2, <3>1
  <2> QED
    BY <2>2, <2>4, <2>5
<1>6. \A i \in 1 .. r : i <= l => i - 1 \in axes
  BY <1>1, <1>2, <1>4
<1>7. axes \subseteq 0 .. (r - 1)
  BY <1>1, <1>2, <1>4
<1>8. k \in [1 .. m -> 1 .. r] /\ \A j \in 1 .. m : k[j] = l + j
  BY <1>3, <1>b
<1> HIDE DEF axes
<1>9. big = [i \in 1 .. r |-> IF i - 1 \in axes THEN 1 ELSE s[i]]
  BY <1>1 DEF ReducedShape, r
<1>10. big \in Shapes /\ Len(big) = r
  <2>1. big \in Shapes /\ TRUE \in BOOLEAN
    BY ReducedFits
  <2>2. DOMAIN big = 1 .. r
    BY <1>9
  <2> HIDE DEF big, r
  <2> QED
    BY <1>1, <2>1, <2>2 DEF Shapes
<1>11. BroadcastReducible(s, small)
  <2>1. ASSUME NEW j \in 1 .. m
        PROVE  s[l + j] = small[j] \/ (small[j] = 1 /\ s[l + j] > 1)
    BY <1>1, <1>2, <1>3
  <2> QED
    BY <1>2, <1>a, <2>1
<1>12. Squeezes(k, big, small)
  <2>1. \A i, j \in 1 .. m : i < j => k[i] < k[j]
    <3> SUFFICES ASSUME NEW i \in 1 .. m, NEW j \in 1 .. m, i < j PROVE k[i] < k[j]
      OBVIOUS
    <3>1. k[i] = l + i /\ k[j] = l + j
      BY <1>8
    <3> QED
      BY <1>1, <1>2, <3>1
  <2>2. ASSUME NEW j \in 1 .. m PROVE small[j] = big[k[j]]
    <3>1. k[j] = l + j /\ l + j \in 1 .. r
      BY <1>3, <1>8
    <3>2. big[l + j] = IF (l + j) - 1 \in axes THEN 1 ELSE s[l + j]
      BY <1>9, <3>1
    <3> HIDE DEF big
    <3> QED
      BY <1>2, <1>5, <3>1, <3>2
  <2>3. ASSUME NEW i \in 1 .. r PROVE (\E j \in 1 .. m : k[j] = i) \/ big[i] = 1
    <3>1. CASE i <= l
      BY <1>6, <1>9, <3>1
    <3>2. CASE ~(i <= l)
      <4>1. i - l \in 1 .. m /\ l + (i - l) = i
        BY <1>1, <1>2, <3>2
      <4> QED
        BY <1>8, <4>1
    <3> QED
      BY <3>1, <3>2
  <2> HIDE DEF big
  <2> QED
    BY <1>8, <1>10, <2>1, <2>2, <2>3 DEF Squeezes, m
<1>13. ASSUME NEW c \in Coordinates(s)
       PROVE  ProjectBroadcastIndex(c, small) = Squeezed(k, small, ReducedCoord(c, axes, TRUE))
  <2>1. c \in [1 .. r -> Nat] /\ \A i \in 1 .. r : c[i] \in Nat /\ c[i] < s[i]
    <3>1. c \in [1 .. r -> Nat] /\ \A i \in 1 .. r : c[i] < s[i]
      BY DEF Coordinates, r
    <3> QED
      BY <3>1
  <2>2. DOMAIN c = 1 .. r /\ Len(c) = r
    BY <1>1, <2>1, SameLength
  <2>3. ReducedCoord(c, axes, TRUE) = [i \in 1 .. r |-> IF i - 1 \in axes THEN 0 ELSE c[i]]
    BY <2>2 DEF ReducedCoord
  <2>4. ProjectBroadcastIndex(c, small) = [j \in 1 .. m |-> IF small[j] = 1 THEN 0 ELSE c[l + j]]
    BY <1>1, <2>2 DEF ProjectBroadcastIndex, l, m
  <2>5. Squeezed(k, small, ReducedCoord(c, axes, TRUE))
          = [j \in 1 .. m |-> IF small[j] # s[l + j] THEN 0 ELSE c[l + j]]
    <3>1. ASSUME NEW j \in 1 .. m
          PROVE  ReducedCoord(c, axes, TRUE)[k[j]] = IF small[j] # s[l + j] THEN 0 ELSE c[l + j]
      <4>1. k[j] = l + j /\ l + j \in 1 .. r
        BY <1>3, <1>8
      <4>2. ReducedCoord(c, axes, TRUE)[l + j] = IF (l + j) - 1 \in axes THEN 0 ELSE c[l + j]
        BY <2>3, <4>1
      <4> QED
        BY <1>5, <4>1, <4>2
    <3> QED
      BY <3>1 DEF Squeezed, m
  <2>6. ASSUME NEW j \in 1 .. m
        PROVE  (IF small[j] = 1 THEN 0 ELSE c[l + j])
                 = (IF small[j] # s[l + j] THEN 0 ELSE c[l + j])
    BY <1>2, <1>3, <2>1
  <2> QED
    BY <2>4, <2>5, <2>6
<1>14. ASSUME axes = {} PROVE small = s
  <2>1. l = 0
    <3> SUFFICES ASSUME l # 0 PROVE FALSE
      OBVIOUS
    <3>1. 1 \in 1 .. r /\ 1 <= l
      BY <1>1, <1>2
    <3>2. 1 - 1 \in axes
      BY <1>6, <3>1
    <3> QED
      BY <1>14, <3>2
  <2>2. m = r
    BY <1>1, <1>2, <2>1
  <2>3. \A j \in 1 .. m : small[j] = s[j]
    BY <1>5, <1>14, <2>1
  <2>4. small = [j \in 1 .. m |-> small[j]] /\ s = [j \in 1 .. r |-> s[j]]
    BY DEF Shapes, m, r
  <2> QED
    BY <2>2, <2>3, <2>4
<1> QED
  BY <1>7, <1>11, <1>12, <1>13, <1>14 DEF Undoes, axes, k, r

\* Values repeated and multiplied are summed as the sums of what they multiply.
LEMMA SumsOfRepeated ==
  ASSUME NEW n \in Nat, NEW m \in Nat, NEW T \in [1 .. n -> 1 .. m],
         NEW x \in [1 .. m -> Int], NEW v \in [1 .. n -> Int],
         NEW f \in [1 .. n -> Int], \A k \in 1 .. n : f[k] = x[T[k]] * v[k],
         NEW g \in [1 .. m -> Int],
         \A p \in 1 .. m : g[p] = x[p] * Group("sum", n, m, T, v)[p]
  PROVE  Combined("sum", n, f) = Combined("sum", m, g)
<1>2. ASSUME NEW p \in 1 .. m PROVE Group("sum", n, m, T, f)[p] = g[p]
  <2> DEFINE fp == Masked("sum", n, T, f, p)
             vp == Masked("sum", n, T, v, p)
  <2>1. fp \in [1 .. n -> Int] /\ vp \in [1 .. n -> Int] /\ x[p] \in Int
    BY GroupTypes
  <2>2. ASSUME NEW k \in 1 .. n PROVE fp[k] = x[p] * vp[k]
    <3>1. fp[k] = IF T[k] = p THEN f[k] ELSE Unit("sum")
      BY DEF Masked
    <3>2. vp[k] = IF T[k] = p THEN v[k] ELSE Unit("sum")
      BY DEF Masked
    <3>3. Unit("sum") = 0 /\ f[k] = x[T[k]] * v[k] /\ v[k] \in Int
      BY DEF Unit
    <3> HIDE DEF fp, vp
    <3>4. CASE T[k] = p
      BY <3>1, <3>2, <3>3, <3>4
    <3>5. CASE T[k] # p
      BY <2>1, <3>1, <3>2, <3>3, <3>5
    <3> QED
      BY <3>4, <3>5
  <2> HIDE DEF fp, vp
  <2>3. Combined("sum", n, fp) = x[p] * Combined("sum", n, vp)
    BY <2>1, <2>2, CommonFactor
  <2>4. Group("sum", n, m, T, f)[p] = Combined("sum", n, fp)
    BY DEF Group, fp
  <2>5. Group("sum", n, m, T, v)[p] = Combined("sum", n, vp)
    BY DEF Group, vp
  <2> QED
    BY <2>3, <2>4, <2>5
<1>3. Group("sum", n, m, T, f) = g
  <2>1. Group("sum", n, m, T, f) = [p \in 1 .. m |-> Group("sum", n, m, T, f)[p]]
    BY DEF Group
  <2>2. g = [p \in 1 .. m |-> g[p]]
    OBVIOUS
  <2> QED
    BY <1>2, <2>1, <2>2
<1>4. Combined("sum", m, Group("sum", n, m, T, f)) = Combined("sum", n, f)
  BY Regroup
<1> QED
  BY <1>3, <1>4

\* Where a broadcast takes each of its values from.
Sources(small, s) ==
  [k \in 1 .. Size(s) |-> CoordOffset(small, ProjectBroadcastIndex(Unravel(k - 1, s), small)) + 1]

\* broadcast_reduce sums, at every place, the values a broadcast would take from it.
Gathers(t, small) ==
  LET n == Size(t.shape)
      m == Size(small)
      T == Sources(small, t.shape)
  IN /\ n \in Nat /\ m \in Nat /\ T \in [1 .. n -> 1 .. m]
     /\ t.values \in [1 .. n -> Int]
     /\ BroadcastReduceSum(t, small)
          = [dtype |-> t.dtype, shape |-> small, values |-> Group("sum", n, m, T, t.values)]
Gatherable(t, small) ==
  /\ IsTensor(t) /\ t.dtype \in Float /\ t.values # <<>> /\ Exact("sum", t)
  /\ small \in Shapes /\ CanBroadcastTo(small, t.shape)
LEMMA BroadcastReduceGathers ==
  ASSUME NEW t, NEW small, Gatherable(t, small), BroadcastReduceAxes(t.shape, small) # {}
  PROVE  Gathers(t, small)
<1> DEFINE s == t.shape
           axes == BroadcastReduceAxes(s, small)
           k == Trailing(s, small)
           big == ReducedShape(s, axes, TRUE)
           n == Size(s)
           T == Targets(s, axes, TRUE)
           u == ReduceAxes(t, "sum", axes, TRUE)
           d == t.dtype
           r == Group("sum", n, Size(big), T, t.values)
<1>1. /\ IsTensor(t) /\ d \in Float /\ t.values # <<>> /\ Exact("sum", t) /\ small \in Shapes
      /\ CanBroadcastTo(small, s) /\ axes # {}
  BY DEF Gatherable
<1>2. Safe("sum", n, t.values, Limit(d))
  BY <1>1, ExactIsBounded DEF Safe
<1>3. Reducible(t, "sum", {}) 
  BY <1>1, <1>2 DEF Reducible, ReduceOp
<1>4. s \in Shapes /\ n \in Nat /\ 0 < n /\ t.values \in [1 .. n -> Int]
  BY <1>3, ReducibleParts
<1>5. Undoes(s, small, axes, k)
  BY <1>1, <1>4, BroadcastUndone
<1>6. /\ BroadcastReducible(s, small) /\ axes \subseteq 0 .. (Len(s) - 1)
      /\ Squeezes(k, big, small)
      /\ \A c \in Coordinates(s) :
           ProjectBroadcastIndex(c, small) = Squeezed(k, small, ReducedCoord(c, axes, TRUE))
  BY <1>5 DEF Undoes
<1>7. axes \in SUBSET AxesOf(t) /\ s # <<>>
  <2>1. Len(s) \in Nat /\ DOMAIN s = 1 .. Len(s)
    BY <1>4, ShapeLength
  <2>2. PICK a \in axes : a \in 0 .. (Len(s) - 1)
    BY <1>1, <1>6
  <2>3. ASSUME NEW e \in axes PROVE e \in AxesOf(t)
    <3>1. e \in 0 .. (Len(s) - 1)
      BY <1>6
    <3>2. e + 1 \in DOMAIN t.shape /\ e = (e + 1) - 1
      BY <2>1, <3>1
    <3> QED
      BY <3>2 DEF AxesOf
  <2>4. s # <<>>
    <3>1. 1 \in DOMAIN s
      BY <2>1, <2>2
    <3> QED
      BY <3>1
  <2> QED
    BY <2>3, <2>4
<1> HIDE DEF axes
<1>8. Reducible(t, "sum", axes)
  BY <1>1, <1>2, <1>7 DEF Reducible, ReduceOp
<1>9. u = [dtype |-> d, shape |-> big, values |-> r]
  <2>1. {} \in SUBSET AxesOf(t)
    OBVIOUS
  <2>2. u = [dtype |-> d, shape |-> big, values |-> ResultOf(t, "sum", axes, TRUE)]
    BY <1>7, <1>8, <2>1, ReducedIsReducible
  <2>3. ResultOf(t, "sum", axes, TRUE) = r
    BY DEF ResultOf, Result
  <2> QED
    BY <2>2, <2>3
<1>10. /\ big \in Shapes /\ Size(big) \in Nat /\ r \in [1 .. Size(big) -> Held(d)] /\ IsTensor(u)
  <2>1. IsReduced(t, "sum", axes, TRUE)
    BY <1>8, ReduceExact
  <2>2. ResultOf(t, "sum", axes, TRUE) = r
    BY DEF ResultOf, Result
  <2>3. Reducible(u, "sum", {})
    BY <1>7, <1>8, ReducedIsReducible
  <2> QED
    BY <2>1, <2>2, <2>3 DEF IsReduced, Reducible
<1>11. T \in [1 .. n -> 1 .. Size(big)]
  BY <1>4, TargetsCover
<1>12. Size(small) = Size(big)
  BY <1>1, <1>6, <1>10, SqueezedSize
<1>13. T = Sources(small, s)
  <2>1. ASSUME NEW i \in 1 .. n PROVE T[i] = Sources(small, s)[i]
    <3> DEFINE c == Unravel(i - 1, s)
               e == ReducedCoord(c, axes, TRUE)
    <3>1. c \in Coordinates(s)
      <4>1. i - 1 \in 0 .. (Size(s) - 1)
        BY <1>4
      <4> QED
        BY <1>4, <4>1, UnravelIsDivMod
    <3>2. e \in Coordinates(big)
      <4> HIDE DEF c
      <4> QED
        BY <1>4, <3>1, ReducedFits
    <3>3. ProjectBroadcastIndex(c, small) = Squeezed(k, small, e)
      BY <1>6, <3>1
    <3>4. T[i] = CoordOffset(big, e) + 1
      BY DEF Targets
    <3>5. Sources(small, s)[i] = CoordOffset(small, ProjectBroadcastIndex(c, small)) + 1
      BY DEF Sources
    <3> HIDE DEF c, e, big, k
    <3>6. CoordOffset(big, e) = CoordOffset(small, Squeezed(k, small, e))
      BY <1>1, <1>6, <1>10, <3>2, SqueezedPlace
    <3> QED
      BY <3>3, <3>4, <3>5, <3>6
  <2>2. T = [i \in 1 .. n |-> T[i]]
    BY DEF Targets
  <2>3. Sources(small, s) = [i \in 1 .. n |-> Sources(small, s)[i]]
    BY DEF Sources
  <2> QED
    BY <2>1, <2>2, <2>3
<1>14. BroadcastReduceSum(t, small) = [dtype |-> d, shape |-> small, values |-> r]
  <2> HIDE DEF u, r, big, d
  <2>1. u.dtype = d /\ u.shape = big /\ u.values = r
    BY <1>9
  <2>2. d \in Dtype /\ ValuesF64(u) = r
    BY <1>1, <2>1 DEF Dtype, Float, ValuesF64
  <2>3. BroadcastReduceSum(t, small) = Reshape(u, small)
    BY <1>1, <1>6, <2>1, <2>2 DEF BroadcastReduceSum, axes, u, d
  <2>4. Reshape(u, small) = FromF64Like(d, small, r)
    BY <1>12, <2>1, <2>2 DEF Reshape
  <2>5. r \in [1 .. Size(small) -> Held(d)]
    BY <1>10, <1>12
  <2> QED
    BY <1>1, <2>3, <2>4, <2>5, FloatsAreExact
<1> QED
  BY <1>4, <1>10, <1>11, <1>12, <1>13, <1>14 DEF Gathers

\* A broadcast takes its values from their sources.
LEMMA BroadcastSources ==
  ASSUME NEW x, IsTensor(x), x.dtype \in Float, NEW s \in Shapes, CanBroadcastTo(x.shape, s)
  PROVE  Broadcast(x, s) = [dtype |-> x.dtype, shape |-> s,
                            values |-> [k \in 1 .. Size(s) |-> x.values[Sources(x.shape, s)[k]]]]
<1> DEFINE v == [i \in 1 .. Size(s) |-> x.values[Place(x, Unravel(i - 1, s))]]
           w == [k \in 1 .. Size(s) |-> x.values[Sources(x.shape, s)[k]]]
<1>1. Broadcast(x, s) = [dtype |-> x.dtype, shape |-> s, values |-> v]
  BY BroadcastIsExact
<1>2. \A k \in 1 .. Size(s) : Sources(x.shape, s)[k] = Place(x, Unravel(k - 1, s))
  BY DEF Sources, Place
<1>3. v = w
  BY <1>2
<1> QED
  BY <1>1, <1>3

\* Of a broadcast to the same shape there is nothing to sum.
LEMMA BroadcastToItself ==
  ASSUME NEW x, IsTensor(x), x.dtype \in Float
  PROVE  Broadcast(x, x.shape) = x
<1> DEFINE s == x.shape
           n == Size(s)
<1>1. /\ s \in Shapes /\ n \in Nat /\ x.values \in [1 .. n -> Held(x.dtype)]
      /\ x = [dtype |-> x.dtype, shape |-> s, values |-> x.values]
  BY TensorParts
<1>2. CanBroadcastTo(s, s)
  <2>1. Len(s) \in Nat /\ DOMAIN s = 1 .. Len(s)
    BY <1>1, ShapeLength
  <2>2. \A i \in 1 .. Len(s) : Len(s) - Len(s) + i = i
    BY <2>1
  <2> QED
    BY <2>1, <2>2 DEF CanBroadcastTo
<1>3. Broadcast(x, s) = [dtype |-> x.dtype, shape |-> s,
                         values |-> [k \in 1 .. n |-> x.values[Sources(s, s)[k]]]]
  BY <1>1, <1>2, BroadcastSources
<1>4. ASSUME NEW k \in 1 .. n PROVE Sources(s, s)[k] = k
  <2> DEFINE c == Unravel(k - 1, s)
  <2>1. k - 1 \in 0 .. (Size(s) - 1)
    BY <1>1
  <2>2. c \in Coordinates(s) /\ CoordOffset(s, c) = k - 1
    BY <1>1, <2>1, UnravelIsDivMod, OffsetOfUnravel
  <2>3. Sources(s, s)[k] = CoordOffset(s, ProjectBroadcastIndex(c, s)) + 1
    BY DEF Sources
  <2> HIDE DEF c
  <2>4. ProjectBroadcastIndex(c, s) = c
    BY <1>1, <2>2, ProjectToItself
  <2> QED
    BY <1>1, <2>2, <2>3, <2>4
<1>5. [k \in 1 .. n |-> x.values[Sources(s, s)[k]]] = x.values
  <2>1. [k \in 1 .. n |-> x.values[Sources(s, s)[k]]] = [k \in 1 .. n |-> x.values[k]]
    BY <1>4
  <2> QED
    BY <1>1, <2>1
<1> QED
  BY <1>1, <1>3, <1>5

\* Summing a broadcast against a tensor is summing against the tensor reduced.
LEMMA Adjoint ==
  ASSUME NEW x, IsTensor(x), x.dtype \in Float, NEW t, Gatherable(t, x.shape)
  PROVE  /\ BroadcastReduceSum(t, x.shape) # Err
         /\ BroadcastReduceSum(t, x.shape).shape = x.shape
         /\ Inner(Broadcast(x, t.shape), t) = Inner(x, BroadcastReduceSum(t, x.shape))
<1> DEFINE s == t.shape
           small == x.shape
           axes == BroadcastReduceAxes(s, small)
           reduced == BroadcastReduceSum(t, small)
           wide == Broadcast(x, s)
           n == Size(s)
           m == Size(small)
           T == Sources(small, s)
           v == t.values
           d == t.dtype
           e == x.dtype
<1>1. /\ IsTensor(t) /\ d \in Float /\ v # <<>> /\ small \in Shapes /\ CanBroadcastTo(small, s)
  BY DEF Gatherable
<1>2. /\ s \in Shapes /\ n \in Nat /\ Len(v) = n /\ v \in [1 .. n -> Held(d)]
      /\ t = [dtype |-> d, shape |-> s, values |-> v] /\ d \in Dtype
  BY <1>1, TensorParts
<1>3. m \in Nat /\ Len(x.values) = m /\ x.values \in [1 .. m -> Int]
  <2>1. e \in Dtype /\ m \in Nat /\ Len(x.values) = m /\ x.values \in [1 .. m -> Held(e)]
    BY TensorParts
  <2>2. Held(e) \subseteq Int
    BY <2>1, HeldTypes
  <2> QED
    BY <2>1, <2>2
<1>4. 0 < n
  <2>1. n # 0
    <3> SUFFICES ASSUME n = 0 PROVE FALSE
      OBVIOUS
    <3>1. v \in Seq(Int) /\ Len(v) = 0
      BY <1>1, <1>2 DEF IsTensor
    <3> HIDE DEF v
    <3> QED
      BY <1>1, <3>1
  <2> QED
    BY <1>2, <2>1
<1>5. /\ BroadcastReducible(s, small) /\ (axes = {} => small = s)
  <2>1. Undoes(s, small, axes, Trailing(s, small))
    BY <1>1, <1>2, <1>4, BroadcastUndone
  <2> QED
    BY <2>1 DEF Undoes
<1>6. CASE axes = {}
  <2>1. small = s
    BY <1>5, <1>6
  <2>2. reduced = Reshape(t, s)
    BY <1>1, <1>2, <1>5, <1>6, <2>1 DEF BroadcastReduceSum
  <2>3. Reshape(t, s) = FromF64Like(d, s, v)
    BY <1>1 DEF Reshape, ValuesF64, Float
  <2>4. FromF64Like(d, s, v) = [dtype |-> d, shape |-> s, values |-> v]
    <3> HIDE DEF d, s, v
    <3> QED
      BY <1>1, <1>2, FloatsAreExact DEF n
  <2>5. reduced = t
    BY <1>2, <2>2, <2>3, <2>4
  <2>6. wide = x
    BY <2>1, BroadcastToItself
  <2>7. t # Err
    BY <1>1 DEF Err, Float
  <2> QED
    BY <2>1, <2>5, <2>6, <2>7
<1>7. CASE axes # {}
  <2> DEFINE G == Group("sum", n, m, T, v)
             w == [k \in 1 .. n |-> x.values[T[k]]]
             f == [k \in 1 .. n |-> x.values[T[k]] * v[k]]
             g == [p \in 1 .. m |-> x.values[p] * G[p]]
  <2>1. /\ T \in [1 .. n -> 1 .. m] /\ v \in [1 .. n -> Int]
        /\ reduced = [dtype |-> d, shape |-> small, values |-> G]
    <3>1. Gathers(t, small)
      BY <1>7, BroadcastReduceGathers
    <3> QED
      BY <3>1 DEF Gathers
  <2>2. wide = [dtype |-> e, shape |-> s, values |-> w]
    BY <1>1, <1>2, BroadcastSources
  <2>3. reduced # Err
    <3>1. reduced.dtype = d
      BY <2>1
    <3> QED
      BY <1>1, <3>1 DEF Err, Float
  <2>4. Combined("sum", n, f) = Combined("sum", m, g)
    <3> DEFINE y == x.values
    <3>1. n \in Nat /\ m \in Nat /\ y \in [1 .. m -> Int]
      BY <1>2, <1>3
    <3>2. T \in [1 .. n -> 1 .. m] /\ v \in [1 .. n -> Int]
      BY <2>1
    <3>3. f \in [1 .. n -> Int] /\ \A k \in 1 .. n : f[k] = y[T[k]] * v[k]
      <4>1. \A k \in 1 .. n : y[T[k]] \in Int /\ v[k] \in Int
        <5> HIDE DEF n, m, T, v, y
        <5> QED
          BY <3>1, <3>2
      <4>2. \A k \in 1 .. n : y[T[k]] * v[k] \in Int
        <5> HIDE DEF n, m, T, v, y
        <5> QED
          BY <4>1
      <4> QED
        BY <4>2
    <3>4. g \in [1 .. m -> Int] /\ \A p \in 1 .. m : g[p] = y[p] * Group("sum", n, m, T, v)[p]
      <4>1. G \in [1 .. m -> Int]
        <5> HIDE DEF n, m, T, v
        <5> QED
          BY <3>1, <3>2, GroupTypes
      <4>2. \A p \in 1 .. m : y[p] * G[p] \in Int
        <5> HIDE DEF n, m, T, v, y, G
        <5> QED
          BY <3>1, <4>1
      <4> QED
        BY <4>2
    <3> HIDE DEF n, m, T, v, y, f, g, G
    <3> QED
      BY <3>1, <3>2, <3>3, <3>4, SumsOfRepeated, ZenonT(40)
  <2> HIDE DEF reduced, wide, G, n, m, T, d, e
  <2>5. wide.values = w /\ reduced.values = G /\ reduced.shape = small
    BY <2>1, <2>2
  <2>6. Inner(wide, t) = Combined("sum", n, f)
    <3>1. Len(w) = n
      BY <1>2
    <3>2. Inner(wide, t) = Combined("sum", n, [k \in 1 .. n |-> w[k] * v[k]])
      <4> HIDE DEF w
      <4> QED
        BY <2>5, <3>1 DEF Inner
    <3>3. [k \in 1 .. n |-> w[k] * v[k]] = f
      OBVIOUS
    <3> QED
      BY <3>2, <3>3
  <2>7. Inner(x, reduced) = Combined("sum", m, g)
    BY <1>3, <2>5 DEF Inner
  <2> QED
    BY <2>3, <2>4, <2>5, <2>6, <2>7 DEF reduced, wide
<1> QED
  BY <1>6, <1>7

\* BroadcastReduceSum: it accepts every shape that broadcasts to the tensor's, and is
\* what a gradient needs: summing any x broadcast against a tensor whose sums are
\* exact is summing x against the tensor reduced.
THEOREM BroadcastReduceIsAlwaysAdjoint == Spec => []BroadcastReduceIsAdjoint
<1>1. IsTensor(tensor) => BroadcastReduceIsAdjoint
  <2> SUFFICES ASSUME IsTensor(tensor), NEW x \in Operands, Exact("sum", tensor), x.dtype \in Float,
                      tensor.values # <<>>, CanBroadcastTo(x.shape, tensor.shape)
               PROVE  LET reduced == BroadcastReduceSum(tensor, x.shape)
                      IN /\ reduced # Err /\ reduced.shape = x.shape
                         /\ Inner(Broadcast(x, tensor.shape), tensor) = Inner(x, reduced)
    BY DEF BroadcastReduceIsAdjoint
  <2>1. IsTensor(x)
    BY InputAssumption
  <2>2. x.shape \in Shapes
    BY <2>1, TensorParts
  <2>3. Gatherable(tensor, x.shape)
    BY <2>2 DEF Gatherable, Exact
  <2> QED
    BY <2>1, <2>3, Adjoint
<1> QED
  BY <1>1, TensorHeld, PTL
=============================================================================
