------------------------------ MODULE MCTensor ------------------------------
(* A small instance of TensorRoutes for TLC. *)
EXTENDS TensorRoutes, TLC

MCShapes == {<<>>, <<1>>, <<2>>, <<0>>, <<1, 2>>, <<2, 1>>, <<2, 2>>, <<2, 2, 1>>, <<1, 2, 2>>,
             <<2, 1, 2>>}

\* Different values at every position, or one value u64 holds and f64 does not.
MCCount(n) == [i \in 1..n |-> i]
MCSign(n) == [i \in 1..n |-> IF i % 2 = 0 THEN 0 ELSE 1]
MCWide(n) == [i \in 1..n |-> F64Exact + i]

MCLiterals ==
  {[dtype |-> "f64", shape |-> s, values |-> v] :
     s \in MCShapes, v \in UNION {{MCCount(n), MCSign(n)} : n \in {0, 1, 2, 4}}}
  \cup {[dtype |-> d, shape |-> <<2, 1>>, values |-> v] :
          d \in Dtype, v \in {MCCount(2), MCWide(2), <<-3, 1>>, <<1>>, <<Complex, 1>>}}

MCOperands ==
  {TensorFromParts("f64", s, MCCount(Size(s))) : s \in MCShapes}
  \cup {TensorFromParts("f32", <<2>>, <<2, 3>>), TensorFromParts("u64", <<2>>, <<2, 0>>)}

MCShapeArgs == MCShapes \cup {<<4>>, <<1, 0>>, <<0, 1>>, <<1, 1>>, <<2, 1, 0>>, <<0, 0>>, <<2, 2, 2>>}
MCBoundArgs ==
  {[at |-> TRUE, args |-> <<i>>] : i \in {-1, 0, 1}}
  \cup {[at |-> FALSE, args |-> a] : a \in {<<>>, <<0>>, <<1>>, <<0, 2>>, <<2, 1>>, <<0, 2, 2>>, <<0, 2, 0>>}}
MCNumbers == {-1, 0, F32Exact + 1, F64Exact + 1, U64Max + 1, Complex}
=============================================================================
