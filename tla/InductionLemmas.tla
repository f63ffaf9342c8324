---------------------------- MODULE InductionLemmas ----------------------------
(***************************************************************************)
(* Induction and recursion over the natural numbers, as lemmas that take   *)
(* sets and functions where the library's theorems take operators.         *)
(*                                                                         *)
(* Induction rests on the least element of a set (WFMin); the existence of *)
(* a function defined by recursion is proved from it.                      *)
(***************************************************************************)
EXTENDS Sorting, FiniteSetTheorems, WellFoundedInduction, TLAPS

\* Every set of natural numbers has a least element.
LEMMA LeastNumber ==
  ASSUME NEW S \in SUBSET Nat, S # {}
  PROVE  \E n \in S : \A m \in S : n <= m
<1> DEFINE R == {p \in Nat \X Nat : p[1] < p[2]}
<1>1. IsWellFoundedOn(R, Nat)
  BY NatLessThanWellFounded DEF OpToRel
<1>2. PICK n \in S : \A m \in S : <<m, n>> \notin R
  <2> HIDE DEF R
  <2> QED
    BY <1>1, WFMin
<1>3. \A m \in S : ~(m < n)
  BY <1>2
<1> QED
  BY <1>3

\* Induction, with a set for the predicate.
LEMMA Induction ==
  ASSUME NEW S \in SUBSET Nat, 0 \in S, \A n \in S : n + 1 \in S
  PROVE  \A n \in Nat : n \in S
<1> SUFFICES ASSUME Nat \ S # {} PROVE FALSE
  OBVIOUS
<1>1. PICK n \in Nat \ S : \A m \in Nat \ S : n <= m
  BY LeastNumber
<1>2. n - 1 \in Nat /\ n - 1 \in S /\ (n - 1) + 1 = n
  BY <1>1
<1> QED
  BY <1>1, <1>2

\* A function is defined by its value at 0 and by its value at n for that at n + 1.
LEMMA Recursion ==
  ASSUME NEW V, NEW a \in V, NEW F \in [Nat -> [V -> V]]
  PROVE  \E f \in [Nat -> V] : f[0] = a /\ \A n \in Nat : f[n + 1] = F[n + 1][f[n]]
<1> DEFINE Part(n) == {g \in [0 .. n -> V] :
                         /\ g[0] = a
                         /\ \A m \in 0 .. n : m + 1 <= n => g[m + 1] = F[m + 1][g[m]]}
<1>1. ASSUME NEW n \in Nat, NEW p \in Nat, NEW g \in Part(n), NEW h \in Part(p),
             NEW m \in Nat, m <= n, m <= p
      PROVE  g[m] = h[m]
  <2> DEFINE S == {i \in Nat : i <= n /\ i <= p => g[i] = h[i]}
  <2>1. 0 \in S
    OBVIOUS
  <2>2. ASSUME NEW i \in S PROVE i + 1 \in S
    OBVIOUS
  <2>3. S \in SUBSET Nat
    OBVIOUS
  <2> HIDE DEF S
  <2>4. m \in S
    BY <2>1, <2>2, <2>3, Induction
  <2> QED
    BY <1>1, <2>4 DEF S
<1>2. ASSUME NEW n \in Nat PROVE Part(n) # {}
  <2> DEFINE S == {i \in Nat : Part(i) # {}}
  <2>1. 0 \in S
    <3>1. [i \in 0 .. 0 |-> a] \in Part(0)
      OBVIOUS
    <3> QED
      BY <3>1
  <2>2. ASSUME NEW i \in S PROVE i + 1 \in S
    <3>1. PICK g : g \in Part(i)
      OBVIOUS
    <3> DEFINE h == [j \in 0 .. i + 1 |-> IF j = i + 1 THEN F[i + 1][g[i]] ELSE g[j]]
    <3>2. h \in [0 .. i + 1 -> V]
      BY <3>1
    <3>3. h \in Part(i + 1)
      BY <3>1, <3>2
    <3>4. i + 1 \in Nat
      OBVIOUS
    <3> HIDE DEF Part
    <3> QED
      BY <3>3, <3>4
  <2>3. S \in SUBSET Nat
    OBVIOUS
  <2> HIDE DEF S
  <2>4. n \in S
    BY <2>1, <2>2, <2>3, Induction
  <2> QED
    BY <2>4 DEF S
<1> DEFINE G(n) == CHOOSE g : g \in Part(n)
           f == [n \in Nat |-> G(n)[n]]
<1>3. \A n \in Nat : G(n) \in Part(n)
  <2> HIDE DEF Part
  <2> QED
    BY <1>2
<1> HIDE DEF G
<1>4. f \in [Nat -> V] /\ f[0] = a
  BY <1>3
<1>5. ASSUME NEW n \in Nat PROVE f[n + 1] = F[n + 1][f[n]]
  <2>1. G(n) \in Part(n) /\ G(n + 1) \in Part(n + 1)
    BY <1>3
  <2>2. G(n + 1)[n + 1] = F[n + 1][G(n + 1)[n]]
    BY <2>1
  <2> HIDE DEF Part
  <2>3. G(n + 1)[n] = G(n)[n]
    BY <2>1, <1>1
  <2> QED
    BY <2>2, <2>3
<1> QED
  BY <1>4, <1>5


\* The same, by names: what is to be matched is then a term.
Steps(N, V) == [N -> [V -> V]]
Recurs(V, a, F) == \E f \in [Nat -> V] : f[0] = a /\ \A n \in Nat : f[n + 1] = F[n + 1][f[n]]
RecursTo(n, V, a, F) ==
  \E f \in [0 .. n -> V] : f[0] = a /\ \A i \in 1 .. n : f[i] = F[i][f[i - 1]]
RecursFrom(n, V, a, F) ==
  \E f \in [1 .. (n + 1) -> V] : f[n + 1] = a /\ \A i \in 1 .. n : f[i] = F[i][f[i + 1]]
LEMMA RecursionByName ==
  ASSUME NEW W, NEW b \in W, NEW H \in Steps(Nat, W)
  PROVE  Recurs(W, b, H)
<1>1. H \in [Nat -> [W -> W]]
  BY DEF Steps
<1>2. \E f \in [Nat -> W] : f[0] = b /\ \A n \in Nat : f[n + 1] = H[n + 1][f[n]]
  BY <1>1, Recursion, SMTT(30)
<1> QED
  BY <1>2 DEF Recurs

\* Recursion over 0 .. n.
LEMMA FiniteRecursion ==
  ASSUME NEW n \in Nat, NEW W, NEW b \in W, NEW H \in Steps(1 .. n, W)
  PROVE  RecursTo(n, W, b, H)
<1>1. PICK G \in Steps(Nat, W) : \A i \in 1 .. n : G[i] = H[i]
  <2> DEFINE G == [i \in Nat |-> IF i \in 1 .. n THEN H[i] ELSE [v \in W |-> v]]
  <2>1. G \in Steps(Nat, W) /\ \A i \in 1 .. n : G[i] = H[i]
    BY DEF Steps
  <2> HIDE DEF G
  <2> QED
    BY <2>1
<1>2. Recurs(W, b, G)
  BY RecursionByName
<1>3. PICK g \in [Nat -> W] : g[0] = b /\ \A i \in Nat : g[i + 1] = G[i + 1][g[i]]
  BY <1>2 DEF Recurs
<1>4. ASSUME NEW i \in 1 .. n PROVE g[i] = H[i][g[i - 1]]
  <2>1. i \in Nat /\ i - 1 \in Nat /\ (i - 1) + 1 = i
    OBVIOUS
  <2>2. g[i] = G[i][g[i - 1]]
    BY <1>3, <2>1
  <2> QED
    BY <1>1, <2>2
<1> DEFINE f == [i \in 0 .. n |-> g[i]]
<1>5. f \in [0 .. n -> W] /\ f[0] = b
  BY <1>3
<1>6. ASSUME NEW i \in 1 .. n PROVE f[i] = H[i][f[i - 1]]
  BY <1>4
<1> HIDE DEF f
<1> QED
  BY <1>5, <1>6 DEF RecursTo

\* Recursion over 1 .. n + 1 from its end.
LEMMA DownwardRecursion ==
  ASSUME NEW m \in Nat, NEW W, NEW b \in W, NEW H \in Steps(1 .. m, W)
  PROVE  RecursFrom(m, W, b, H)
<1>1. PICK G \in Steps(1 .. m, W) : \A i \in 1 .. m : G[i] = H[m + 1 - i]
  <2> DEFINE G == [i \in 1 .. m |-> H[m + 1 - i]]
  <2>1. G \in Steps(1 .. m, W) /\ \A i \in 1 .. m : G[i] = H[m + 1 - i]
    BY DEF Steps
  <2> HIDE DEF G
  <2> QED
    BY <2>1
<1>2. RecursTo(m, W, b, G)
  BY FiniteRecursion
<1>3. PICK g \in [0 .. m -> W] : g[0] = b /\ \A i \in 1 .. m : g[i] = G[i][g[i - 1]]
  BY <1>2 DEF RecursTo
<1> DEFINE f == [i \in 1 .. (m + 1) |-> g[m + 1 - i]]
<1>4. f \in [1 .. (m + 1) -> W] /\ f[m + 1] = b
  BY <1>3
<1>5. ASSUME NEW i \in 1 .. m PROVE f[i] = H[i][f[i + 1]]
  <2>1. m + 1 - i \in 1 .. m /\ m + 1 - (m + 1 - i) = i /\ (m + 1 - i) - 1 = m + 1 - (i + 1)
    OBVIOUS
  <2>2. g[m + 1 - i] = H[i][g[m + 1 - (i + 1)]]
    BY <1>1, <1>3, <2>1
  <2> QED
    BY <2>2
<1> HIDE DEF f
<1> QED
  BY <1>4, <1>5 DEF RecursFrom

\* Induction over 0 .. n.
LEMMA UpTo ==
  ASSUME NEW n \in Nat, NEW S, 0 \in S, \A i \in 0 .. (n - 1) : i \in S => i + 1 \in S
  PROVE  \A i \in 0 .. n : i \in S
<1> DEFINE T == {i \in Nat : i <= n => i \in S}
<1>1. 0 \in T
  OBVIOUS
<1>2. ASSUME NEW i \in T PROVE i + 1 \in T
  OBVIOUS
<1>3. T \in SUBSET Nat
  OBVIOUS
<1> HIDE DEF T
<1>4. \A i \in Nat : i \in T
  BY <1>1, <1>2, <1>3, Induction
<1> QED
  BY <1>4 DEF T

\* Induction over 1 .. n + 1 from its end.
LEMMA DownFrom ==
  ASSUME NEW n \in Nat, NEW S, n + 1 \in S, \A i \in 1 .. n : i + 1 \in S => i \in S
  PROVE  \A i \in 1 .. (n + 1) : i \in S
<1> DEFINE T == {j \in 0 .. n : n + 1 - j \in S}
<1>1. 0 \in T
  OBVIOUS
<1>2. ASSUME NEW j \in 0 .. (n - 1), j \in T PROVE j + 1 \in T
  <2>1. n + 1 - (j + 1) \in 1 .. n /\ (n + 1 - (j + 1)) + 1 = n + 1 - j
    OBVIOUS
  <2> QED
    BY <1>2, <2>1
<1> HIDE DEF T
<1>3. \A j \in 0 .. n : j \in T
  BY <1>1, <1>2, UpTo
<1>4. ASSUME NEW i \in 1 .. (n + 1) PROVE i \in S
  <2>1. n + 1 - i \in T /\ n + 1 - (n + 1 - i) = i
    BY <1>3
  <2> QED
    BY <2>1 DEF T
<1> QED
  BY <1>4


\* Induction over 1 .. n + 1 from its start.
LEMMA UpFrom ==
  ASSUME NEW n \in Nat, NEW S, 1 \in S, \A i \in 1 .. n : i \in S => i + 1 \in S
  PROVE  \A i \in 1 .. (n + 1) : i \in S
<1> DEFINE T == {j \in 0 .. n : j + 1 \in S}
<1>1. 0 \in T
  OBVIOUS
<1>2. ASSUME NEW j \in 0 .. (n - 1), j \in T PROVE j + 1 \in T
  <2>1. j + 1 \in 1 .. n /\ j + 1 \in S
    BY <1>2
  <2> QED
    BY <2>1
<1> HIDE DEF T
<1>3. \A j \in 0 .. n : j \in T
  BY <1>1, <1>2, UpTo
<1>4. ASSUME NEW i \in 1 .. (n + 1) PROVE i \in S
  <2>1. i - 1 \in T /\ (i - 1) + 1 = i
    BY <1>3
  <2> QED
    BY <2>1 DEF T
<1> QED
  BY <1>4


\* Recursion over a grid, from its far corner.
GridOf(m, n) == (1 .. (m + 1)) \X (1 .. (n + 1))
GridSteps(m, n, V) == [(1 .. m) \X (1 .. n) -> [V \X V \X V -> V]]
IsGrid(f, m, n, V, base, F) ==
  /\ f \in [GridOf(m, n) -> V]
  /\ \A i \in 1 .. (m + 1), j \in 1 .. (n + 1) :
       f[<<i, j>>] = IF i > m \/ j > n THEN base[<<i, j>>]
                     ELSE F[<<i, j>>][<<f[<<i + 1, j>>], f[<<i, j + 1>>], f[<<i + 1, j + 1>>]>>]
LEMMA GridRecursion ==
  ASSUME NEW p \in Nat, NEW q \in Nat, NEW W, NEW base \in [GridOf(p, q) -> W],
         NEW F \in GridSteps(p, q, W)
  PROVE  \E f : IsGrid(f, p, q, W, base, F)
<1> DEFINE Row == [1 .. (q + 1) -> W]
           Is(i, next, row) ==
             /\ row \in Row /\ row[q + 1] = base[<<i, q + 1>>]
             /\ \A j \in 1 .. q : row[j] = F[<<i, j>>][<<next[j], row[j + 1], next[j + 1]>>]
           H == [i \in 1 .. p |-> [next \in Row |-> CHOOSE row : Is(i, next, row)]]
<1>1. /\ \A i \in 1 .. (p + 1), j \in 1 .. (q + 1) : base[<<i, j>>] \in W
      /\ \A i \in 1 .. p, j \in 1 .. q, a, b, c \in W : F[<<i, j>>][<<a, b, c>>] \in W
  BY DEF GridOf, GridSteps
<1>2. ASSUME NEW i \in 1 .. p, NEW next \in Row PROVE \E row : Is(i, next, row)
  <2> DEFINE a == base[<<i, q + 1>>]
             G == [j \in 1 .. q |-> [v \in W |-> F[<<i, j>>][<<next[j], v, next[j + 1]>>]]]
  <2>1. \A j \in 1 .. q : next[j] \in W /\ next[j + 1] \in W
    OBVIOUS
  <2>2. a \in W /\ G \in Steps(1 .. q, W)
    BY <1>1, <2>1 DEF Steps
  <2> HIDE DEF a, G
  <2>3. RecursFrom(q, W, a, G)
    BY <2>2, DownwardRecursion
  <2>4. PICK row \in [1 .. (q + 1) -> W] :
          row[q + 1] = a /\ \A j \in 1 .. q : row[j] = G[j][row[j + 1]]
    BY <2>3 DEF RecursFrom
  <2>5. \A j \in 1 .. q : row[j + 1] \in W
    BY <2>4
  <2>6. Is(i, next, row)
    BY <2>4, <2>5 DEF a, G
  <2> QED
    BY <2>6
<1>3. \A i \in 1 .. p, next \in Row : Is(i, next, H[i][next])
  <2> HIDE DEF Is, Row
  <2> QED
    BY <1>2
<1>4. H \in Steps(1 .. p, Row)
  <2>1. \A i \in 1 .. p, next \in Row : H[i][next] \in Row
    BY <1>3
  <2> HIDE DEF Is, Row
  <2> QED
    BY <2>1 DEF Steps
<1> DEFINE last == [j \in 1 .. (q + 1) |-> base[<<p + 1, j>>]]
<1>5. last \in Row
  BY <1>1
<1> HIDE DEF H
<1>6. RecursFrom(p, Row, last, H)
  <2> HIDE DEF last, Row
  <2> QED
    BY <1>4, <1>5, DownwardRecursion
<1>7. PICK g \in [1 .. (p + 1) -> Row] : g[p + 1] = last /\ \A i \in 1 .. p : g[i] = H[i][g[i + 1]]
  BY <1>6 DEF RecursFrom
<1> DEFINE f == [c \in GridOf(p, q) |-> g[c[1]][c[2]]]
<1>8. \A i \in 1 .. (p + 1), j \in 1 .. (q + 1) : f[<<i, j>>] = g[i][j] /\ g[i][j] \in W
  BY <1>7 DEF GridOf
<1>9. f \in [GridOf(p, q) -> W]
  BY <1>7 DEF GridOf
<1>10. ASSUME NEW i \in 1 .. (p + 1), NEW j \in 1 .. (q + 1)
       PROVE  f[<<i, j>>] = IF i > p \/ j > q THEN base[<<i, j>>]
                ELSE F[<<i, j>>][<<f[<<i + 1, j>>], f[<<i, j + 1>>], f[<<i + 1, j + 1>>]>>]
  <2>1. CASE i = p + 1
    <3>1. g[i][j] = base[<<i, j>>] /\ i > p
      BY <1>7, <2>1
    <3> HIDE DEF f
    <3> QED
      BY <1>8, <3>1
  <2>2. CASE i # p + 1
    <3>1. i \in 1 .. p /\ i + 1 \in 1 .. (p + 1)
      BY <2>2
    <3>2. Is(i, g[i + 1], g[i])
      <4>1. g[i + 1] \in Row
        BY <1>7, <3>1
      <4>2. g[i] = H[i][g[i + 1]]
        BY <1>7, <3>1
      <4> HIDE DEF Is, Row
      <4>3. Is(i, g[i + 1], H[i][g[i + 1]])
        BY <1>3, <3>1, <4>1
      <4> QED
        BY <4>2, <4>3
    <3>3. CASE j = q + 1
      <4>1. g[i][j] = base[<<i, j>>] /\ j > q
        BY <3>2, <3>3
      <4> HIDE DEF f
      <4> QED
        BY <1>8, <4>1
    <3>4. CASE j # q + 1
      <4>1. j \in 1 .. q /\ j + 1 \in 1 .. (q + 1)
        BY <3>4
      <4>2. /\ f[<<i + 1, j>>] = g[i + 1][j] /\ f[<<i, j + 1>>] = g[i][j + 1]
            /\ f[<<i + 1, j + 1>>] = g[i + 1][j + 1]
        BY <1>8, <3>1, <4>1
      <4>3. g[i][j] = F[<<i, j>>][<<g[i + 1][j], g[i][j + 1], g[i + 1][j + 1]>>]
        BY <3>2, <4>1
      <4>4. f[<<i, j>>] = g[i][j] /\ ~(i > p \/ j > q)
        BY <1>8, <3>1, <4>1
      <4> HIDE DEF f
      <4> QED
        BY <4>2, <4>3, <4>4
    <3> QED
      BY <3>3, <3>4
  <2> QED
    BY <2>1, <2>2
<1> HIDE DEF f
<1>11. IsGrid(f, p, q, W, base, F)
  BY <1>9, <1>10 DEF IsGrid
<1> QED
  BY <1>11

\* Induction over a grid, from its far corner.
LEMMA GridInduction ==
  ASSUME NEW p \in Nat, NEW q \in Nat, NEW S,
         \A i \in 1 .. (p + 1) : <<i, q + 1>> \in S,
         \A j \in 1 .. (q + 1) : <<p + 1, j>> \in S,
         \A i \in 1 .. p, j \in 1 .. q :
           <<i + 1, j>> \in S /\ <<i, j + 1>> \in S /\ <<i + 1, j + 1>> \in S => <<i, j>> \in S
  PROVE  \A i \in 1 .. (p + 1), j \in 1 .. (q + 1) : <<i, j>> \in S
<1> DEFINE T == {i \in 1 .. (p + 1) : \A j \in 1 .. (q + 1) : <<i, j>> \in S}
<1>1. p + 1 \in T
  OBVIOUS
<1>2. ASSUME NEW i \in 1 .. p, i + 1 \in T PROVE i \in T
  <2> DEFINE R == {j \in 1 .. (q + 1) : <<i, j>> \in S}
  <2>1. q + 1 \in R
    OBVIOUS
  <2>2. ASSUME NEW j \in 1 .. q, j + 1 \in R PROVE j \in R
    <3>1. j \in 1 .. (q + 1) /\ j + 1 \in 1 .. (q + 1) /\ <<i, j + 1>> \in S
      BY <2>2
    <3>2. <<i + 1, j>> \in S /\ <<i + 1, j + 1>> \in S
      BY <1>2, <3>1
    <3> QED
      BY <3>1, <3>2
  <2> HIDE DEF R, T
  <2>3. \A j \in 1 .. (q + 1) : j \in R
    BY <2>1, <2>2, DownFrom
  <2>4. i \in 1 .. (p + 1)
    OBVIOUS
  <2> QED
    BY <2>3, <2>4 DEF R, T
<1> HIDE DEF T
<1>3. \A i \in 1 .. (p + 1) : i \in T
  BY <1>1, <1>2, DownFrom
<1> QED
  BY <1>3 DEF T

-----------------------------------------------------------------------------
(* Sets in order. *)

Ordering(U) == {R \in SUBSET (U \X U) :
                  /\ \A x \in U : <<x, x>> \notin R
                  /\ \A x, y, z \in U : <<x, y>> \in R /\ <<y, z>> \in R => <<x, z>> \in R
                  /\ \A x, y \in U : x = y \/ <<x, y>> \in R \/ <<y, x>> \in R}
InOrder(s, n, S, R) ==
  /\ s \in [1 .. n -> S]
  /\ \A i, j \in 1 .. n : i < j => <<s[i], s[j]>> \in R
Enumerates(s, n, S) ==
  /\ s \in [1 .. n -> S]
  /\ \A i, j \in 1 .. n : s[i] = s[j] => i = j
  /\ \A e \in S : \E i \in 1 .. n : s[i] = e

\* A sequence in order that is as long as its set holds every element once.
LEMMA InOrderIsOnto ==
  ASSUME NEW W, NEW Q \in Ordering(W), NEW Z \in SUBSET W, IsFiniteSet(Z),
         NEW z, InOrder(z, Cardinality(Z), Z, Q)
  PROVE  Enumerates(z, Cardinality(Z), Z)
<1> DEFINE m == Cardinality(Z)
<1>1. m \in Nat
  BY FS_CardinalityType
<1> HIDE DEF m
<1>2. z \in [1 .. m -> Z] /\ \A i, j \in 1 .. m : i < j => <<z[i], z[j]>> \in Q
  BY DEF InOrder, m
<1>3. ASSUME NEW i \in 1 .. m, NEW j \in 1 .. m, z[i] = z[j] PROVE i = j
  <2>1. z[i] \in W /\ <<z[i], z[i]>> \notin Q
    BY <1>2 DEF Ordering
  <2>2. ~(i < j) /\ ~(j < i)
    BY <1>2, <1>3, <2>1
  <2> QED
    BY <1>1, <2>2
<1>4. z \in Injection(1 .. m, Z)
  BY <1>2, <1>3 DEF Injection, IsInjective
<1>5. Cardinality(1 .. m) = m /\ IsFiniteSet(1 .. m)
  BY <1>1, FS_Interval
<1>6. z \in Surjection(1 .. m, Z)
  BY <1>4, <1>5, FS_Injection DEF m
<1>7. \A e \in Z : \E i \in 1 .. m : z[i] = e
  BY <1>6 DEF Surjection
<1> QED
  BY <1>2, <1>3, <1>7 DEF Enumerates, m

\* A finite set can be put in order.
LEMMA InOrderExists ==
  ASSUME NEW U, NEW R \in Ordering(U), NEW D \in SUBSET U, IsFiniteSet(D)
  PROVE  \E s : InOrder(s, Cardinality(D), D, R)
<1> DEFINE P == {n \in Nat : \A T \in SUBSET U :
                    IsFiniteSet(T) /\ Cardinality(T) = n => \E s : InOrder(s, n, T, R)}
<1>1. 0 \in P
  <2>1. ASSUME NEW T PROVE InOrder(<<>>, 0, T, R)
    <3>1. <<>> \in [1 .. 0 -> T]
      OBVIOUS
    <3> QED
      BY <3>1 DEF InOrder
  <2> QED
    BY <2>1
<1>2. ASSUME NEW n \in Nat, n \in P PROVE n + 1 \in P
  <2>1. \A T \in SUBSET U :
          IsFiniteSet(T) /\ Cardinality(T) = n => \E s : InOrder(s, n, T, R)
    BY <1>2
  <2>2. ASSUME NEW T \in SUBSET U, IsFiniteSet(T), Cardinality(T) = n + 1
        PROVE  \E s : InOrder(s, n + 1, T, R)
    <3> HIDE DEF P
    <3>1. T # {}
      BY <2>2, FS_EmptySet
    <3>2. PICK u : u \in T
      BY <3>1
    <3>3. PICK m \in T : \A y \in T : y # m => <<y, m>> \in R
      <4> DEFINE A == T \ {u}
      <4>1. IsFiniteSet(A) /\ Cardinality(A) = n /\ A \in SUBSET U
        <5>1. IsFiniteSet(A) /\ Cardinality(A) = Cardinality(T) - 1
          BY <2>2, <3>2, FS_RemoveElement
        <5> QED
          BY <2>2, <5>1
      <4>2. PICK a : InOrder(a, n, A, R)
        <5> HIDE DEF A
        <5> QED
          BY <2>1, <4>1
      <4>3. \A e \in A : \E i \in 1 .. n : a[i] = e
        <5> HIDE DEF A
        <5>1. InOrder(a, Cardinality(A), A, R)
          BY <4>1, <4>2
        <5>2. Enumerates(a, Cardinality(A), A)
          BY <4>1, <5>1, InOrderIsOnto
        <5> QED
          BY <4>1, <5>2 DEF Enumerates
      <4>4. a \in [1 .. n -> A] /\ \A i, j \in 1 .. n : i < j => <<a[i], a[j]>> \in R
        BY <4>2 DEF InOrder
      <4>5. CASE n = 0
        BY <3>2, <4>3, <4>5
      <4>6. CASE n # 0
        <5>1. n \in 1 .. n /\ a[n] \in T /\ a[n] \in U /\ a[n] # u
          BY <4>4, <4>6
        <5>2. \A y \in A : y # a[n] => <<y, a[n]>> \in R
          <6> SUFFICES ASSUME NEW y \in A, y # a[n] PROVE <<y, a[n]>> \in R
            OBVIOUS
          <6>1. PICK i \in 1 .. n : a[i] = y
            BY <4>3
          <6>2. i < n
            BY <6>1
          <6> QED
            BY <4>4, <5>1, <6>1, <6>2
        <5>3. CASE <<u, a[n]>> \in R
          BY <5>1, <5>2, <5>3
        <5>4. CASE <<a[n], u>> \in R
          <6>1. \A y \in T : y # u => <<y, u>> \in R
            BY <3>2, <5>1, <5>2, <5>4 DEF Ordering
          <6> QED
            BY <3>2, <6>1
        <5> QED
          BY <3>2, <5>1, <5>3, <5>4 DEF Ordering
      <4> QED
        BY <4>5, <4>6
    <3> DEFINE B == T \ {m}
    <3>4. IsFiniteSet(B) /\ Cardinality(B) = n /\ B \in SUBSET U
      <4>1. IsFiniteSet(B) /\ Cardinality(B) = Cardinality(T) - 1
        BY <2>2, <3>3, FS_RemoveElement
      <4> QED
        BY <2>2, <4>1
    <3>5. PICK b : InOrder(b, n, B, R)
      BY <2>1, <3>4
    <3>6. b \in [1 .. n -> B] /\ \A i, j \in 1 .. n : i < j => <<b[i], b[j]>> \in R
      BY <3>5 DEF InOrder
    <3> DEFINE s == [i \in 1 .. (n + 1) |-> IF i = n + 1 THEN m ELSE b[i]]
    <3>7. \A i \in 1 .. (n + 1) : i # n + 1 => i \in 1 .. n /\ b[i] \in T /\ <<b[i], m>> \in R
      BY <3>3, <3>6
    <3>8. s \in [1 .. (n + 1) -> T]
      BY <3>3, <3>7
    <3>9. ASSUME NEW i \in 1 .. (n + 1), NEW j \in 1 .. (n + 1), i < j
          PROVE  <<s[i], s[j]>> \in R
      <4>1. i \in 1 .. n /\ s[i] = b[i]
        BY <3>9
      <4>2. CASE j = n + 1
        BY <3>7, <4>1, <4>2
      <4>3. CASE j # n + 1
        BY <3>6, <3>9, <4>1, <4>3
      <4> QED
        BY <4>2, <4>3
    <3> HIDE DEF s
    <3>10. InOrder(s, n + 1, T, R)
      BY <3>8, <3>9 DEF InOrder
    <3> QED
      BY <3>10
  <2> QED
    BY <2>1, <2>2
<1>3. P \in SUBSET Nat
  OBVIOUS
<1> HIDE DEF P
<1>4. \A n \in P : n + 1 \in P
  BY <1>2, <1>3
<1>5. \A n \in Nat : n \in P
  BY <1>1, <1>3, <1>4, Induction
<1>6. Cardinality(D) \in P
  BY <1>5, FS_CardinalityType
<1> QED
  BY <1>6 DEF P

\* A finite set of numbers, the least first.
LEMMA AscendingInOrder ==
  ASSUME NEW S \in SUBSET Int, IsFiniteSet(S)
  PROVE  /\ Cardinality(S) \in Nat
         /\ Enumerates(Ascending(S), Cardinality(S), S)
         /\ \A i, j \in 1 .. Cardinality(S) : i < j => Ascending(S)[i] < Ascending(S)[j]
<1> DEFINE R == {p \in Int \X Int : p[1] < p[2]}
           n == Cardinality(S)
           Is(s) == s \in [1 .. n -> S] /\ \A i, j \in DOMAIN s : i < j => s[i] < s[j]
<1>1. \A x, y \in Int : <<x, y>> \in R <=> x < y
  OBVIOUS
<1>2. R \in SUBSET (Int \X Int)
  OBVIOUS
<1> HIDE DEF R
<1>3. R \in Ordering(Int)
  BY <1>1, <1>2 DEF Ordering
<1>4. n \in Nat
  BY FS_CardinalityType
<1>5. \A s : InOrder(s, n, S, R) <=> Is(s)
  <2> HIDE DEF n
  <2> QED
    BY <1>1 DEF InOrder
<1>6. PICK s : InOrder(s, n, S, R)
  BY <1>3, InOrderExists
<1>7. Is(s)
  BY <1>5, <1>6
<1>8. Ascending(S) = CHOOSE t \in [1 .. n -> S] : \A i, j \in DOMAIN t : i < j => t[i] < t[j]
  BY DEF Ascending, Sorted
<1> DEFINE a == Ascending(S)
<1>9. Is(a)
  <2> HIDE DEF n
  <2> QED
    BY <1>7, <1>8
<1> HIDE DEF a
<1>10. InOrder(a, Cardinality(S), S, R)
  BY <1>5, <1>9
<1>11. Enumerates(a, n, S)
  <2> DEFINE W == Int
  <2>1. R \in Ordering(W) /\ S \in SUBSET W
    BY <1>3
  <2> HIDE DEF R, W
  <2> QED
    BY <1>10, <2>1, InOrderIsOnto
<1> QED
  BY <1>4, <1>9, <1>11 DEF a
=============================================================================
