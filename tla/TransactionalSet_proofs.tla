----------------------- MODULE TransactionalSet_proofs -----------------------
(***************************************************************************)
(* Every promise of the TransactionalSet is kept, for any sets of          *)
(* transactions and keys.                                                  *)
(*                                                                         *)
(* PromiseKept is not inductive: a commit would break it if an earlier     *)
(* transaction had a change at a key that a later one has been told of.    *)
(* EarlierAreSettled rules that out; it needs that only open transactions  *)
(* have promises (ToldAreOpen).                                            *)
(***************************************************************************)
EXTENDS TransactionalSet, TLAPS

ToldAreOpen == \A t \in Txn, k \in Key : told[t][k] # "unknown" => Open(t)

EarlierAreSettled ==
  \A t, u \in Txn, k \in Key :
    told[t][k] # "unknown" /\ u < t /\ Open(u) => change[u][k] = "same"

PromiseInv == SetTypeOK /\ ToldAreOpen /\ EarlierAreSettled /\ PromiseKept

-----------------------------------------------------------------------------
\* A view at a key is decided by who changes it, and how, and by canonical
\* contents when nobody does.
LEMMA SameChangers ==
  ASSUME NEW t \in Txn, NEW k \in Key,
         k \in canon' <=> k \in canon,
         Changers(Basis(t), k)' = Changers(Basis(t), k),
         \A u \in Changers(Basis(t), k) : change'[u][k] = change[u][k]
  PROVE  (k \in SetView(t))' <=> k \in SetView(t)
BY DEF SetView, After

\* A step that leaves the committed set, and a key of each transaction that t
\* reads, leaves what t reads there.
LEMMA SameBasis ==
  ASSUME NEW t \in Txn, NEW k \in Key,
         canon' = canon, committed' = committed,
         \A u \in Basis(t) : change'[u][k] = change[u][k]
  PROVE  (k \in SetView(t))' <=> k \in SetView(t)
<1>1. Basis(t)' = Basis(t)
  BY DEF Basis
<1>2. Changers(Basis(t), k)' = Changers(Basis(t), k)
  BY <1>1 DEF Changers
<1>3. \A u \in Changers(Basis(t), k) : change'[u][k] = change[u][k]
  BY DEF Changers
<1> QED
  BY <1>2, <1>3, SameChangers

\* A transaction reads its own change before anything else.
OwnChangeIsRead ==
  \A t \in Txn, k \in Key :
    change[t][k] # "same" => (k \in SetView(t) <=> change[t][k] = "in")

LEMMA OwnChangeWins == SetTypeOK => OwnChangeIsRead
<1> SUFFICES ASSUME SetTypeOK, NEW t \in Txn, NEW k \in Key, change[t][k] # "same"
             PROVE  k \in SetView(t) <=> change[t][k] = "in"
  BY DEF OwnChangeIsRead
<1>1. t \in Changers(Basis(t), k)
  BY DEF Changers, Basis
<1>2. \A v \in Changers(Basis(t), k) : v \in Nat /\ v <= t
  BY OrderAssumption DEF Changers, Basis, SetTypeOK
<1>3. \A u \in Changers(Basis(t), k) :
        (\A v \in Changers(Basis(t), k) : v <= u) <=> u = t
  BY <1>1, <1>2
<1> QED
  BY <1>1, <1>3 DEF SetView, After

-----------------------------------------------------------------------------
LEMMA PromiseInit == SetInit => PromiseInv
BY DEF SetInit, PromiseInv, SetTypeOK, ToldAreOpen, EarlierAreSettled, PromiseKept,
       Change, Answer

\* A change of one transaction at one key, with the promise about it.
LEMMA ChangeStep ==
  ASSUME PromiseInv, NEW t \in Txn, NEW k \in Key, NEW c \in Change, NEW a \in Answer,
         Open(t), Settled(t, k), Undisturbed(t, k),
         change' = [change EXCEPT ![t][k] = c],
         told' = [told EXCEPT ![t][k] = a],
         UNCHANGED <<canon, committed, frontier>>,
         a # "unknown" => (a = "present" <=> (k \in SetView(t))')
  PROVE  PromiseInv'
<1> USE DEF PromiseInv
<1>1. SetTypeOK'
  BY DEF SetTypeOK
<1>2. \A u \in Txn : Open(u)' <=> Open(u)
  BY DEF Open
<1>3. \A u \in Txn, j \in Key :
        /\ <<u, j>> # <<t, k>> => change'[u][j] = change[u][j] /\ told'[u][j] = told[u][j]
        /\ told'[t][k] = a
  BY DEF SetTypeOK
<1>4. ToldAreOpen'
  BY <1>2, <1>3 DEF ToldAreOpen
<1>5. EarlierAreSettled'
  <2> SUFFICES ASSUME NEW v \in Txn, NEW u \in Txn, NEW j \in Key,
                      told'[v][j] # "unknown", u < v, Open(u)
               PROVE  change'[u][j] = "same"
    BY <1>2 DEF EarlierAreSettled
  <2>1. CASE u = t /\ j = k
    <3>1. u # v
      BY OrderAssumption
    <3>2. told[v][k] # "unknown"
      BY <2>1, <3>1, <1>3
    <3> QED
      BY <2>1, <3>2 DEF Undisturbed, ToldAreOpen
  <2>2. CASE v = t /\ j = k
    <3>1. u # t
      BY <2>2, OrderAssumption
    <3> QED
      BY <2>2, <3>1, <1>3 DEF Settled
  <2>3. CASE ~(u = t /\ j = k) /\ ~(v = t /\ j = k)
    BY <2>3, <1>3 DEF EarlierAreSettled
  <2> QED
    BY <2>1, <2>2, <2>3
<1>6. PromiseKept'
  <2> SUFFICES ASSUME NEW v \in Txn, NEW j \in Key, told'[v][j] # "unknown"
               PROVE  told'[v][j] = "present" <=> (j \in SetView(v))'
    BY DEF PromiseKept
  <2>1. CASE v = t /\ j = k
    BY <2>1, <1>3
  <2>2. CASE ~(v = t /\ j = k)
    <3>1. \A u \in Basis(v) : change'[u][j] = change[u][j]
      BY <2>2, <1>3 DEF Basis, Open, SetTypeOK
    <3>2. (j \in SetView(v))' <=> j \in SetView(v)
      BY <3>1, SameBasis
    <3> QED
      BY <2>2, <3>2, <1>3 DEF PromiseKept
  <2> QED
    BY <2>1, <2>2
<1> QED
  BY <1>1, <1>4, <1>5, <1>6

LEMMA WriteBeginsKeeps ==
  ASSUME PromiseInv, NEW t \in Txn, NEW k \in Key, NEW c \in {"in", "out"},
         WriteBegins(t, k, c)
  PROVE  PromiseInv'
<1>1. PICK d \in Change : change' = [change EXCEPT ![t][k] = d]
  <2>1. change = [change EXCEPT ![t][k] = change[t][k]] /\ change[t][k] \in Change
    BY DEF PromiseInv, SetTypeOK
  <2> QED
    BY <2>1 DEF WriteBegins, Change
<1> QED
  BY <1>1, ChangeStep DEF WriteBegins, Answer

LEMMA WriteKeeps ==
  ASSUME PromiseInv, NEW t \in Txn, NEW k \in Key, NEW c \in {"in", "out"}, Write(t, k, c)
  PROVE  PromiseInv'
<1>1. SetTypeOK' /\ change'[t][k] = c
  BY DEF Write, PromiseInv, SetTypeOK, Change, Answer
<1>2. (k \in SetView(t))' <=> c = "in"
  <2>1. SetTypeOK' => OwnChangeIsRead'
    BY OwnChangeWins, PTL
  <2> QED
    BY <1>1, <2>1 DEF OwnChangeIsRead
<1> DEFINE a == IF c = "in" THEN "present" ELSE "absent"
<1>3. a # "unknown" => (a = "present" <=> (k \in SetView(t))')
  BY <1>2
<1>4. a \in Answer /\ c \in Change
  BY DEF Answer, Change
<1>5. told' = [told EXCEPT ![t][k] = a]
  BY DEF Write
<1> HIDE DEF a
<1> QED
  BY <1>3, <1>4, <1>5, ChangeStep DEF Write

LEMMA ReadKeeps ==
  ASSUME PromiseInv, NEW t \in Txn, NEW range \in SUBSET Key, Read(t, range)
  PROVE  PromiseInv'
<1> USE DEF PromiseInv, Read
<1>1. SetTypeOK'
  BY DEF SetTypeOK, Answer
<1>2. \A u \in Txn : Open(u)' <=> Open(u)
  BY DEF Open
<1>3. \A u \in Txn, k \in Key :
        told'[u][k] # "unknown" => told[u][k] = told'[u][k] \/ (u = t /\ k \in range)
  BY DEF SetTypeOK
<1>4. ToldAreOpen'
  BY <1>2, <1>3 DEF ToldAreOpen
<1>5. EarlierAreSettled'
  BY <1>2, <1>3 DEF EarlierAreSettled, Settled
<1>6. PromiseKept'
  <2> SUFFICES ASSUME NEW u \in Txn, NEW k \in Key, told'[u][k] # "unknown"
               PROVE  told'[u][k] = "present" <=> (k \in SetView(u))'
    BY DEF PromiseKept
  <2>1. (k \in SetView(u))' <=> k \in SetView(u)
    BY SameBasis
  <2>2. CASE u = t /\ k \in range
    <3>1. told'[u][k] = IF k \in SetView(t) THEN "present" ELSE "absent"
      BY <2>2 DEF SetTypeOK
    <3> QED
      BY <2>1, <2>2, <3>1
  <2>3. CASE ~(u = t /\ k \in range)
    BY <2>1, <2>3, <1>3 DEF PromiseKept
  <2> QED
    BY <2>2, <2>3
<1> QED
  BY <1>1, <1>4, <1>5, <1>6

LEMMA CommitKeeps ==
  ASSUME PromiseInv, NEW t \in Txn, SetCommit(t)
  PROVE  PromiseInv'
<1> USE DEF PromiseInv, SetCommit
<1>1. SetTypeOK'
  BY DEF SetTypeOK, Unknown, Answer
<1>2. \A u \in Txn, k \in Key :
        told'[u][k] # "unknown" => u # t /\ told'[u][k] = told[u][k]
  BY DEF SetTypeOK, Unknown
<1>3. \A u \in Txn : /\ Open(u)' => Open(u)
                     /\ u # t /\ Open(u) => Open(u)'
  BY DEF Open
<1>4. ToldAreOpen' /\ EarlierAreSettled'
  BY <1>2, <1>3 DEF ToldAreOpen, EarlierAreSettled
<1>5. PromiseKept'
  <2> SUFFICES ASSUME NEW u \in Txn, NEW k \in Key, told'[u][k] # "unknown"
               PROVE  told'[u][k] = "present" <=> (k \in SetView(u))'
    BY DEF PromiseKept
  <2>1. t < u => change[t][k] = "same"
    BY <1>2 DEF EarlierAreSettled
  <2>2. Changers(Basis(u), k)' = Changers(Basis(u), k)
    <3>1. CASE t < u
      BY <2>1, <3>1 DEF Changers, Basis
    <3>2. CASE ~(t < u)
      BY <1>2, <3>2, OrderAssumption DEF Changers, Basis
    <3> QED
      BY <3>1, <3>2
  <2>3. (k \in SetView(u))' <=> k \in SetView(u)
    BY <2>2, SameChangers
  <2> QED
    BY <1>2, <2>3 DEF PromiseKept
<1> QED
  BY <1>1, <1>4, <1>5

LEMMA RollbackKeeps ==
  ASSUME PromiseInv, NEW t \in Txn, SetRollback(t)
  PROVE  PromiseInv'
<1> USE DEF PromiseInv, SetRollback
<1>1. SetTypeOK'
  BY DEF SetTypeOK, Unknown, Answer, Change
<1>2. \A u \in Txn, k \in Key :
        /\ told'[u][k] # "unknown" => u # t /\ told'[u][k] = told[u][k]
        /\ u # t => change'[u][k] = change[u][k]
        /\ change'[t][k] = "same"
  BY DEF SetTypeOK, Unknown
<1>3. \A u \in Txn : Open(u)' <=> Open(u)
  BY DEF Open
<1>4. ToldAreOpen' /\ EarlierAreSettled'
  BY <1>2, <1>3 DEF ToldAreOpen, EarlierAreSettled
<1>5. PromiseKept'
  <2> SUFFICES ASSUME NEW u \in Txn, NEW k \in Key, told'[u][k] # "unknown"
               PROVE  told'[u][k] = "present" <=> (k \in SetView(u))'
    BY DEF PromiseKept
  <2>1. \A v \in Basis(u) : change'[v][k] = change[v][k]
    BY <1>2 DEF Basis, Open, SetTypeOK
  <2>2. (k \in SetView(u))' <=> k \in SetView(u)
    BY <2>1, SameBasis
  <2> QED
    BY <1>2, <2>2 DEF PromiseKept
<1> QED
  BY <1>1, <1>4, <1>5

\* Finalize moves into canonical contents what is read through the versions it
\* merges: whoever has all of these among the versions S that he reads goes on
\* reading the same with R, the later ones.
LEMMA MergeKeeps ==
  ASSUME SetTypeOK, NEW t \in Txn, NEW k \in Key, SetFinalize(t),
         NEW S \in SUBSET Txn, NEW R,
         \A v \in Txn : v <= t => (v \in S <=> v \in committed),
         R = {v \in S : v > t}
  PROVE  After(R, k)' <=> After(S, k)
<1> DEFINE low == Changers({v \in committed : v <= t}, k)
           all == Changers(S, k)
           high == {v \in R : change'[v][k] # "same"}
<1>1. /\ \A v \in all : v \in Nat
      /\ \A v \in low : v \in all /\ v <= t
      /\ \A v \in high : v \in all /\ v > t
      /\ \A v \in all : v > t => v \in high
      /\ \A v \in all : v <= t => v \in low
  BY OrderAssumption DEF SetFinalize, Changers, SetTypeOK
<1>2. t \in Nat
  BY OrderAssumption
<1>3. \A v \in high : change'[v][k] = change[v][k]
  BY <1>1, <1>2 DEF SetFinalize, Changers, SetTypeOK
<1>4. k \in canon' <=> After({v \in committed : v <= t}, k)
  BY DEF SetFinalize
<1>5. After(R, k)' <=>
        \/ high = {} /\ k \in canon'
        \/ \E w \in high : (\A v \in high : v <= w) /\ change'[w][k] = "in"
  BY DEF After, Changers
<1>6. After(S, k) <=>
        \/ all = {} /\ k \in canon
        \/ \E w \in all : (\A v \in all : v <= w) /\ change[w][k] = "in"
  BY DEF After
<1>7. k \in canon' <=>
        \/ low = {} /\ k \in canon
        \/ \E w \in low : (\A v \in low : v <= w) /\ change[w][k] = "in"
  BY <1>4 DEF After
<1> HIDE DEF low, all, high
<1>8. CASE high = {}
  <2>1. low = all
    BY <1>1, <1>2, <1>8
  <2> QED
    BY <1>5, <1>6, <1>7, <1>8, <2>1
<1>9. CASE high # {}
  <2>1. \A w \in all : (\A v \in all : v <= w) <=> w \in high /\ (\A v \in high : v <= w)
    BY <1>1, <1>2, <1>9
  <2>2. all # {}
    BY <1>1, <1>9
  <2> QED
    BY <1>1, <1>3, <1>5, <1>6, <1>9, <2>1, <2>2
<1> QED
  BY <1>8, <1>9

\* So every later transaction reads what it read.
LEMMA FinalizeKeepsViews ==
  ASSUME SetTypeOK, NEW t \in Txn, NEW u \in Txn, NEW k \in Key, SetFinalize(t), t < u
  PROVE  (k \in SetView(u))' <=> k \in SetView(u)
<1>1. PICK S \in SUBSET Txn : S = Basis(u)
  BY DEF Basis, SetTypeOK
<1>2. PICK R : R = Basis(u)'
  OBVIOUS
<1>3. \A v \in Txn : v <= t => (v \in S <=> v \in committed)
  BY <1>1, OrderAssumption DEF Basis
<1>4. R = {v \in S : v > t}
  BY <1>1, <1>2, OrderAssumption DEF Basis, SetFinalize, SetTypeOK
<1>5. After(R, k)' <=> After(S, k)
  BY <1>3, <1>4, MergeKeeps
<1>6. After(Basis(u), k)' <=> After(R, k)'
  BY <1>2 DEF After, Changers
<1> QED
  BY <1>1, <1>5, <1>6 DEF SetView

LEMMA FinalizeKeeps ==
  ASSUME PromiseInv, NEW t \in Txn, SetFinalize(t)
  PROVE  PromiseInv'
<1> USE DEF PromiseInv
<1>1. SetTypeOK'
  BY DEF SetFinalize, SetTypeOK, Unknown, Answer, Change
<1>2. \A u \in Txn, k \in Key :
        told'[u][k] # "unknown" => u > t /\ told'[u][k] = told[u][k]
  BY OrderAssumption DEF SetFinalize, SetTypeOK, Unknown
<1>3. \A u \in Txn : u > t => (Open(u)' <=> Open(u))
  BY OrderAssumption DEF SetFinalize, Open, SetTypeOK
<1>4. ToldAreOpen'
  BY <1>2, <1>3 DEF ToldAreOpen
<1>5. EarlierAreSettled'
  <2> SUFFICES ASSUME NEW v \in Txn, NEW u \in Txn, NEW k \in Key,
                      told'[v][k] # "unknown", u < v, Open(u)'
               PROVE  change'[u][k] = "same"
    BY DEF EarlierAreSettled
  <2>1. CASE u <= t
    BY <2>1 DEF SetFinalize
  <2>2. CASE u > t
    BY <2>2, <1>2, <1>3, OrderAssumption DEF SetFinalize, EarlierAreSettled
  <2> QED
    BY <2>1, <2>2, OrderAssumption
<1>6. PromiseKept'
  BY <1>2, FinalizeKeepsViews DEF PromiseKept
<1> QED
  BY <1>1, <1>4, <1>5, <1>6

LEMMA PromiseStep == PromiseInv /\ [SetNext]_setVars => PromiseInv'
<1> SUFFICES ASSUME PromiseInv, [SetNext]_setVars PROVE PromiseInv'
  OBVIOUS
<1>1. CASE UNCHANGED setVars
  BY <1>1 DEF setVars, PromiseInv, SetTypeOK, ToldAreOpen, EarlierAreSettled, PromiseKept,
              Open, SetView, After, Changers, Basis
<1>2. CASE SetNext
  BY <1>2, WriteBeginsKeeps, WriteKeeps, ReadKeeps, CommitKeeps, RollbackKeeps, FinalizeKeeps
     DEF SetNext
<1> QED
  BY <1>1, <1>2

\* An answer, or an acknowledged write, of an open transaction stays what it
\* reads, for any number of transactions and keys.
THEOREM SetKeepsPromises == SetSpec => []PromiseKept
<1>1. PromiseInv => PromiseKept
  BY DEF PromiseInv
<1> QED
  BY <1>1, PromiseInit, PromiseStep, PTL DEF SetSpec
=============================================================================
