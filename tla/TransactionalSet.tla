-------------------------- MODULE TransactionalSet --------------------------
(***************************************************************************)
(* What a transactional collection promises its callers, with every        *)
(* operation a single step: a multi-version set whose transactions take    *)
(* effect in the order of their identities.  It states the contract of     *)
(* src/TRANSACTIONAL_COLLECTION_CONTRACT.md ("Lifecycle", "Visibility and  *)
(* ordering") as far as src/src/persistence.rs and src/src/btree/file.rs   *)
(* are shown to keep it by BTreeRefinement.                                *)
(***************************************************************************)
EXTENDS Naturals

CONSTANTS Txn, Key

ASSUME OrderAssumption == Txn \subseteq Nat \ {0}

VARIABLES canon,      \* the canonical contents
          change,     \* what each transaction changes, key by key
          committed,  \* transactions committed above the frontier
          frontier,   \* the last finalized transaction
          told        \* what each open transaction was last told of each key

setVars == <<canon, change, committed, frontier, told>>

Change == {"same", "in", "out"}
Answer == {"unknown", "present", "absent"}

SetTypeOK ==
  /\ canon \subseteq Key
  /\ change \in [Txn -> [Key -> Change]]
  /\ committed \subseteq Txn
  /\ frontier \in Txn \cup {0}
  /\ told \in [Txn -> [Key -> Answer]]

SetInit ==
  /\ canon \in SUBSET Key
  /\ change = [t \in Txn |-> [k \in Key |-> "same"]]
  /\ committed = {}
  /\ frontier = 0
  /\ told = [t \in Txn |-> [k \in Key |-> "unknown"]]

Open(t) == t > frontier /\ t \notin committed

\* The transactions of S that change k, and the contents they leave at k.
Changers(S, k) == {u \in S : change[u][k] # "same"}
After(S, k) ==
  \/ Changers(S, k) = {} /\ k \in canon
  \/ \E u \in Changers(S, k) : /\ \A v \in Changers(S, k) : v <= u
                               /\ change[u][k] = "in"

\* A transaction reads canonical contents, the committed versions no later than
\* itself, and its own.
Basis(t) == {u \in committed : u <= t} \cup {t}
SetView(t) == {k \in Key : After(Basis(t), k)}

\* Mutant of Settled: an access does not wait for earlier changes.
Settled_Always(t, k) == TRUE

\* No transaction stands in the way of an access of t to k: earlier changes are
\* decided, and no later transaction depends on the key.
Settled(t, k) == \A u \in Txn : Open(u) /\ u < t => change[u][k] = "same"
Undisturbed(t, k) ==
  \A u \in Txn : Open(u) /\ u > t => change[u][k] = "same" /\ told[u][k] = "unknown"

\* While a write is under way, and when it is given up, the key is as it was
\* or as it will be.
WriteBegins(t, k, c) ==
  /\ Open(t) /\ Settled(t, k) /\ Undisturbed(t, k)
  /\ change' \in {change, [change EXCEPT ![t][k] = "same"]}
  /\ told' = [told EXCEPT ![t][k] = "unknown"]
  /\ UNCHANGED <<canon, committed, frontier>>
  /\ \/ (k \in SetView(t))' <=> k \in SetView(t)
     \/ (k \in SetView(t))' <=> c = "in"

Write(t, k, c) ==
  /\ Open(t) /\ Settled(t, k) /\ Undisturbed(t, k)
  /\ change' = [change EXCEPT ![t][k] = c]
  /\ told' = [told EXCEPT ![t][k] = IF c = "in" THEN "present" ELSE "absent"]
  /\ UNCHANGED <<canon, committed, frontier>>

Read(t, range) ==
  /\ Open(t)
  /\ \A k \in range : Settled(t, k)
  /\ told' = [told EXCEPT ![t] = [k \in Key |->
                IF k \notin range THEN @[k]
                ELSE IF k \in SetView(t) THEN "present" ELSE "absent"]]
  /\ UNCHANGED <<canon, change, committed, frontier>>

Unknown == [k \in Key |-> "unknown"]

SetCommit(t) ==
  /\ Open(t)
  /\ committed' = committed \cup {t}
  /\ told' = [told EXCEPT ![t] = Unknown]
  /\ UNCHANGED <<canon, change, frontier>>

SetRollback(t) ==
  /\ Open(t)
  /\ change' = [change EXCEPT ![t] = [k \in Key |-> "same"]]
  /\ told' = [told EXCEPT ![t] = Unknown]
  /\ UNCHANGED <<canon, committed, frontier>>

\* Merge what is committed through t and discard the rest through t.
SetFinalize(t) ==
  /\ t > frontier
  /\ canon' = {k \in Key : After({u \in committed : u <= t}, k)}
  /\ change' = [u \in Txn |-> IF u <= t THEN [k \in Key |-> "same"] ELSE change[u]]
  /\ committed' = {u \in committed : u > t}
  /\ frontier' = t
  /\ told' = [u \in Txn |-> IF u <= t THEN Unknown ELSE told[u]]

SetNext ==
  \E t \in Txn :
    \/ \E k \in Key, c \in {"in", "out"} : WriteBegins(t, k, c) \/ Write(t, k, c)
    \/ \E range \in SUBSET Key : Read(t, range)
    \/ SetCommit(t)
    \/ SetRollback(t)
    \/ SetFinalize(t)

SetSpec == SetInit /\ [][SetNext]_setVars

\* What an open transaction was told of a key is what it reads now.
PromiseKept ==
  \A t \in Txn, k \in Key :
    told[t][k] # "unknown" => (told[t][k] = "present" <=> k \in SetView(t))
=============================================================================
