------------------------------- MODULE MCTable -------------------------------
(* Small instances of Table for TLC. *)
EXTENDS Table, FiniteSets, TLC

\* Ranges over the key column: one key, or all.
MCKeyRanges == {RowsOf(k) : k \in Key} \cup {Row}

\* Ranges over an indexed value column.
MCValRanges == {{r \in Row : r.val = v} : v \in Val}

\* Keys are not interchangeable: bulk writes take them in an order.
MCSymmetry == Permutations(Op)
=============================================================================
