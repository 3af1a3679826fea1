------------------------------ MODULE Subsequence -------------------------------
(***************************************************************************)
(* Rows of a table picked by a condition, in the order of their positions  *)
(* (SELECT ... WHERE ... ORDER BY, src/event_store.py), or members of a    *)
(* list that pass a filter.                                                *)
(***************************************************************************)
EXTENDS Integers, FiniteSets, Sequences

\* The k-th position of a set.
Nth(S, k) == CHOOSE i \in S : Cardinality({j \in S : j < i}) = k - 1

Picked(rows, positions) ==
  [k \in 1..Cardinality(positions) |-> rows[Nth(positions, k)]]

================================================================================
