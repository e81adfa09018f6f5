------------------------------ MODULE MC_Indexes -------------------------------
(* Indexes on a small table.                                                *)
EXTENDS Indexes, TLC

CONSTANTS k1, k2, k3, k4, k5

MCKey == {k1, k2, k3, k4, k5}

\* Tables without rows, with distinct values, and with equal values that come
\* to lie in two leaves.
MCTables ==
  {[i \in DOMAIN values |-> [key |-> <<k1, k2, k3, k4>>[i], value |-> values[i]]] :
     values \in {<<>>, <<2, 1, 3>>, <<1, 2, 2, 3>>, <<2, 2, 2, 2>>}}

\* A VARCHAR column: every text is read as it was written.
MCText == [v \in Value |-> v]

KeySymmetry == Permutations(MCKey)

================================================================================
