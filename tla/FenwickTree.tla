----------------------------- MODULE FenwickTree -----------------------------
(***************************************************************************)
(* The Fenwick tree of kernel.py as operators on its array over n ranks:   *)
(* node p holds the sum over the LowBit(p) ranks that end at rank p-1.     *)
(* The sweep of bounds.py inlines the same two walks.                      *)
(*                                                                         *)
(* Bug_X is a mutated form of the definition X that follows it.            *)
(***************************************************************************)
EXTENDS Integers

Node(n) == 1 .. n
NoWork(n) == [p \in Node(n) |-> 0]

\* p & -p: the largest power of two that divides p.
LowBit(p) ==
  LET bit[q \in 1 .. p] == IF q % 2 = 1 THEN 1 ELSE 2 * bit[q \div 2]
  IN  bit[p]

\* The nodes above the first, itself included, in the order _fen_add visits them.
\* SweepMatchesDefinition: the last node is never reached.
Bug_Upward(n, first) ==
  LET up[p \in 1 .. 2 * n] == IF p >= n THEN {} ELSE {p} \cup up[p + LowBit(p)]
  IN  up[first]
Upward(n, first) ==
  LET up[p \in 1 .. 2 * n] == IF p > n THEN {} ELSE {p} \cup up[p + LowBit(p)]
  IN  up[first]

\* _fen_add
Added(tr, n, rank, value) ==
  [p \in Node(n) |-> IF p \in Upward(n, rank + 1) THEN tr[p] + value ELSE tr[p]]

\* _fen_pref
\* RefinesPrefixSums: the walk starts at the rank instead of its node.
Bug_Pref(tr, rank) ==
  LET sum[p \in {0} \cup DOMAIN tr] == IF p = 0 THEN 0 ELSE tr[p] + sum[p - LowBit(p)]
  IN  sum[rank]
Pref(tr, rank) ==
  LET sum[p \in {0} \cup DOMAIN tr] == IF p = 0 THEN 0 ELSE tr[p] + sum[p - LowBit(p)]
  IN  sum[rank + 1]
=============================================================================
