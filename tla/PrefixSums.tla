----------------------------- MODULE PrefixSums -----------------------------
(***************************************************************************)
(* What the kernel expects of a Fenwick tree and the total beside it: the  *)
(* work charged to the ranks up to each rank.  Fenwick.tla implements it.  *)
(***************************************************************************)
EXTENDS RankMaps

CONSTANTS Size, Charges

VARIABLES
  sums,   \* rank -> work charged to the ranks 0 .. rank
  total,  \* all work charged
  charged \* the ranks charged, each once

vars == <<charged, total, sums>>
Rank == 0 .. Size - 1

Init == sums = [q \in Rank |-> 0] /\ total = 0 /\ charged = {}

Charge(rank, value) ==
  /\ rank \notin charged
  /\ charged' = charged \cup {rank}
  /\ total' = total + value
  /\ sums' = AddSuffix(sums, rank, value)

Next == \E rank \in Rank, value \in Charges : Charge(rank, value)

Spec == Init /\ [][Next]_vars
=============================================================================
