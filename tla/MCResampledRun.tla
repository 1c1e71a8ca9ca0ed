--------------------------- MODULE MCResampledRun ---------------------------
(* Small instances of ResampledRun: A and B differ in the configuration and  *)
(* have equal p99_dl_s, C is B with other code, and D has lost its scores.   *)
EXTENDS ResampledRun, TLC

CONSTANTS A, B, C, D, W1, W2

ListedFiles ==
  [v \in {A, B, C, D} |->
     [config |-> IF v = A THEN "first" ELSE "edited",
      scores |-> IF v = D THEN Absent ELSE "first"]]
Column == [v \in {A, B, C, D} |-> IF v = C THEN "longer" ELSE "first"]

WorkerSymmetry == Permutations(Workers)
=============================================================================
