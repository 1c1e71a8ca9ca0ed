---------------------------- MODULE MCResumedRun ----------------------------
(* Versions that differ in the code (A, B), in a listed file (C) and by a    *)
(* listed file that is missing (D), and two workers.                         *)
EXTENDS ResumedRun

CONSTANTS A, B, C, D, W1, W2

ListedFiles ==
  [v \in {A, B, C, D} |->
     [config |-> IF v = C THEN "edited" ELSE "first",
      scores |-> IF v = D THEN Absent ELSE "first"]]
=============================================================================
