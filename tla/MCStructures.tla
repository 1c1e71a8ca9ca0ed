---------------------------- MODULE MCStructures ----------------------------
(***************************************************************************)
(* The kernel's four data structures, each exercised on its own: the       *)
(* segment tree of a window of four positions, a Fenwick tree of seven     *)
(* ranks, a score heap of seven and a run heap of four entries.  They      *)
(* share no state, so a behaviour moves only the one it started with.      *)
(* The lowest value a held position can reach is -1 - MaxDrift, well above *)
(* the NEG of the model, as in the code.                                   *)
(***************************************************************************)
EXTENDS SegTree, Fenwick

VARIABLES
  exercised,                                   \* the structure that moves
  scoreSlot, scoreSize, scorePushed, scorePopped,
  runSlot, runSize, runPushed, runPopped

Scores == INSTANCE BinaryHeap WITH
  Ranks <- 0 .. 6, Keys <- 0 .. 2, Capacity <- 7, TiesByRank <- TRUE,
  slot <- scoreSlot, size <- scoreSize, pushed <- scorePushed, popped <- scorePopped
Runs == INSTANCE BinaryHeap WITH
  Ranks <- 0 .. 4, Keys <- 1 .. 3, Capacity <- 4, TiesByRank <- FALSE,
  slot <- runSlot, size <- runSize, pushed <- runPushed, popped <- runPopped

TreeValues == {-1, 1}
TreeNEG == -6
FenwickWorks == {1, 3}
ASSUME BothHeaps == Scores!HeapConstants /\ Runs!HeapConstants

scoreVars == <<scoreSlot, scoreSize, scorePushed, scorePopped>>
runVars == <<runSlot, runSize, runPushed, runPopped>>
structureVars == <<exercised, vars, fenVars, scoreVars, runVars>>

StructuresInit ==
  /\ exercised \in {"window", "sums", "scores", "runs"}
  /\ Init /\ FenInit /\ Scores!HeapInit /\ Runs!HeapInit

StructuresNext ==
  /\ UNCHANGED exercised
  /\ \/ exercised = "window" /\ Next /\ UNCHANGED <<fenVars, scoreVars, runVars>>
     \/ exercised = "sums" /\ FenNext /\ UNCHANGED <<vars, scoreVars, runVars>>
     \/ exercised = "scores" /\ Scores!HeapNext /\ UNCHANGED <<vars, fenVars, runVars>>
     \/ exercised = "runs" /\ Runs!HeapNext /\ UNCHANGED <<vars, fenVars, scoreVars>>

StructuresSpec == StructuresInit /\ [][StructuresNext]_structureVars

-----------------------------------------------------------------------------
\* What the kernel expects of _score_push and _score_pop, and of _run_push and
\* _run_pop: BinaryHeap states it.
RefinesEntryQueue == Scores!RefinesEntryQueue /\ Runs!RefinesEntryQueue
=============================================================================
