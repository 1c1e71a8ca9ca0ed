------------------------------- MODULE Fenwick -------------------------------
(***************************************************************************)
(* A Fenwick tree as the kernel uses it: work is charged to ranks in any   *)
(* order, and the prefix sums are read at any time.  Kernel.tla keeps,     *)
(* instead of the array, what _fen_pref returns for every rank; the array  *)
(* implements them (PrefixSums.tla).                                       *)
(***************************************************************************)
EXTENDS FenwickTree

CONSTANTS
  NRanks, \* number of ranks (n), any number
  Works   \* works a completion may charge

ASSUME FenwickAssumption == NRanks \in Nat /\ Works \subseteq Int

VARIABLES
  tree,    \* fen_work or fen_count
  total,   \* S_COMPLETED_WORK or S_NDISPATCHED_RANKS
  charged  \* ranks charged so far; a rank is charged once, when it completes

fenVars == <<tree, total, charged>>
FenRank == 0 .. NRanks - 1

FenInit == tree = NoWork(NRanks) /\ total = 0 /\ charged = {}

FenAdd(rank, value) ==
  /\ rank \notin charged
  /\ tree' = Added(tree, NRanks, rank, value)
  /\ total' = total + value
  /\ charged' = charged \cup {rank}

FenNext == \E rank \in FenRank, value \in Works : FenAdd(rank, value)

FenSpec == FenInit /\ [][FenNext]_fenVars

---------------------------------------------------------------------------
\* What the kernel expects of _fen_add and _fen_pref: prefix sums read off the array
\* are those of the work charged so far, for every rank and every number of ranks,
\* powers of two or not; for the last rank they are the total, so over is 0 for the
\* youngest job.
Sums == INSTANCE PrefixSums WITH
  Size <- NRanks, Charges <- Works, sums <- [q \in FenRank |-> Pref(tree, q)]
RefinesPrefixSums == Sums!Spec
=============================================================================
