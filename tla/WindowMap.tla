------------------------------ MODULE WindowMap ------------------------------
(***************************************************************************)
(* What the kernel expects of the segment tree of its window: a map from   *)
(* the positions of the waiting jobs to their values, changed by four      *)
(* operations.  SegTree.tla implements it.                                 *)
(***************************************************************************)
EXTENDS RankMaps

CONSTANTS
  Size,     \* positions 0 .. Size-1
  Values,   \* values a position may be given
  Charges,  \* works a completion may charge
  MaxDrift  \* bound of the model: total work charged

VARIABLES
  leaf,   \* position -> value, for the positions that hold one
  drift   \* total work charged so far

vars == <<leaf, drift>>
Positions == 0 .. Size - 1

Init == leaf = [p \in {} |-> 0] /\ drift = 0

\* _rebuild_window starts from an empty window.
Clear == leaf' = [p \in {} |-> 0] /\ UNCHANGED drift

\* _admit_arrivals and _rebuild_window place a job in a position that holds none.
SetLeaf(pos, v) == pos \notin DOMAIN leaf /\ leaf' = Put(leaf, pos, v) /\ UNCHANGED drift

\* _choose clears the position of the job it dispatches.
ClearLeaf(pos) == pos \in DOMAIN leaf /\ leaf' = Drop(leaf, pos) /\ UNCHANGED drift

\* _apply_completions: the position may be outside the window, on either side.
Add(lo, c) ==
  /\ drift + c <= MaxDrift
  /\ leaf' = AddSuffix(leaf, lo, -c)
  /\ drift' = drift + c

Next ==
  \/ Clear
  \/ \E pos \in Positions, v \in Values : SetLeaf(pos, v)
  \/ \E pos \in Positions : ClearLeaf(pos)
  \/ \E lo \in -1 .. Size - 1, c \in Charges : Add(lo, c)

Spec == Init /\ [][Next]_vars
=============================================================================
