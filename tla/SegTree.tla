------------------------------- MODULE SegTree -------------------------------
(***************************************************************************)
(* The segment tree of kernel.py on its two arrays: suffix add and "leftmost *)
(* position at or above a threshold".  A lazy tag is never pushed down, so *)
(* the true maximum below a node is its tre entry plus the tags of its     *)
(* strict ancestors.  A cleared position holds NEG when it is cleared, and *)
(* drifts further down with every later suffix add.                        *)
(*                                                                         *)
(* Bug_X is a mutated form of the definition X that follows it.            *)
(***************************************************************************)
EXTENDS Integers

CONSTANTS
  Size,     \* number of leaves, a power of two (size)
  Values,   \* values a position may be given
  Charges,  \* works a completion may charge
  MaxDrift, \* bound of the model: total work charged
  NEG       \* the value of a cleared position

VARIABLES
  tre,    \* node -> maximum below it, tags of strict ancestors excluded
  lz,     \* internal node -> tag
  drift   \* bookkeeping of the bound

vars == <<tre, lz, drift>>
Positions == 0 .. Size - 1
Nodes == 1 .. 2 * Size - 1
Internal == 1 .. Size - 1

Maximum(x, y) == IF x > y THEN x ELSE y

\* The node and everything above it, up to the root.
PathUp(node) ==
  LET up[x \in 0 .. 2 * Size - 1] == IF x = 0 THEN {} ELSE {x} \cup up[x \div 2]
  IN  up[node]

\* The kernel doubles size until the window fits: halved again and again it is even until
\* it is 1.  A budget and the work charged against it never reach down to NEG.
ASSUME SizeAssumption == Size \in Nat \ {0} /\ \A p \in PathUp(Size) \ {1} : p % 2 = 0
ASSUME WorkAssumption == Charges \subseteq Nat /\ MaxDrift \in Nat
ASSUME NegIsBelowEveryValue == /\ Values \subseteq Int /\ NEG \in Int
                               /\ \A v \in Values : v - MaxDrift > NEG

\* The tags of the strict ancestors of the node.
TagsAbove(tag, node) ==
  LET above[x \in Nodes] == IF x = 1 THEN 0 ELSE tag[x \div 2] + above[x \div 2]
  IN  above[node]

\* A loop is a function of the variables it carries from one pass to the next.
\* _st_pull: recompute the node and its ancestors, bottom up.
Pull(tr, tag, node) ==
  LET loop[s \in [Nodes -> Int] \X (0 .. Size - 1)] ==
        LET h == s[1]
            x == s[2]
        IN  IF x = 0 THEN h
            ELSE loop[<<[h EXCEPT ![x] = Maximum(h[2 * x], h[2 * x + 1]) + tag[x]], x \div 2>>]
  IN  loop[<<tr, node>>]

\* _st_set: the leaf is stored net of the tags above it.
\* RefinesWindowMap: the value is stored as it is.
Bug_StoreLeaf(pos, val) ==
  /\ tre' = Pull([tre EXCEPT ![Size + pos] = val], lz, (Size + pos) \div 2)
  /\ UNCHANGED lz
StoreLeaf(pos, val) ==
  LET x == Size + pos
  IN  /\ tre' = Pull([tre EXCEPT ![x] = val - TagsAbove(lz, x)], lz, x \div 2)
      /\ UNCHANGED lz

\* The nodes the loop of _st_add_suffix adds to.
Cover(left, right) ==
  LET loop[s \in (0 .. 2 * Size) \X (0 .. 2 * Size)] ==
        LET l == s[1]
            r == s[2]
        IN  IF l >= r THEN {}
            ELSE (IF l % 2 = 1 THEN {l} ELSE {})
                 \cup (IF r % 2 = 1 THEN {r - 1} ELSE {})
                 \cup loop[<<(l + (l % 2)) \div 2, (r - (r % 2)) \div 2>>]
  IN  loop[<<left, right>>]

\* The first position that is inside the window.
First(lo) == IF lo < 0 THEN 0 ELSE lo

\* _st_add_suffix
AddFrom(lo, val) ==
  LET cover == Cover(First(lo) + Size, 2 * Size)
      tag == [x \in Internal |-> IF x \in cover THEN lz[x] + val ELSE lz[x]]
      added == [x \in Nodes |-> IF x \in cover THEN tre[x] + val ELSE tre[x]]
  IN  IF First(lo) >= Size THEN UNCHANGED <<tre, lz>>
      ELSE /\ lz' = tag
           /\ tre' = Pull(Pull(added, tag, (First(lo) + Size) \div 2), tag,
                          (2 * Size - 1) \div 2)

\* _st_leftmost: go left whenever the left subtree reaches the threshold.
\* SearchFindsLeftmost: the node's own tag is left out on the way down.
Bug_Descend(threshold) ==
  LET loop[s \in Nodes \X Int] ==
        LET node == s[1]
        IN  IF node >= Size THEN node - Size
            ELSE IF tre[2 * node] + s[2] >= threshold
                   THEN loop[<<2 * node, s[2] + lz[node]>>]
                   ELSE loop[<<2 * node + 1, s[2] + lz[node]>>]
  IN  IF tre[1] < threshold THEN -1 ELSE loop[<<1, 0>>]
Descend(threshold) ==
  LET loop[s \in Nodes \X Int] ==
        LET node == s[1]
            acc == s[2] + lz[node]
        IN  IF node >= Size THEN node - Size
            ELSE IF tre[2 * node] + acc >= threshold THEN loop[<<2 * node, acc>>]
                                                     ELSE loop[<<2 * node + 1, acc>>]
  IN  IF tre[1] < threshold THEN -1 ELSE loop[<<1, 0>>]

\* What a leaf is worth, and the positions that hold a job.
Value(pos) == tre[Size + pos] + TagsAbove(lz, Size + pos)
Held == {pos \in Positions : Value(pos) > NEG}

---------------------------------------------------------------------------
\* _st_clear
NoValues == [x \in Nodes |-> NEG]
NoTags == [x \in Internal |-> 0]

Init == tre = NoValues /\ lz = NoTags /\ drift = 0

Clear == tre' = NoValues /\ lz' = NoTags /\ UNCHANGED drift

SetLeaf(pos, v) == pos \notin Held /\ StoreLeaf(pos, v) /\ UNCHANGED drift

ClearLeaf(pos) == pos \in Held /\ StoreLeaf(pos, NEG) /\ UNCHANGED drift

Add(lo, c) ==
  /\ drift + c <= MaxDrift
  /\ AddFrom(lo, -c)
  /\ drift' = drift + c

Next ==
  \/ Clear
  \/ \E pos \in Positions, v \in Values : SetLeaf(pos, v)
  \/ \E pos \in Positions : ClearLeaf(pos)
  \/ \E lo \in -1 .. Size - 1, c \in Charges : Add(lo, c)

Spec == Init /\ [][Next]_vars

---------------------------------------------------------------------------
\* The arrays are a map from positions to values under set, clear and suffix add,
\* however many tags have piled up above a leaf since it was last written.
Window == INSTANCE WindowMap WITH leaf <- [pos \in Held |-> Value(pos)]
RefinesWindowMap == Window!Spec

\* _st_leftmost returns the smallest position whose value has reached the threshold
\* and -1 when there is none, for every threshold a decision could use; in
\* particular a cleared position is never returned.
SearchFindsLeftmost ==
  LET leaf == [pos \in Held |-> Value(pos)]
  IN  \A threshold \in NEG + 1 .. 1 + Maximum(0, tre[1]) :
        LET reached == Window!AtLeast(leaf, threshold)
            found == Descend(threshold)
        IN  IF reached = {} THEN found = -1
            ELSE found \in reached /\ \A p \in reached : found <= p
=============================================================================
