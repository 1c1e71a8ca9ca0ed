----------------------------- MODULE EntryQueue -----------------------------
(***************************************************************************)
(* What the kernel expects of its two heaps: a bag of entries from which a *)
(* smallest one comes out.  The run heap compares keys only, so which of   *)
(* two equal keys comes first is open; the score heap breaks ties by rank, *)
(* which makes the next entry unique.  BinaryHeap.tla implements it.       *)
(***************************************************************************)
EXTENDS Integers, FiniteSets

CONSTANTS
  Ranks,      \* ranks that may be pushed, each at most once; into the score
              \* heap in arrival order, into the run heap as jobs are dispatched
  Keys,       \* keys an entry may carry
  Capacity,   \* entries that fit
  TiesByRank  \* TRUE for the score heap, FALSE for the run heap

VARIABLES
  entries,  \* the set of entries <<key, rank>>
  pushed,   \* ranks pushed so far
  popped    \* the last entry taken out, or None

vars == <<entries, pushed, popped>>
None == <<>>

\* The order in which entries come out.
Less(x, y) == \/ x[1] < y[1]
              \/ TiesByRank /\ x[1] = y[1] /\ x[2] < y[2]

Init == entries = {} /\ pushed = {} /\ popped = None

Push(key, rank) ==
  /\ rank \notin pushed /\ Cardinality(entries) < Capacity
  /\ TiesByRank => \A r \in pushed : r < rank
  /\ entries' = entries \cup {<<key, rank>>}
  /\ pushed' = pushed \cup {rank}
  /\ UNCHANGED popped

Pop(e) ==
  /\ e \in entries
  /\ \A x \in entries : ~Less(x, e)
  /\ popped' = e
  /\ entries' = entries \ {e}
  /\ UNCHANGED pushed

Next ==
  \/ \E key \in Keys, rank \in Ranks : Push(key, rank)
  \/ \E e \in Keys \X Ranks : Pop(e)

Spec == Init /\ [][Next]_vars
=============================================================================
