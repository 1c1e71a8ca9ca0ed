----------------------------- MODULE BinaryHeap -----------------------------
(***************************************************************************)
(* The two binary heaps of kernel.py on their arrays: the score heap       *)
(* (hk, hi; _score_push, _score_pop) and the run heap (rt, rj; _run_push,  *)
(* _run_pop).  They are the same code up to the comparison, which          *)
(* TiesByRank selects.  A slot at or past the size keeps whatever it last  *)
(* held, and is never part of the heap.                                    *)
(*                                                                         *)
(* Bug_X is a mutated form of the definition X that follows it.            *)
(***************************************************************************)
EXTENDS Integers

CONSTANTS
  Ranks,      \* ranks that may be pushed, each at most once; into the score
              \* heap in arrival order, into the run heap as jobs are dispatched
  Keys,       \* keys an entry may carry
  Capacity,   \* length of the arrays
  TiesByRank  \* TRUE for the score heap, FALSE for the run heap

VARIABLES
  slot,    \* slot c holds the pair <<key, rank>> of position c in the two arrays
  size,    \* S_NHEAP or S_NRUN
  pushed,  \* ranks pushed so far
  popped   \* the entry the last pop took out

heapVars == <<slot, size, pushed, popped>>
None == <<>>
Index == 0 .. Capacity - 1
Arrays == [Index -> (Keys \X Ranks) \cup {None}]

\* What both heaps are used with.
HeapConstants ==
  Keys \subseteq Int /\ Ranks \subseteq Int /\ Capacity \in Nat /\ TiesByRank \in BOOLEAN

\* The comparison written out in every push and pop.
Less(x, y) == \/ x[1] < y[1]
              \/ TiesByRank /\ x[1] = y[1] /\ x[2] < y[2]
Swapped(h, a, b) == [h EXCEPT ![a] = h[b], ![b] = h[a]]

\* Towards the root, while the parent is larger.  A loop is a function of the variables it
\* carries from one pass to the next.
SiftUp(array, first) ==
  LET loop[s \in Arrays \X Index] ==
        LET h == s[1]
            c == s[2]
            p == (c - 1) \div 2
        IN  IF c > 0 /\ Less(h[c], h[p]) THEN loop[<<Swapped(h, p, c), p>>] ELSE h
  IN  loop[<<array, first>>]

\* The smaller child of c among the first m slots.
\* RefinesEntryQueue: the right child is never the last slot.
Bug_SmallerChild(h, m, c) ==
  LET left == 2 * c + 1
  IN  IF left + 1 < m - 1 /\ Less(h[left + 1], h[left]) THEN left + 1 ELSE left
SmallerChild(h, m, c) ==
  LET left == 2 * c + 1
  IN  IF left + 1 < m /\ Less(h[left + 1], h[left]) THEN left + 1 ELSE left

\* Towards the leaves, while a child is smaller.
SiftDown(array, m, first) ==
  LET loop[s \in Arrays \X Index] ==
        LET h == s[1]
            c == s[2]
            b == SmallerChild(h, m, c)
        IN  IF 2 * c + 1 < m /\ Less(h[b], h[c]) THEN loop[<<Swapped(h, c, b), b>>] ELSE h
  IN  loop[<<array, first>>]

---------------------------------------------------------------------------
HeapInit ==
  /\ slot = [c \in Index |-> None]
  /\ size = 0 /\ pushed = {} /\ popped = None

Push(key, rank) ==
  /\ rank \notin pushed /\ size < Capacity
  /\ TiesByRank => \A r \in pushed : r < rank
  /\ slot' = SiftUp([slot EXCEPT ![size] = <<key, rank>>], size)
  /\ size' = size + 1
  /\ pushed' = pushed \cup {rank}
  /\ UNCHANGED popped

\* The caller reads the root, then the last entry takes its place.
Pop ==
  /\ size > 0
  /\ popped' = slot[0]
  /\ slot' = SiftDown([slot EXCEPT ![0] = slot[size - 1]], size - 1, 0)
  /\ size' = size - 1
  /\ UNCHANGED pushed

HeapNext ==
  \/ \E key \in Keys, rank \in Ranks : Push(key, rank)
  \/ Pop

HeapSpec == HeapInit /\ [][HeapNext]_heapVars

---------------------------------------------------------------------------
\* The array behaves like the bag of entries it holds: nothing is lost, doubled or
\* invented by the swaps, and what comes out is a smallest entry, by rank among equal
\* scores in the score heap.
Queue == INSTANCE EntryQueue WITH entries <- {slot[c] : c \in 0 .. size - 1}
RefinesEntryQueue == Queue!Spec
=============================================================================
