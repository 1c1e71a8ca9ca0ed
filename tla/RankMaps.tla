------------------------------ MODULE RankMaps ------------------------------
(***************************************************************************)
(* Maps from ranks or window positions to integers, as the kernel's        *)
(* structures present them to their callers.  Kernel.tla uses these        *)
(* operators; SegTree.tla and Fenwick.tla show that the arrays of          *)
(* kernel.py behave like them.                                             *)
(***************************************************************************)
EXTENDS Integers

\* _st_set with a value: the position holds v, whether or not it held one before.
Put(f, x, v) == [y \in DOMAIN f \cup {x} |-> IF y = x THEN v ELSE f[y]]

\* _st_set with NEG: the position is cleared.
Drop(f, x) == [y \in DOMAIN f \ {x} |-> f[y]]

\* _st_add_suffix, and what _fen_add does to the prefix sums.
AddSuffix(f, from, v) == [y \in DOMAIN f |-> IF y >= from THEN f[y] + v ELSE f[y]]

\* What _st_leftmost searches for: the positions whose value has reached v.
AtLeast(f, v) == {p \in DOMAIN f : f[p] >= v}
=============================================================================
