--------------------------- MODULE MCOnlineReplay ---------------------------
(***************************************************************************)
(* A small copy: one exercise, two users, records of another class that    *)
(* tie with completions of the copy.                                       *)
(***************************************************************************)
EXTENDS OnlineReplay

P(mode, b0, en, ed, bmax, gam, ncap) ==
  [mode |-> mode, b0 |-> b0, en |-> en, ed |-> ed,
   bmax |-> bmax, gam |-> gam, ncap |-> ncap]

OnlinePolicies ==
  { P("score", 0, 0, 1, 0, 0, 0), P("skip", 0, 0, 1, 0, 0, 1),
    P("guard", 1, 1, 2, 4, 0, 0) }

MCSegments == [exercise |-> [i \in Rank |-> 1], user |-> [i \in Rank |-> i % 2]]

\* Rows of the copy's jobs, not in arrival order, around the other class's rows.
MCJobRow(i) == <<30, 10, 40, 20>>[i + 1]

Rec(at, zero, row) == [at |-> at, zero |-> zero, row |-> row]
MCExternal ==
  [exercise |-> [id \in {1} |-> <<Rec(1, FALSE, 25), Rec(2, TRUE, 5)>>],
   user     |-> [id \in {0, 1} |-> IF id = 0 THEN <<Rec(1, TRUE, 35)>> ELSE <<>>]]

\* A model that tells states apart: by what is seen, and by what is in the window.
MCPredict(i, state) ==
  ( Cardinality(state["user"].own)
    + 2 * Cardinality({r \in state["exercise"].recent : r > 20})
    + (IF 5 \in state["exercise"].recent THEN 1 ELSE 0) ) % 4
=============================================================================
