------------------------------ MODULE MCKernel ------------------------------
(***************************************************************************)
(* Small instances of the kernel: the policies each run explores.          *)
(***************************************************************************)
EXTENDS PerJobBounds

P(mode, b0, en, ed, bmax, gam, ncap) ==
  [mode |-> mode, b0 |-> b0, en |-> en, ed |-> ed,
   bmax |-> bmax, gam |-> gam, ncap |-> ncap]

\* Budgets of every shape: constant, relative, queue-length, capped and not.
GuardPolicies ==
  { P("guard", 0, 0, 1, 3, 0, 0),    \* zero constant part: FCFS
    P("guard", 2, 0, 1, 4, 0, 0),    \* constant
    P("guard", 1, 1, 2, 4, 0, 0),    \* relative, capped
    P("guard", 0, 1, 2, 0, 0, 0),    \* relative, no cap
    P("guard", 1, 2, 1, 1, 0, 0),    \* a slope that outruns two servers: the cap decides
    P("guard", 1, 0, 1, 2, 2, 0) }   \* queue length, clipped by the cap

\* Budgets for the bounds of two servers: under the first only the cap ever fires
\* (its slope outruns two servers), under the second there is no cap; the last is an
\* ordinary capped one.
PromisePolicies ==
  { P("guard", 1, 2, 1, 1, 0, 0), P("guard", 1, 1, 8, 0, 0, 0),
    P("guard", 1, 1, 2, 3, 0, 0) }

\* The window slides under the guards; the skip wrapper shares the queue.
SlidingPolicies ==
  { P("guard", 1, 0, 1, 2, 2, 0), P("guard", 1, 1, 2, 4, 0, 0),
    P("skip", 0, 0, 1, 0, 0, 2) }

BasePolicies ==
  { P("fcfs", 0, 0, 1, 0, 0, 0), P("score", 0, 0, 1, 0, 0, 0),
    P("skip", 0, 0, 1, 0, 0, 0), P("skip", 0, 0, 1, 0, 0, 1),
    P("skip", 0, 0, 1, 0, 0, 2) }

\* Every mode and every shape of budget.
AllPolicies == BasePolicies \cup GuardPolicies

SinglePolicies ==
  { P("fcfs", 0, 0, 1, 0, 0, 0), P("score", 0, 0, 1, 0, 0, 0),
    P("skip", 0, 0, 1, 0, 0, 1), P("guard", 0, 0, 1, 3, 0, 0),
    P("guard", 2, 1, 2, 2, 0, 0), P("guard", 0, 1, 2, 0, 0, 0) }
=============================================================================
