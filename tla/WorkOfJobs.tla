----------------------------- MODULE WorkOfJobs -----------------------------
(***************************************************************************)
(* The work of a set of jobs: the sum of their costs, which the code takes *)
(* with numpy sums and running totals.  A job of cost c stands for c units *)
(* of work, and the sum is the number of units.  Stated as a cardinality,  *)
(* the sum is open to proof (WorkTheorems.tla).                            *)
(***************************************************************************)
EXTENDS Integers, FiniteSets

\* The units of work of the jobs in S, where job j costs cost[j].
Units(S, cost) == UNION {{j} \X (1 .. cost[j]) : j \in S}

WorkOf(S, cost) == Cardinality(Units(S, cost))
=============================================================================
