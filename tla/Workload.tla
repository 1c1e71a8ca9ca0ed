------------------------------ MODULE Workload ------------------------------
(***************************************************************************)
(* The inputs of one simulated run: a trace of jobs in rank order          *)
(* (sim/runner.py, Trace) and the policy that orders the queue             *)
(* (sim/policy.py, Policy).  They are chosen once, in the initial state,   *)
(* and never change; keeping them in variables lets one TLC run explore    *)
(* every trace and every policy of the small instance.                     *)
(*                                                                         *)
(* Time, work and budgets are whole numbers of one unit, as the code's     *)
(* int64 microseconds are.  A rank is the index 0 .. N-1 of a job in       *)
(* (arrival, input index) order.                                           *)
(***************************************************************************)
EXTENDS Integers

CONSTANTS
  N,           \* number of jobs in the trace
  K,           \* number of identical servers
  L,           \* the limit on executed work per job (limit_s)
  MaxArrival,  \* latest arrival instant explored
  Services,    \* service times explored
  Scores,      \* base scores explored
  Policies     \* policies explored

\* Jobs, by rank.
Rank == 0 .. N - 1

\* kernel.py's four modes: which structure decides a dispatch.
Modes == {"fcfs", "score", "guard", "skip"}

\* The parameters simulate() hands to the kernel.  The slope of the budget in
\* waiting time is the exact fraction en/ed; bmax = 0 means that there is no cap.
PolicyType == [mode: Modes, b0: Nat, en: Nat, ed: Nat \ {0},
               bmax: Nat, gam: Nat, ncap: Nat]

\* Policy.__post_init__ rejects every other combination: the constant part of a
\* capped work budget may not start above the cap.
ValidPolicy(p) == p.mode = "guard" /\ p.bmax > 0 => p.b0 <= p.bmax

ASSUME SizeAssumption == N \in Nat \ {0} /\ K \in Nat \ {0} /\ L \in Nat \ {0}
ASSUME ArrivalAssumption == MaxArrival \in Nat
ASSUME ServiceAssumption == Services \subseteq 1 .. L
ASSUME ScoreAssumption == Scores \subseteq Int
ASSUME PolicyAssumption ==
  Policies \subseteq PolicyType /\ \A p \in Policies : ValidPolicy(p)

VARIABLES
  a_us,   \* arrival instant of each rank
  s_us,   \* true service time of each rank
  score,  \* base score of each rank
  pol     \* the policy

inputs == <<a_us, s_us, score, pol>>

\* Trace.__post_init__: jobs in rank order, service times positive and at most
\* the limit.  Arrivals are counted from the start of the trace: the kernel starts
\* its clock at -2^62, before any of them, and only differences of instants matter.
TraceOK ==
  /\ a_us \in [Rank -> 0 .. MaxArrival]
  /\ \A p, q \in Rank : p <= q => a_us[p] <= a_us[q]
  /\ s_us \in [Rank -> Services]
  /\ pol \in Policies

InputsOK == TraceOK /\ score \in [Rank -> Scores]

\* Order of the base policy: smallest score first, ties to the smaller rank.
Before(i, j) == \/ score[i] < score[j]
                \/ score[i] = score[j] /\ i < j
=============================================================================
