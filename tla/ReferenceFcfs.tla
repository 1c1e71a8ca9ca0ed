---------------------------- MODULE ReferenceFcfs ----------------------------
(***************************************************************************)
(* First come first served on K servers, by the recursions of              *)
(* sim/reference.py: what every bound of the project compares a schedule   *)
(* with.  Jobs are ranks, in the order of their arrival.                   *)
(***************************************************************************)
EXTENDS Integers

CONSTANTS
  N, K,  \* number of jobs, number of servers
  a_us,  \* arrival instant of each rank
  s_us   \* service time of each rank

Rank == 0 .. N - 1
Servers == 1 .. K

Larger(x, y) == IF x >= y THEN x ELSE y

\* kiefer_wolfowitz: a server that falls free first, the instants at which the k
\* servers fall free before job i, and the start and the wait of job i.
FirstFree(free) == CHOOSE v \in Servers : \A u \in Servers : free[v] <= free[u]
FreeAt[i \in 0 .. N] ==
  IF i = 0 THEN [v \in Servers |-> 0]
  ELSE LET free == FreeAt[i - 1]
           v    == FirstFree(free)
       IN  [free EXCEPT ![v] = Larger(a_us[i - 1], free[v]) + s_us[i - 1]]
Start(i) == Larger(a_us[i], FreeAt[i][FirstFree(FreeAt[i])])
Wait(i) == Start(i) - a_us[i]

\* lindley: the waits on a single server.
Lindley[i \in Rank] ==
  IF i = 0 THEN 0
  ELSE Larger(0, Lindley[i - 1] + s_us[i - 1] - (a_us[i] - a_us[i - 1]))
=============================================================================
