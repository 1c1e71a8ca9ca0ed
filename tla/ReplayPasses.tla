---------------------------- MODULE ReplayPasses ----------------------------
(***************************************************************************)
(* What the two iterations over whole replays share                        *)
(* (experiment/online.py and experiment/consistent.py): a pass runs the    *)
(* kernel to its end on the current scores, the results are read, some     *)
(* scores are corrected and the kernel is run again from its start.        *)
(***************************************************************************)
EXTENDS Kernel, OutcomeHistory

VARIABLE outcome  \* "running", or how the iteration ended

Completion == [o \in Rank |-> Done(o)]
PassEnded == ndisp = N

\* The previous pass's arrays are dropped and simulate is called with new scores.
Simulate(scores) ==
  /\ score' = scores
  /\ t' = BeforeTime /\ next' = 0 /\ run' = {} /\ served' = {}
  /\ start' = [j \in Rank |-> NotStarted]
  /\ dispatchIndex' = [j \in Rank |-> NotStarted]
  /\ ndisp' = 0 /\ nforced' = 0 /\ qwTotal' = 0 /\ qwForced' = 0
  /\ nwait' = 0 /\ fifoHead' = 0 /\ heap' = {}
  /\ completedWork' = 0 /\ fenWork' = [q \in Rank |-> 0]
  /\ dispatchedRanks' = 0 /\ fenCount' = [q \in Rank |-> 0]
  /\ zs' = [q \in Rank |-> 0] /\ ahead' = [q \in Rank |-> 0]
  /\ leaf' = [p \in {} |-> 0] /\ base' = 0
  /\ nrebuild' = 0 /\ maxSpan' = 0 /\ err' = FALSE
  /\ UNCHANGED <<a_us, s_us, pol>>

\* Earliest arrival among the given jobs.
EarliestOf(jobs) ==
  CHOOSE u \in {a_us[i] : i \in jobs} : \A i \in jobs : u <= a_us[i]

Arrivals == {a_us[i] : i \in Rank}
=============================================================================
