-------------------------- MODULE OnlineFixedPoint --------------------------
(***************************************************************************)
(* experiment/online.py, refine_policy_online: reach the online replay by  *)
(* iterating whole replays.  A pass computes every job's online state from *)
(* the finished replay and rescores the jobs whose state is not the one    *)
(* their score was computed from.  Only jobs that arrive after the last    *)
(* earliest mismatch are looked at, until a pass finds none; then every    *)
(* job is looked at once more on the same replay.                          *)
(***************************************************************************)
EXTENDS ReplayPasses

CONSTANT PassBudgets  \* values of max_passes explored (400 in the code)

ASSUME PassBudgetAssumption == PassBudgets \subseteq Nat \ {0}

VARIABLES
  stored,    \* per job: the state its score was computed from
  settled,   \* settled_us: earliest mismatch of the last pass, or Unsettled
  maxPasses, \* max_passes, chosen once
  passes     \* completed passes

iterationVars == <<stored, settled, maxPasses, passes, outcome>>
fixedPointVars == <<vars, avail, iterationVars>>

Unsettled == -1

\* online_signatures on the pass's view: the state each job has in this replay.
ViewState(i) == OnlineState(i, Rank, Completion)

\* SettledJobsConsistent: the frontier's successors are taken for settled, too.
Bug_Checked == IF settled = Unsettled THEN Rank ELSE {i \in Rank : a_us[i] > settled + 1}
Checked == IF settled = Unsettled THEN Rank ELSE {i \in Rank : a_us[i] > settled}
Mismatched == {i \in Checked : ViewState(i) # stored[i]}

\* OnlineAtFixedPoint: the rebuilt windows are ordered by the source
\* log's instants.
Bug_Rescored ==
  [i \in Rank |-> IF i \in Mismatched
                   THEN Predict(i, Rebuilt(i, {o \in Rank : Done(o) <= a_us[i]}, avail))
                   ELSE score[i]]
Rescored == [i \in Rank |-> IF i \in Mismatched THEN Predict(i, ViewState(i)) ELSE score[i]]

Stored == [i \in Rank |-> IF i \in Mismatched THEN ViewState(i) ELSE stored[i]]

CanCheck == outcome = "running" /\ PassEnded

\* A pass that found mismatches: they are rescored and the next pass simulates.
Correct ==
  /\ CanCheck /\ passes < maxPasses
  /\ Mismatched # {}
  /\ stored' = Stored
  /\ settled' = EarliestOf(Mismatched)
  /\ passes' = passes + 1
  /\ Simulate(Rescored)
  /\ UNCHANGED <<avail, maxPasses, outcome>>

\* No later job mismatched: look at every job, on the same replay.
Recheck ==
  /\ CanCheck /\ passes < maxPasses
  /\ Mismatched = {} /\ Checked # Rank
  /\ settled' = Unsettled
  /\ passes' = passes + 1
  /\ UNCHANGED <<vars, avail, stored, maxPasses, outcome>>

Stop ==
  /\ CanCheck /\ passes < maxPasses
  /\ Mismatched = {} /\ Checked = Rank
  /\ passes' = passes + 1
  /\ outcome' = "fixed point"
  /\ UNCHANGED <<vars, avail, stored, settled, maxPasses>>

\* The pass budget is spent before the iteration stops.
GiveUp ==
  /\ CanCheck /\ passes >= maxPasses
  /\ outcome' = "no fixed point"
  /\ UNCHANGED <<vars, avail, stored, settled, maxPasses, passes>>

SimulatorStep ==
  /\ outcome = "running" /\ Running
  /\ Next
  /\ UNCHANGED <<avail, iterationVars>>

\* The iteration is over; a window error in a replay (simulate raises) ends it as well.
Returned == (outcome # "running" \/ err) /\ UNCHANGED fixedPointVars

FixedPointInit ==
  /\ TraceOK /\ avail \in Logs /\ score = Baseline
  /\ Idle
  /\ stored = [i \in Rank |-> OriginalState(i)]
  /\ maxPasses \in PassBudgets
  /\ settled = Unsettled /\ passes = 0 /\ outcome = "running"

FixedPointNext == SimulatorStep \/ Correct \/ Recheck \/ Stop \/ GiveUp \/ Returned

FixedPointSpec == FixedPointInit /\ [][FixedPointNext]_fixedPointVars
                    /\ WF_fixedPointVars(FixedPointNext)

---------------------------------------------------------------------------
\* The module docstring's induction: once a replay of corrected scores has ended,
\* every job up to the last earliest mismatch sees the state it was scored from.  So
\* looking only at later arrivals misses nobody, and the full check of the same replay
\* never finds a mismatch.
SettledJobsConsistent ==
  PassEnded =>
    /\ \A i \in Rank : a_us[i] <= settled => ViewState(i) = stored[i]
    /\ passes > 0 /\ settled = Unsettled => Mismatched = {}

\* When the iteration stops, each score is the one an online predictor gives at the
\* job's arrival in that very replay.
OnlineAtFixedPoint ==
  outcome = "fixed point" =>
    \A i \in Rank : score[i] = Predict(i, OnlineState(i, Rank, Completion))

\* The iteration stops by itself, after at most one correction per arrival instant and
\* two passes that confirm it: a larger budget is never spent.
EndsWithFixedPoint ==
  maxPasses >= Cardinality(Arrivals) + 2 => <>(outcome = "fixed point" \/ err)
=============================================================================
