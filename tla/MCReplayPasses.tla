--------------------------- MODULE MCReplayPasses ---------------------------
(***************************************************************************)
(* The two iterations over whole replays on the same copies: a behaviour   *)
(* takes one of them to its end.  A copy has two exercises and two users,  *)
(* so that two jobs share both histories, one of them, or none, and        *)
(* records of another class that tie with its completions.                 *)
(***************************************************************************)
EXTENDS OnlineFixedPoint, ConsistentScores

VARIABLE procedure  \* "online": refine_policy_online; "consistent": refine_policy

P(mode, b0, en, ed, bmax, gam, ncap) ==
  [mode |-> mode, b0 |-> b0, en |-> en, ed |-> ed,
   bmax |-> bmax, gam |-> gam, ncap |-> ncap]

IteratedPolicies == { P("score", 0, 0, 1, 0, 0, 0), P("guard", 1, 1, 2, 4, 0, 0) }

MCSegments == [exercise |-> [i \in Rank |-> IF i = 2 THEN 2 ELSE 1],
               user |-> [i \in Rank |-> i % 2]]
MCJobRow(i) == <<10, 30, 40, 20, 50>>[i + 1]

Rec(at, zero, row) == [at |-> at, zero |-> zero, row |-> row]
MCExternal ==
  [exercise |-> [id \in {1, 2} |-> IF id = 1 THEN <<Rec(1, FALSE, 25), Rec(2, TRUE, 5)>>
                                      ELSE <<>>],
   user     |-> [id \in {0, 1} |-> IF id = 0 THEN <<Rec(1, TRUE, 35)>> ELSE <<>>]]

\* Early jobs score high, so that their outcomes come late, and what a job sees moves
\* it in the queue.
MCPredict(i, state) ==
  LET seen == Cardinality(state["user"].own) + 2 * Cardinality(state["exercise"].own)
      late == IF 5 \in state["exercise"].recent THEN 1 ELSE 0
      newest == Cardinality({r \in state["exercise"].recent : r > 20})
  IN  (2 * (N - i) + 3 * seen + late + 2 * newest) % 7

-----------------------------------------------------------------------------
Online == procedure = "online"
Refining == procedure = "consistent"
notOfOnline == <<procedure, withheld>>
notOfRefining == <<procedure, stored, settled, maxPasses, passes>>
passVars == <<fixedPointVars, notOfOnline>>

PassesInit ==
  \/ Online /\ FixedPointInit /\ withheld = [i \in Rank |-> {}]
  \/ /\ Refining /\ ConsistentInit
     /\ stored = [i \in Rank |-> OriginalState(i)]
     /\ settled = Unsettled /\ maxPasses = 1 /\ passes = 0

PassesNext ==
  \/ Online /\ FixedPointNext /\ UNCHANGED notOfOnline
  \/ Refining /\ ConsistentNext /\ UNCHANGED notOfRefining

\* Each is one sequential program: it goes on until it ends.
PassesSpec == PassesInit /\ [][PassesNext]_passVars /\ WF_passVars(PassesNext)

-----------------------------------------------------------------------------
\* Each iteration ends by itself: refine_policy needs no limit on its passes, and
\* refine_policy_online never spends a budget larger than the number of arrivals.
IterationsEnd ==
  /\ Online => EndsWithFixedPoint
  /\ Refining => EndsConsistent
=============================================================================
