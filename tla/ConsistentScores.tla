-------------------------- MODULE ConsistentScores --------------------------
(***************************************************************************)
(* experiment/consistent.py, refine_policy: correct the scores of the      *)
(* source log until no score reads an outcome of its own copy that the     *)
(* replay completes only after the job arrived.  A pass counts the         *)
(* premature outcomes of every job by prefix sums over the finished replay *)
(* (experiment/visibility.py); for the jobs whose count is not covered by  *)
(* what is already withheld from them, it lists the outcomes from a time   *)
(* window of the source log (features/refine.py), checks the list against  *)
(* the count, withholds what is new and rescores.                          *)
(*                                                                         *)
(* The copy is one (class, round) pair; other copies share no outcome with *)
(* it.  The score cache is left out: it is keyed by everything the score   *)
(* depends on.                                                             *)
(***************************************************************************)
EXTENDS ReplayPasses

VARIABLE withheld  \* per job: its own copy's outcomes its score may no longer read

refinementVars == <<withheld, outcome>>
consistentVars == <<vars, avail, refinementVars>>

SharesHistory(h, o, i) == o # i /\ SegmentOf(h, o) = SegmentOf(h, i)

\* same_copy_sources: the own copy's outcomes the score of the source log reads.
Used(i) == {o \in Rank : /\ \E h \in Histories : SharesHistory(h, o, i)
                         /\ avail[o] <= a_us[i]}

Late(o, i) == Done(o) > a_us[i]

---------------------------------------------------------------------------
\* The count, _premature_counts: one prefix query per key, over the outcomes in the
\* order of the source log; the pair is in both other keys.
Keys == Histories \cup {"pair"}
InGroup(k, o, i) ==
  IF k = "pair" THEN \A h \in Histories : SharesHistory(h, o, i) ELSE SharesHistory(k, o, i)

\* _layout: outcomes visible in the source log, and how many of them have completed.
Query(k, i) == Cardinality({o \in Rank : InGroup(k, o, i) /\ avail[o] <= a_us[i]})
DoneInQuery(k, i) ==
  Cardinality({o \in Rank : InGroup(k, o, i) /\ avail[o] <= a_us[i] /\ ~Late(o, i)})

\* ChecksAgree: the outcomes in both histories are counted twice.
Bug_ByKey(c) == c["user"] + c["exercise"]
ByKey(c) == c["user"] + c["exercise"] - c["pair"]
Premature(i) ==
  ByKey([k \in Keys |-> Query(k, i)]) - ByKey([k \in Keys |-> DoneInQuery(k, i)])

\* _covered_violations: withheld outcomes that are late in this replay, too.
Covered(i) == Cardinality({o \in withheld[i] : Late(o, i)})
Uncovered(i) == Premature(i) - Covered(i)
Affected == {i \in Rank : Uncovered(i) > 0}

---------------------------------------------------------------------------
\* The list, recent_same_copy_sources: outcomes the source log released within the
\* longest wait of the replay before the job arrived.
LongestWait == CHOOSE w \in {Wait(i) : i \in Rank} : \A i \in Rank : Wait(i) <= w
Recent(i) == {o \in Used(i) : avail[o] >= a_us[i] - LongestWait}
Listed(i) == {o \in Recent(i) : Late(o, i)}

\* _new_violations raises AssertionError.
CheckFails ==
  \/ \E i \in Rank : Uncovered(i) < 0
  \/ \E i \in Affected : Cardinality(Listed(i)) # Premature(i)

\* ReadsOnlyCompleted: a job that was corrected once is not looked at again.
Bug_Additions ==
  [i \in Rank |-> IF i \in Affected /\ withheld[i] = {} THEN Listed(i) ELSE {}]
Additions == [i \in Rank |-> IF i \in Affected THEN Listed(i) \ withheld[i] ELSE {}]

\* IterationsEnd: what an earlier pass withheld is restored.
Bug_Grown == [i \in Rank |-> IF Additions[i] = {} THEN withheld[i] ELSE Additions[i]]
Grown == [i \in Rank |-> withheld[i] \cup Additions[i]]

\* _updated_histories, _rescore: the source log's state without what is withheld.
ScoreOf(i, without) == Predict(i, Rebuilt(i, Used(i) \ without, avail))
Corrected == [i \in Rank |-> IF Additions[i] = {} THEN score[i] ELSE ScoreOf(i, Grown[i])]

CanDetect == outcome = "running" /\ PassEnded

Withhold ==
  /\ CanDetect /\ ~CheckFails
  /\ \E i \in Rank : Additions[i] # {}
  /\ withheld' = Grown
  /\ Simulate(Corrected)
  /\ UNCHANGED <<avail, outcome>>

\* A full pass without additions ends the refinement.
Finish ==
  /\ CanDetect /\ ~CheckFails
  /\ \A i \in Rank : Additions[i] = {}
  /\ outcome' = "consistent"
  /\ UNCHANGED <<vars, avail, withheld>>

ReplayStep ==
  /\ outcome = "running" /\ Running
  /\ Next
  /\ UNCHANGED <<avail, refinementVars>>

\* The refinement has ended; an error raised by simulate or by the checks ends it, too.
Over ==
  /\ outcome # "running" \/ err \/ (CanDetect /\ CheckFails)
  /\ UNCHANGED consistentVars

ConsistentInit ==
  /\ TraceOK /\ avail \in Logs /\ score = Baseline
  /\ Idle
  /\ withheld = [i \in Rank |-> {}]
  /\ outcome = "running"

ConsistentNext == ReplayStep \/ Withhold \/ Finish \/ Over

ConsistentSpec == ConsistentInit /\ [][ConsistentNext]_consistentVars
                    /\ WF_consistentVars(ConsistentNext)

---------------------------------------------------------------------------
\* The count by prefix sums, the withheld outcomes and the list agree in every replay,
\* and no assertion of the code ever fails.  The list's time window misses no premature
\* outcome, because the log never released one before the replay's service alone would.
ChecksAgree ==
  PassEnded =>
    /\ ~CheckFails
    /\ \A i \in Rank : LET late == {o \in Used(i) : Late(o, i)} IN
         Listed(i) = late /\ Premature(i) = Cardinality(late)

\* What the module promises: in the final replay every outcome of its own copy that a
\* score reads is really complete when the job arrives.
ReadsOnlyCompleted ==
  outcome = "consistent" =>
    \A i \in Rank : \A o \in Used(i) \ withheld[i] : Done(o) <= a_us[i]

\* No limit on the passes is needed: each one withholds an outcome for good, so the
\* refinement ends by itself.
EndsConsistent == <>(outcome = "consistent" \/ err)
=============================================================================
