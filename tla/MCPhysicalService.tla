------------------------- MODULE MCPhysicalService -------------------------
(* Instances of PhysicalService and the properties only TLC checks.          *)
EXTENDS PhysicalProperties

Config(jobs, workers, bmax, window, maxClock, maxCrashes, policies, releases, scores) ==
  [jobs |-> jobs, workers |-> workers, b0 |-> 1, etaK |-> 1, bmax |-> bmax,
   window |-> window, maxClock |-> maxClock, maxCrashes |-> maxCrashes,
   policies |-> policies, releases |-> releases, requests |-> {1}, scores |-> scores]

(* Two workers of which one may exit; one worker and jobs enough to reach    *)
(* the bounds; one worker that is idle before the window ends.               *)
TwoWorkers == Config(3, {1, 2}, 2, 0, 0, 1, {"FCFS", "SPJF-E", "Guard"}, {0}, {0, 1})
LongQueue  == Config(4, {1}, 2, 1, 1, 0, {"Guard"}, {0, 1}, {0, 1, 2})
IdleWindow == Config(2, {1}, 2, 3, 0, 1, {"SPJF-E"}, {0, 1}, {0, 1})
MCConfigs == {TwoWorkers, LongQueue, IdleWindow}

-----------------------------------------------------------------------------
(* Every run ends with its workers gone, and by an exception only if a       *)
(* worker process exited.                                                    *)
RunEnds == <>(pc = "ended" /\ FailsOnlyOnExit)
=============================================================================
