------------------------- MODULE PhysicalProperties -------------------------
(* What the event file and the certificates of the physical service promise. *)
EXTENDS PhysicalService

K == Cardinality(Workers)

-----------------------------------------------------------------------------
(* audit_event_prefix (physical_service.py:423-805) reads the event file     *)
(* alone: these are the queue, the jobs in hand, the charged work and the    *)
(* choice that the events of a past, a part of the file from its start,      *)
(* amount to.                                                                *)
Events(type, past) == {i \in DOMAIN past : past[i].type = type}
JobsOf(type, past) == {past[i].job : i \in Events(type, past)}
EventOf(type, j, past) == past[CHOOSE i \in Events(type, past) : past[i].job = j]

Queue(past) == JobsOf("enqueue", past) \ JobsOf("dispatch", past)
InHand(w, past) ==
  {past[i].job : i \in {k \in Events("dispatch", past) : past[k].worker = w}}
    \ JobsOf("completion", past)
Charged(j, past) ==
  LET seen == JobsOf("completion", past)
  IN  WorkOf({i \in seen : i > j}, [i \in seen |-> EventOf("completion", i, past).held])
SpentAt(j, now, past) ==
  \/ Charged(j, past) >= Bmax
  \/ Charged(j, past) >= B0 + EtaK * (now - EventOf("enqueue", j, past).at)
ExpectedFired(now, past) ==
  IF policy = "Guard" THEN {j \in Queue(past) : SpentAt(j, now, past)} ELSE {}
Precedes(i, j) ==
  IF policy = "FCFS" THEN i <= j ELSE score[i] < score[j] \/ (score[i] = score[j] /\ i <= j)
Expected(j, now, past) ==
  LET fired == ExpectedFired(now, past)
  IN  IF fired # {} THEN j \in fired /\ \A i \in fired : j <= i
                    ELSE j \in Queue(past) /\ \A i \in Queue(past) : Precedes(j, i)

(* An event is what the rule says of the events before it.                   *)
EnqueueOK(e, past) ==
  /\ e.job = Cardinality(JobsOf("enqueue", past)) + 1
  /\ e.ahead = Cardinality(Queue(past))
  /\ e.at >= release[e.job]
DispatchOK(e, past) ==
  /\ InHand(e.worker, past) = {}
  /\ e.fired = ExpectedFired(e.at, past)
  /\ Expected(e.job, e.at, past)
CompletionOK(e, past) ==
  /\ InHand(e.worker, past) = {e.job}
  /\ e.held = Held[e.job]
EventOK(e, past) ==
  /\ past # <<>> => past[Len(past)].at <= e.at
  /\ e.type = "enqueue" => EnqueueOK(e, past)
  /\ e.type = "dispatch" => DispatchOK(e, past)
  /\ e.type = "completion" => CompletionOK(e, past)

RunOver == pc = "ended" /\ ~failed

(* The file passes the audit: it is checked for its last event, in every     *)
(* state.  The file of a run that is over has every job through.             *)
AuditPasses ==
  /\ log # <<>> => EventOK(log[Len(log)], SubSeq(log, 1, Len(log) - 1))
  /\ RunOver => JobsOf("dispatch", log) = Jobs /\ JobsOf("completion", log) = Jobs

-----------------------------------------------------------------------------
(* The bounds that check_stall_bound.py certifies of a finished run.  In is  *)
(* the work of the later jobs that were dispatched before job j; L bounds    *)
(* the time a worker holds a job.                                            *)
L == Max({Held[j] : j \in Jobs})
WaitToDispatch(j) == row[j].dispatch - row[j].enqueue
Position(j) == CHOOSE i \in Events("dispatch", log) : log[i].job = j
Passers(j) == {i \in Jobs : i > j /\ Position(i) < Position(j)}
In(j) == Work(Passers(j))

(* lemma8, lemma9: no job is overtaken by more than its budget and what K    *)
(* workers can have in hand when the budget is reached.                      *)
OvertakingCapped ==
  RunOver /\ policy = "Guard" =>
    \A j \in Jobs : Passers(j) # {} =>
      /\ In(j) < Bmax + K * L
      /\ In(j) < B0 + EtaK * WaitToDispatch(j) + K * L

(* The capacity that stood idle while jobs waited to be started, before the  *)
(* instant t (sweep): pipes, polling and sleep overruns.                     *)
Unstarted(u) == \E j \in Jobs : row[j].enqueue <= u /\ u < row[j].start
RunningAt(u) == {j \in Jobs : row[j].start <= u /\ u < row[j].finish}
IdleCapacity(t) ==
  Cardinality({slot \in (0 .. t - 1) \X (1 .. K) :
                 Unstarted(slot[1]) /\ Cardinality(RunningAt(slot[1])) < slot[2]})

(* When first come first served on K ideal workers starts job j.             *)
Arrivals == [i \in 0 .. N - 1 |-> row[i + 1].enqueue]
Holding == [i \in 0 .. N - 1 |-> Held[i + 1]]
Fcfs == INSTANCE ReferenceFcfs WITH a_us <- Arrivals, s_us <- Holding
FcfsStart(j) == Fcfs!Start(j - 1)

(* The stall-corrected bounds on the wait up to the dispatch, against first  *)
(* come first served (the two strict bounds of check_jobs).                  *)
WaitBoundedDespiteStalls ==
  RunOver /\ policy = "Guard" =>
    \A j \in Jobs :
      LET excess == K * (row[j].dispatch - FcfsStart(j))
          stalls == (3 * K - 2) * L + IdleCapacity(row[j].dispatch)
      IN  /\ excess < Bmax + stalls
          /\ excess < B0 + EtaK * WaitToDispatch(j) + stalls

(* An exception takes the dispatcher down only if a worker process exited: a *)
(* completion is never taken for the answer to another job, whatever the     *)
(* delays in the pipes.                                                      *)
FailsOnlyOnExit == failed => crashes > 0
=============================================================================
