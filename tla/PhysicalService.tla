--------------------------- MODULE PhysicalService ---------------------------
(* The physical service of evidence/weakness1_attack/physical_service.py: a  *)
(* dispatcher and K worker processes that really sleep, joined by pipes.     *)
(* The dispatcher enqueues the jobs whose release has passed, gives a job to *)
(* every idle worker it can (Algorithm 1 over the completions it has         *)
(* received), and then waits for a message, a process that exits, or the     *)
(* next release.  The clock runs on between any two steps of any process.    *)
(*                                                                           *)
(* log is the event file: the run is audited from it afterwards.             *)
(* Bug_X is a mutated form of the definition X that follows it.              *)
EXTENDS Integers, Sequences, FiniteSets, FiniteSetsExt, WorkOfJobs

CONSTANTS
  Configs,     \* the services explored
  WorkerIds,   \* the worker ids they use, a set of numbers
  NoJob        \* no job, and no time

ASSUME ConfigAssumption ==
  /\ IsFiniteSet(WorkerIds) /\ WorkerIds \subseteq Nat
  /\ Configs \subseteq
       [jobs: Nat \ {0}, workers: (SUBSET WorkerIds) \ {{}}, b0: Nat, etaK: Nat, bmax: Nat,
        window: Nat, maxClock: Nat, maxCrashes: Nat,
        policies: SUBSET {"FCFS", "SPJF-E", "Guard"},
        releases: SUBSET Nat, requests: SUBSET (Nat \ {0}), scores: SUBSET Int]
ASSUME NoJobAssumption == NoJob \notin Nat

VARIABLES
  config,      \* what is fixed for a run
  policy,      \* "FCFS" | "SPJF-E" | "Guard"
  release, requested, score,  \* the input: by job
  clock,
  \* the dispatcher
  pc,          \* "starting" | "wait" | "receive" | "scan" | "loop" | "rescan"
               \* | "stopping" | "ended"
  failed,      \* an exception took the dispatcher to its finally block
  ready,       \* what the last wait returned and is not yet handled
  scanned,     \* the time for which enqueue_due looks
  waiting,     \* the jobs enqueued and not dispatched
  nextArrival,
  row,         \* what is recorded of a job: when it was enqueued, dispatched,
               \* started and finished, as far as the dispatcher knows
  wakeAt,      \* when the wait ends by itself, or NoJob
  busy,        \* the job a worker was given and has not answered
  log,
  \* the workers and their pipes
  status,      \* "starting" | "idle" | "running" | "exited"
  running,     \* the job in hand and when it was started
  command,     \* the job in the pipe to the worker
  reply,       \* the completion in the pipe from the worker
  crashes

input == <<config, policy, release, requested, score>>
disp == <<pc, failed, ready, scanned, waiting, nextArrival, row, wakeAt, busy, log>>
procs == <<status, running, command, reply, crashes>>
vars == <<input, clock, disp, procs>>

(* Jobs 1 .. N in order of release, K workers, the budget of a waiting job   *)
(* (B0 + EtaK * age, at most Bmax), and the end of the release window.       *)
N == config.jobs
Jobs == 1 .. N
Workers == config.workers
B0 == config.b0
EtaK == config.etaK
Bmax == config.bmax
Window == config.window
(* Bounds of the model: the clock passes MaxClock only when something waits  *)
(* for it, and MaxCrashes workers may exit.                                  *)
MaxClock == config.maxClock
MaxCrashes == config.maxCrashes

Nothing == [job |-> NoJob, start |-> 0, finish |-> 0]
Unknown == -1
Completed == {j \in Jobs : row[j].finish # Unknown}
Held == [j \in Jobs |-> row[j].finish - row[j].start]
Idle == {w \in Workers : busy[w] = NoJob}

(* The dispatcher sees a message in the pipe and a process that has exited.  *)
Readable == {w \in Workers : reply[w] # Nothing} \X {"reply"}
Exits == {w \in Workers : status[w] = "exited"} \X {"exit"}

(* prepare_input: jobs in order of release, the first at the origin.         *)
Init ==
  /\ config \in Configs /\ policy \in config.policies
  /\ release \in [Jobs -> config.releases]
  /\ release[1] = 0 /\ \A i, j \in Jobs : i < j => release[i] <= release[j]
  /\ requested \in [Jobs -> config.requests]
  /\ score \in [Jobs -> config.scores]
  /\ clock = 0 /\ pc = "starting" /\ failed = FALSE /\ ready = {} /\ scanned = 0
  /\ waiting = {} /\ nextArrival = 1 /\ wakeAt = NoJob
  /\ row = [j \in Jobs |-> [enqueue |-> Unknown, dispatch |-> Unknown,
                            start |-> Unknown, finish |-> Unknown]]
  /\ busy = [w \in Workers |-> NoJob] /\ log = <<>>
  /\ status = [w \in Workers |-> "starting"]
  /\ running = [w \in Workers |-> Nothing]
  /\ command = [w \in Workers |-> NoJob]
  /\ reply = [w \in Workers |-> Nothing] /\ crashes = 0

-----------------------------------------------------------------------------
(* Workers.                                                                  *)
Announce(w) ==
  /\ status[w] = "starting"
  /\ status' = [status EXCEPT ![w] = "idle"]
  /\ UNCHANGED <<input, clock, disp, running, command, reply, crashes>>

StartJob(w) ==
  /\ status[w] = "idle" /\ command[w] # NoJob
  /\ status' = [status EXCEPT ![w] = "running"]
  /\ running' = [running EXCEPT ![w] = [job |-> command[w], start |-> clock, finish |-> 0]]
  /\ command' = [command EXCEPT ![w] = NoJob]
  /\ UNCHANGED <<input, clock, disp, reply, crashes>>

(* time.sleep returns at the requested time or later; the worker reports how *)
(* long it really held the job.                                              *)
Elapsed(w) == clock - running[w].start
FinishJob(w) ==
  /\ status[w] = "running" /\ Elapsed(w) >= requested[running[w].job]
  /\ reply' = [reply EXCEPT ![w] = [running[w] EXCEPT !.finish = clock]]
  /\ status' = [status EXCEPT ![w] = "idle"]
  /\ running' = [running EXCEPT ![w] = Nothing]
  /\ UNCHANGED <<input, clock, disp, command, crashes>>

Exit(w) ==
  /\ status' = [status EXCEPT ![w] = "exited"]
  /\ running' = [running EXCEPT ![w] = Nothing]
  /\ command' = [command EXCEPT ![w] = NoJob]

(* A worker process dies.  What it has sent stays in the pipe.               *)
Crash(w) ==
  /\ status[w] # "exited" /\ crashes < MaxCrashes /\ pc \notin {"stopping", "ended"}
  /\ crashes' = crashes + 1
  /\ Exit(w)
  /\ UNCHANGED <<input, clock, disp, reply>>

(* stop_workers: an idle worker reads "stop" and leaves; one that does not   *)
(* within ten seconds is terminated.                                         *)
LeaveOrTerminate(w) ==
  /\ pc = "stopping" /\ status[w] # "exited"
  /\ Exit(w)
  /\ UNCHANGED <<input, clock, disp, reply, crashes>>

-----------------------------------------------------------------------------
(* The dispatcher.                                                           *)
Goto(label) == pc' = label
Fail == pc' = "stopping" /\ failed' = TRUE

(* Every worker has announced itself, or one of them exited.                 *)
Begin ==
  /\ pc = "starting"
  /\ \/ /\ \A w \in Workers : status[w] = "idle"
        /\ Goto("receive") /\ UNCHANGED failed
     \/ /\ Exits # {}
        /\ Fail
  /\ UNCHANGED <<input, clock, ready, scanned, waiting, nextArrival, row,
                 wakeAt, busy, log, procs>>

(* The messages are handled one by one.  A process that has exited raises an *)
(* exception, and so does a completion of a job the worker was not given.    *)
Bug_Recorded(m) ==
  [row EXCEPT ![m.job].start = m.start, ![m.job].finish = m.start + requested[m.job]]
Recorded(m) == [row EXCEPT ![m.job].start = m.start, ![m.job].finish = m.finish]
Receive(w) ==
  LET m == reply[w]
  IN  /\ pc = "receive" /\ <<w, "reply">> \in ready
      /\ ready' = ready \ {<<w, "reply">>}
      /\ reply' = [reply EXCEPT ![w] = Nothing]
      /\ IF busy[w] = m.job
           THEN /\ row' = Recorded(m)
                /\ busy' = [busy EXCEPT ![w] = NoJob]
                /\ log' = Append(log, [type |-> "completion", job |-> m.job,
                             worker |-> w, at |-> clock, held |-> m.finish - m.start])
                /\ UNCHANGED <<pc, failed>>
           ELSE Fail /\ UNCHANGED <<row, busy, log>>
      /\ UNCHANGED <<input, clock, scanned, waiting, nextArrival, wakeAt,
                     status, running, command, crashes>>
WorkerExited(w) ==
  /\ pc = "receive" /\ <<w, "exit">> \in ready
  /\ Fail
  /\ UNCHANGED <<input, clock, ready, scanned, waiting, nextArrival, row,
                 wakeAt, busy, log, procs>>

Received ==
  /\ pc = "receive" /\ ready = {}
  /\ scanned' = clock /\ Goto("scan")
  /\ UNCHANGED <<input, clock, failed, ready, waiting, nextArrival, row, wakeAt,
                 busy, log, procs>>

(* enqueue_due: one job at a time, each with the clock read for it.          *)
Due == nextArrival <= N /\ release[nextArrival] <= scanned
Enqueue ==
  /\ pc \in {"scan", "rescan"} /\ Due
  /\ waiting' = waiting \cup {nextArrival}
  /\ row' = [row EXCEPT ![nextArrival].enqueue = clock]
  /\ log' = Append(log, [type |-> "enqueue", job |-> nextArrival, at |-> clock,
                         ahead |-> Cardinality(waiting)])
  /\ nextArrival' = nextArrival + 1
  /\ UNCHANGED <<input, clock, pc, failed, ready, scanned, wakeAt, busy, procs>>
Scanned ==
  /\ pc = "scan" /\ ~Due
  /\ Goto("loop")
  /\ UNCHANGED <<input, clock, failed, ready, scanned, waiting,
                 nextArrival, row, wakeAt, busy, log, procs>>

Dispatchable == Idle # {} /\ waiting # {}
Rescan ==
  /\ pc = "loop" /\ Dispatchable
  /\ scanned' = clock /\ Goto("rescan")
  /\ UNCHANGED <<input, clock, failed, ready, waiting, nextArrival, row, wakeAt,
                 busy, log, procs>>

(* choose_job: the base policy's job, unless a waiting job has used up its   *)
(* budget of completed later-ranked work; then the earliest such job.        *)
Work(jobs) == WorkOf(jobs, Held)
Bug_Over(j) == Work({i \in Completed : i > j + 1})
Over(j) == Work({i \in Completed : i > j})
Budget(j, at) == LET b == B0 + EtaK * (at - row[j].enqueue)
                 IN  IF b < Bmax THEN b ELSE Bmax
Fired(at) == IF policy = "Guard" THEN {j \in waiting : Over(j) >= Budget(j, at)}
                                 ELSE {}
BaseChoice ==
  IF policy = "FCFS"
    THEN Min(waiting)
    ELSE CHOOSE j \in waiting : \A i \in waiting :
           score[j] < score[i] \/ (score[j] = score[i] /\ j <= i)
Bug_Chosen(at) == IF Fired(at) # {} THEN Max(Fired(at)) ELSE BaseChoice
Chosen(at) == IF Fired(at) # {} THEN Min(Fired(at)) ELSE BaseChoice

(* Sending to a process that is gone raises an exception.                    *)
Dispatch ==
  LET w == Min(Idle)  j == Chosen(clock)
  IN  /\ pc = "rescan" /\ ~Due
      /\ IF status[w] = "exited"
           THEN Fail /\ UNCHANGED <<command, busy, waiting, row, log>>
           ELSE /\ command' = [command EXCEPT ![w] = j]
                /\ busy' = [busy EXCEPT ![w] = j]
                /\ waiting' = waiting \ {j}
                /\ row' = [row EXCEPT ![j].dispatch = clock]
                /\ log' = Append(log, [type |-> "dispatch", job |-> j, worker |-> w,
                                       at |-> clock, fired |-> Fired(clock)])
                /\ Goto("loop") /\ UNCHANGED failed
      /\ UNCHANGED <<input, clock, ready, scanned, nextArrival, wakeAt,
                     status, running, reply, crashes>>

(* Nothing more to give out: the run is over, or the dispatcher waits.       *)
Finished == Completed = Jobs /\ clock >= Window
Bug_NextWake == IF nextArrival <= N THEN release[nextArrival] ELSE NoJob
NextWake == IF nextArrival <= N THEN release[nextArrival]
            ELSE IF clock < Window THEN Window ELSE NoJob
Settle ==
  /\ pc = "loop" /\ ~Dispatchable
  /\ IF Finished THEN Goto("stopping") /\ UNCHANGED wakeAt
                 ELSE Goto("wait") /\ wakeAt' = NextWake
  /\ UNCHANGED <<input, clock, failed, ready, scanned, waiting, nextArrival,
                 row, busy, log, procs>>

(* The wait ends with whatever is ready, or when the next release or the end *)
(* of the window is due.                                                     *)
Timeout == wakeAt # NoJob /\ clock >= wakeAt
WakeWith(condition) ==
  /\ pc = "wait" /\ condition
  /\ ready' = Readable \cup Exits
  /\ Goto("receive") /\ wakeAt' = NoJob
  /\ UNCHANGED <<input, clock, failed, scanned, waiting, nextArrival, row, busy,
                 log, procs>>
Wake == WakeWith(Timeout \/ Readable \cup Exits # {})

(* It also ends after ten seconds, to report progress.  No run may depend on *)
(* it, so it has no fairness.                                                *)
ProgressWake == WakeWith(TRUE)

(* stop_workers has joined every process.                                    *)
Ended ==
  /\ pc = "stopping" /\ \A w \in Workers : status[w] = "exited"
  /\ Goto("ended")
  /\ UNCHANGED <<input, clock, failed, ready, scanned, waiting,
                 nextArrival, row, wakeAt, busy, log, procs>>

(* The clock.  It goes beyond MaxClock only as far as a sleeping worker, the *)
(* next release or the end of the window needs it to.                        *)
Awaited ==
  \/ \E w \in Workers :
       status[w] = "running" /\ Elapsed(w) < requested[running[w].job]
  \/ clock < Max({Window} \cup {release[j] : j \in Jobs})
Tick ==
  /\ pc \notin {"starting", "stopping", "ended"}
  /\ clock < MaxClock \/ Awaited
  /\ clock' = clock + 1
  /\ UNCHANGED <<input, disp, procs>>

Worker(w) == Announce(w) \/ StartJob(w) \/ FinishJob(w) \/ LeaveOrTerminate(w)
Dispatcher ==
  \/ Begin \/ Received \/ Enqueue \/ Scanned \/ Rescan \/ Dispatch \/ Settle
  \/ Wake \/ Ended
  \/ \E w \in Workers : Receive(w) \/ WorkerExited(w)

Closed == pc = "ended" /\ UNCHANGED vars
Next ==
  \/ Dispatcher \/ ProgressWake
  \/ \E w \in Workers : Worker(w) \/ Crash(w)
  \/ Tick
  \/ Closed

Spec == Init /\ [][Next]_vars

(* The operating system runs every process that can go on, and time passes.  *)
Fairness == /\ WF_vars(Dispatcher) /\ WF_vars(Tick)
            /\ \A w \in WorkerIds : WF_vars(w \in Workers /\ Worker(w))
FairSpec == Spec /\ Fairness
=============================================================================
