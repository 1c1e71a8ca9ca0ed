---------------------------- MODULE OnlineReplay ----------------------------
(***************************************************************************)
(* experiment/online_replay.py: the kernel run step for step, with every   *)
(* score computed at its job's arrival.  Completions also enter sorted     *)
(* lists per segment; an arrival whose state differs from the one of the   *)
(* source log pauses the loop, Python rebuilds and rescores the job, and   *)
(* the loop resumes at the same instant.                                   *)
(*                                                                         *)
(* Kernel's variable score is the array the code pushes heap keys from: it *)
(* is written for a job only before that job's admission.                  *)
(***************************************************************************)
EXTENDS KernelProperties, OutcomeHistory

CONSTANT Timeouts  \* timeouts explored besides none; each replaces a wrapper

NoTimeout == -1
Nobody == -1

ASSUME TimeoutAssumption == Timeouts \subseteq Nat

VARIABLES
  theta,    \* timeout_s, or NoTimeout
  lists,    \* per history and segment: completed jobs, in release order
  decided,  \* 0 undecided, 1 keeps its original score, 2 rescored
  pending   \* X_PENDING: the arrival the loop is paused at, or Nobody

onlineVars == <<vars, avail, theta, lists, decided, pending>>
replayOnly == <<avail, theta>>

Release == [o \in Rank |-> Done(o)]

---------------------------------------------------------------------------
\* _append: from the end, past every job released later, or then but in a later row.
\* ListsInReadOrder: ties keep the order of completion.
Bug_AfterJob(o, job) == Release[o] > Release[job]
AfterJob(o, job) ==
  \/ Release[o] > Release[job]
  \/ Release[o] = Release[job] /\ JobRow(o) > JobRow(job)
Insert(s, job) ==
  LET kept == CHOOSE p \in 0 .. Len(s) :
                /\ \A q \in p + 1 .. Len(s) : AfterJob(s[q], job)
                /\ p > 0 => ~AfterJob(s[p], job)
  IN  SubSeq(s, 1, kept) \o <<job>> \o SubSeq(s, kept + 1, Len(s))

\* _complete
Complete(c) ==
  /\ pending = Nobody
  /\ ApplyCompletion(c)
  /\ lists' = [h \in Histories |->
                 [lists[h] EXCEPT ![SegmentOf(h, c)] = Insert(@, c)]]
  /\ UNCHANGED <<replayOnly, decided, pending>>

\* _state_part: the newer of the last external record read and the last completed
\* job, until the window is full or both are used up.
\* PausesOnlyForChangedState: the external record wins every tie.
Bug_ExternalFirst(x, o) == x.at >= Release[o]
ExternalFirst(x, o) ==
  \/ x.at > Release[o]
  \/ x.at = Release[o] /\ (x.zero \/ x.row > JobRow(o))
MergedWindow(ext, done, nExt) ==
  LET take[left \in (0 .. nExt) \X (0 .. Len(done)) \X (0 .. Window)] ==
        LET e == left[1]  o == left[2]  room == left[3] IN
        IF room = 0 \/ (e = 0 /\ o = 0) THEN {}
        ELSE IF e > 0 /\ (o = 0 \/ ExternalFirst(ext[e], done[o]))
               THEN {ext[e].row} \cup take[<<e - 1, o, room - 1>>]
               ELSE {JobRow(done[o])} \cup take[<<e, o - 1, room - 1>>]
  IN  take[<<nExt, Len(done), Window>>]

StatePart(h, i) ==
  LET id   == SegmentOf(h, i)
      done == lists[h][id]
  IN  [own    |-> {JobRow(done[p]) : p \in DOMAIN done},
       recent |-> MergedWindow(External[h][id], done,
                               VisibleExternals(h, id, a_us[i]))]

State(i) == [h \in Histories |-> StatePart(h, i)]

\* _needs_score
\* ScoresAreOnline: only the visible sets are compared, not the windows.
Bug_NeedsScore(i) ==
  \E h \in Histories : State(i)[h].own # OriginalState(i)[h].own
NeedsScore(i) == State(i) # OriginalState(i)

AtArrival == Running /\ pending = Nobody /\ ~CompletionDue /\ ArrivalDue

\* _admit returns 1: the loop leaves with the job pending.
Pause ==
  /\ AtArrival
  /\ decided[next] = 0 /\ NeedsScore(next)
  /\ pending' = next
  /\ UNCHANGED <<vars, replayOnly, lists, decided>>

\* The jobs either list of the paused job holds.
CompletedFor(i) ==
  UNION {LET done == lists[h][SegmentOf(h, i)] IN {done[p] : p \in DOMAIN done} :
           h \in Histories}

\* EveryJobStarts: the flag is not set, so the resumed loop pauses again.
Bug_Resolve(i) == decided' = decided
Resolve(i) == decided' = [decided EXCEPT ![i] = 2]

\* replay_online between two calls of _resume.
Rescore ==
  /\ pending # Nobody
  /\ score' = [score EXCEPT ![pending] =
                 Predict(pending, Rebuilt(pending, CompletedFor(pending), Release))]
  /\ Resolve(pending)
  /\ pending' = Nobody
  /\ UNCHANGED <<a_us, s_us, pol, t, next, run, served, queueVars, workVars, countVars,
                 windowVars, resultVars, replayOnly, lists>>

\* The rest of _admit: the job passes with the score the array holds.
Scored == decided[next] # 0 \/ ~NeedsScore(next)
Decide == decided' = IF decided[next] = 0 THEN [decided EXCEPT ![next] = 1] ELSE decided

Admit ==
  /\ AtArrival /\ Scored
  /\ AdmitArrival
  /\ Decide
  /\ UNCHANGED <<replayOnly, lists, pending>>

\* A window error returns the value that also means "not paused"; S_ERR ends the loop.
Overflow ==
  /\ AtArrival /\ Scored
  /\ WindowOverflow
  /\ Decide
  /\ UNCHANGED <<replayOnly, lists, pending>>

---------------------------------------------------------------------------
\* _choose_online.  The timeout mode keeps a fifo and a heap and no account; Kernel
\* runs it as the score mode with a live fifo index.
\* RefinesOnlineRule: the head is served one instant late.
Bug_HeadTimedOut == t - a_us[FifoHead] > theta
HeadTimedOut == t - a_us[FifoHead] >= theta

DispatchTimeout(j) ==
  /\ DispatchEpoch
  /\ \/ HeadTimedOut /\ j = FifoHead /\ Dispatch(j, TRUE) /\ UNCHANGED heap
     \/ ~HeadTimedOut /\ IsBaseChoice(j) /\ Dispatch(j, FALSE) /\ heap' = heap \ Popped(j)
  /\ fifoHead' = FifoHead
  /\ UNCHANGED leaf

ChooseOnline(j) ==
  IF theta = NoTimeout THEN DispatchForced(j) \/ DispatchBase(j) ELSE DispatchTimeout(j)

DispatchOnline ==
  /\ pending = Nobody
  /\ \E j \in Rank : ChooseOnline(j)
  /\ UNCHANGED <<replayOnly, lists, decided, pending>>

Advance ==
  /\ pending = Nobody
  /\ AdvanceClock
  /\ UNCHANGED <<replayOnly, lists, decided, pending>>

Ended == pending = Nobody /\ ~Running /\ UNCHANGED onlineVars

---------------------------------------------------------------------------
\* replay_online refuses FCFS, which reads no score.
OnlineInit ==
  /\ TraceOK /\ pol.mode # "fcfs"
  /\ theta \in {NoTimeout} \cup (IF pol.mode = "score" THEN Timeouts ELSE {})
  /\ avail \in Logs
  /\ score = Baseline
  /\ Idle
  /\ lists = [h \in Histories |-> [id \in SegmentIds(h) |-> <<>>]]
  /\ decided = [i \in Rank |-> 0]
  /\ pending = Nobody

OnlineNext ==
  \/ \E c \in Rank : Complete(c)
  \/ Pause \/ Rescore \/ Admit \/ Overflow
  \/ DispatchOnline
  \/ Advance
  \/ Ended

OnlineSpec == OnlineInit /\ [][OnlineNext]_onlineVars

\* One sequential program: it goes on until it ends.
OnlineFairSpec == OnlineSpec /\ WF_onlineVars(OnlineNext)

---------------------------------------------------------------------------
\* Each list holds exactly the finished jobs of its segment, in the order the sweep
\* absorbs records, although jobs finish together and the heap pops ties as it likes.
ListsInReadOrder ==
  \A h \in Histories : \A id \in SegmentIds(h) :
    LET s == lists[h][id] IN
    /\ {s[p] : p \in DOMAIN s} = {o \in served \ run : SegmentOf(h, o) = id}
    /\ \A p, q \in DOMAIN s :
         p < q => Newer(OwnRecord(s[q], Release), OwnRecord(s[p], Release))

\* audit_online: recomputed from the schedule alone, by the outcomes that finished by
\* its arrival, every admitted job's score is the one it was queued with -- rescored
\* or not, whatever finished since, and however its window was merged.
ScoresAreOnline ==
  \A i \in 0 .. next - 1 : score[i] = Predict(i, OnlineState(i, served, Release))

\* The backward merge of list and records reads exactly what a rebuild from scratch
\* reads: the loop is left only for a job whose state the replay really changed.
PausesOnlyForChangedState ==
  pending # Nobody => OnlineState(pending, served, Release) # OriginalState(pending)

OnlineRuleSpec == INSTANCE OnlineRule WITH
  waiting <- Waiting,
  running <- run,
  order   <- ndisp,
  over    <- [q \in Waiting |-> completedWork - fenWork[q]],
  passes  <- [q \in Waiting |-> dispatchedRanks - fenCount[q]],
  ahead   <- [q \in Waiting |-> ahead[q]]

\* The replay with pauses is a run of the rule with scores settled on arrival.
RefinesOnlineRule == OnlineRuleSpec!OnlineSpec
=============================================================================
