# A TLA+ model of spjf-guard

spjf-guard is a simulator of `k` identical, non-preemptive servers in front of
which a *guard* bounds how much work may overtake a waiting job, together with
the pipeline that evaluates it: readers, features, a predictor, an online
replay, a sealed-data ledger and a physical service. The scheduler and its
data structures (`src/spjf_guard/sim/`) carry the claims of the whole
repository, so they are modelled first, checked with TLC and proved with TLAPS.

## 1. Inventory

Paths are relative to the repository. `pkg` stands for `src/spjf_guard`.

| Component | State it keeps | Operations | Interacts through |
|---|---|---|---|
| Scheduling kernel, `pkg/sim/kernel.py` | clock, run heap, score heap, fifo, served flags, charged work, window of waiting ranks, counters | apply completions, admit arrivals, slide the window, choose, dispatch, advance the clock | called once per run by `runner.simulate`; its helpers are reused by the online replay |
| Kernel data structures, same file | segment tree `tre`/`lz`, Fenwick arrays, two binary heaps | set, suffix add, leftmost; add, prefix; push, pop | arrays shared with the loop |
| Reference scheduler, `pkg/sim/reference.py` | lists of waiting and running jobs, per-job accounts | `brute_guard`, `lindley`, `kiefer_wolfowitz`, `CostOracle` | compared with the kernel in tests |
| Per-job bounds, `pkg/sim/bounds.py` | none | In/Out sweep, identity, guard and skip bounds | reads finished schedules |
| Traces and policies, `pkg/sim/runner.py`, `policy.py` | immutable inputs | validation, mode selection, promise to budget | hands the parameters to the kernel |
| Tightness families, `pkg/sim/tightness.py` | none | adversarial traces | inputs |
| Online replay, `pkg/experiment/online_replay.py` | kernel state, completed lists in release order, decided flags | complete, pause at an arrival, rescore, resume | kernel helpers, recomputer, model |
| Online fixed point, `pkg/experiment/online.py` | schedule and scores of the last round | rescore, replay until nothing changes, audit | `runner.simulate` |
| Consistent refinement, `pkg/experiment/consistent.py` | covered set, schedule, violations | replay, find violations, rescore | `runner.simulate` |
| Sealed data, `pkg/data/sealed.py`, `scripts/freeze_protocol.py` | lock file, access ledger | decide, guard, record, freeze | every reader and runner of sealed data |
| Checkpoints, `scripts/run_online_cluster_bootstrap.py`, `consistent_cells.py`, `run_accoding_heldout.py` | files on disk | write, load, reuse, resume | restarted processes |
| Workers, `pkg/experiment/parallel.py` | pool of processes | submit, collect in order | selection and replay |
| Causal features, `pkg/features/` | running histories per key | merged sweep of arrivals and outcomes, recompute one row | predictor, online replay |
| Physical service, `evidence/weakness1_attack/physical_service.py` | queue, in-flight jobs, event log, checkpoint | enqueue, dispatch, receive, time out, stop | two worker processes over pipes |
| Kernel variants, `evidence/*/..._kernel.py`, `prechecks/timeout_rule/` | the kernel's state and a little more | abandonment, closed loop, late reports, backfilling, timeout | studies |
| Predictor, readers, metrics, tables, overlays, selection, Lean proofs | tables and numbers | pure computations | files |

What is hard, by component, and what makes it correct:

- **Kernel.** One sequential loop, but over structures that are kept lazily: a
  served job stays in the score heap and in the fifo, a leaf of the window is
  trusted to be empty when the queue empties, the window slides in the middle
  of an admission, lazy tags are never pushed down, the cap is tested on the
  head only. Each of these can go wrong in one event and show many events
  later. Jobs complete in every order across servers, so what has been charged
  when a job is chosen depends on the interleaving. Correct means: the
  schedule is the one the rule defines, true costs are read only at
  completion, no server idles while a job waits, every job starts, and every
  job's wait obeys the published bounds.
- **Online replay and fixed point.** The score of a job depends on what had
  completed when it arrived, which depends on earlier scores. Correct means
  that each score is computed once, from exactly the completed outcomes; that
  pausing changes no event of the kernel; and that pause/resume and fixed
  point reach the same schedule.
- **Consistent refinement.** Corrections change schedules and thereby what
  other jobs see. Correct means termination without violations and a
  certificate that is checked against the final schedule.
- **Sealed data, freeze and checkpoints.** Several files are written one after
  another, processes stop in between and restart, and two processes may share
  a file. Correct means that no sealed byte is read without a row in the ledger, and
  that nothing is reused that another configuration produced.
- **Physical service.** Messages of two workers, arrivals on a real clock and
  timeouts interleave. Correct means that its event log is a run of the rule,
  with late charges.

`PROJECT.json` lists each hazard at its line.

## 2. Plan

| Order | Modules | Abstract specification | Status |
|---|---|---|---|
| 1 | `Workload`, `GuardRule`, `Kernel`, `KernelProperties`, `MCKernel` | `GuardRule` (from `reference.py`) | done |
| 2 | `ReferenceFcfs`, `PerJobBounds` | definitions of `bounds.py`, recursions of `reference.py` | done |
| 3 | `RankMaps`, `SegTree`, `FenwickTree`, `Fenwick`, `BinaryHeap`, `MCStructures`, `StructureProofs` | `WindowMap`, `PrefixSums`, `EntryQueue` | done |
| 4 | `KernelProofs` | inductive invariant, refinement | done |
| 5 | `OutcomeHistory`, `OnlineReplay` | `OnlineRule`: scores are a function of the completed outcomes | done |
| 6 | `ReplayPasses`, `OnlineFixedPoint`, `ConsistentScores` | the definitions of an online and of a consistent score | done |
| 7 | `SealedLedger`; `Manifest`, `ResumedRun`, `ResumedRunProofs`, `ResampledRun`; `CommandProofs` | rows of what was read; a verified directory is one run | done |
| 8 | `PhysicalService`, `PhysicalProperties` | the audit and the certificates, over the event log | done |
| 9 | `WorkOfJobs`, `WorkTheorems`; `OvertakingWorkBounded` in `KernelProofs` | | done |
| 10 | `ReplayProofs`: the passes and the online replay | what `OnlineReplay` and `OnlineRule` state | done |
| 11 | `PhysicalProofs` | the audit | done |
| 12 | `ScheduleTheorems`: the bounds against FCFS, in `KernelProofs` and `PhysicalProofs` | the recursions of `reference.py` | done |
| 13 | kernel variants: abandonment, closed loop, late reports, backfilling | `GuardRule` with a change to one action each | next |
| 14 | `PolicyArithmetic`: promise to budget, rounding, fractions | exact inversion over integers | next |

## 3. Modules

| Modules, in the order they extend each other | Built on | Shown to implement |
|---|---|---|
| `Kernel` | `Workload`, `RankMaps` | `GuardRule` (in `KernelProperties`) |
| `WorkOfJobs`, then `WorkTheorems` | none; the theorems on `RankMaps` and `FenwickTree` | |
| `ReferenceFcfs`, `ScheduleTheorems` | none; the theorems on `WorkTheorems` | |
| `KernelProperties` | `Kernel`, `WorkOfJobs` | |
| `PerJobBounds`, then each of `KernelProofs`, `MCKernel` | `KernelProperties`, `FenwickTree`, an instance of `ReferenceFcfs`; the proofs on `WorkTheorems` and an instance of `ScheduleTheorems` | |
| `SegTree` | none | `WindowMap` |
| `FenwickTree`, `Fenwick` | none | `PrefixSums` |
| `BinaryHeap` | none | `EntryQueue` |
| `MCStructures` | `SegTree`, `Fenwick`, two instances of `BinaryHeap` | |
| `StructureProofs` | `SegTree`, `Fenwick`, `BinaryHeap`, `WorkTheorems` | |
| `OnlineReplay`, `MCOnlineReplay` | `KernelProperties`, `OutcomeHistory` | `OnlineRule`, an extension of `GuardRule` |
| `ReplayPasses` | `Kernel`, `OutcomeHistory` | |
| `OnlineFixedPoint` and `ConsistentScores`, then `MCReplayPasses` | `ReplayPasses` | |
| `ReplayProofs` | `KernelProofs`, `OnlineFixedPoint`, `ConsistentScores`, `OnlineReplay` | |
| `SealedLedger`, then `MCSealedLedger` | none | |
| `ResumedRun`, then each of `ResumedRunProofs`, `MCResumedRun` | `Manifest` | |
| `ResampledRun`, then `MCResampledRun` | `Manifest` | |
| `CommandProofs` | `SealedLedger`, `ResampledRun` | |
| `PhysicalService`, `PhysicalProperties`, then each of `PhysicalProofs`, `MCPhysicalService` | `WorkOfJobs`, an instance of `ReferenceFcfs`; the proofs on `WorkTheorems` and an instance of `ScheduleTheorems` | |

### The scheduler

**Workload** holds a run's inputs: arrival, service and score of each rank, and
the policy. They are variables chosen in the initial state and never changed,
so that one TLC run explores every trace and policy of its size. `InputsOK` is
what `Trace.__post_init__` accepts, `ValidPolicy` what `Policy.__post_init__`
does. A score is an integer: the code only compares scores. Time is integer,
as in the code.

**GuardRule** is the rule as `reference.py` states it: a set of waiting jobs,
each with its own account of overtaken work and passes, and one definition,
`Chosen`, of the next job. It has no heaps, windows or prefix sums. It covers
the queue-length part of the budget, which `brute_guard` lacks and the
kernel's header defines. `brute_guard` steps from dispatch to dispatch;
`GuardRule` gives each completion and each arrival a step of its own, at the
instants at which something can happen.

**Kernel** is the loop. Its steps and the code:

| Action | Code |
|---|---|
| `ApplyCompletion(c)` | one iteration of `_apply_completions` |
| `AdmitArrival` | one iteration of `_admit_arrivals`, with `_rebuild_window` when the window must slide |
| `WindowOverflow` | `_rebuild_window` gives up and the loop breaks |
| `DispatchHead`, `DispatchForced`, `DispatchBase` | `_choose` (FCFS, overridden, base) followed by `_dispatch` |
| `AdvanceClock` | `_next_instant` |
| `Finished` | the loop has ended |

Guards reproduce the order of the loop: completions of the instant, arrivals,
one dispatch at a time, then the clock. Variables are the code's `S_*` slots
and arrays, with three abstractions that are checked and proved: a heap is the
set of its entries (`BinaryHeap`), a Fenwick tree is what `_fen_pref` returns
for every rank (`Fenwick`), the segment tree is the map from the positions
that do not hold `NEG` to their values (`SegTree`). The fifo needs no contents:
ranks are appended in rank order. `S_NSTARTED` equals `S_NDISP` and is not kept
twice. `ahead` is a history variable: the queue length that the code folds into
`zs`. Which of two jobs ending at the same instant leaves the run heap first
is left open.

**SegTree**, **Fenwick**/**FenwickTree**, **BinaryHeap** are the arrays of
`kernel.py`, index arithmetic included, and **WindowMap**, **PrefixSums**,
**EntryQueue** what the loop relies on. The first three are shown to refine
the last three. A `while` loop over indices that are halved or doubled is a recursive
function of the variables it carries from one pass to the next. **RankMaps** names the
four operations on maps that `Kernel`
and the abstract specifications share.

**ReferenceFcfs** is first come first served by the two recursions of `reference.py`, for
any arrivals and service times. `PerJobBounds` instantiates it with a trace, and
`PhysicalProperties` with what a finished run measured.

**PerJobBounds** states what `bounds.py` evaluates on finished schedules:
waits against the FCFS waits of the two recursions, the sweep against its
quadratic definition, the identity and the bounds multiplied out so that
every comparison is between integers.

**WorkOfJobs** is the sum of the costs of a set of jobs, for which the code
has numpy sums and running totals. A job of cost c stands for c units, and the
sum is the number of units.

**MCStructures** puts the four structures beside each other. They share no
state, so `exercised` names the one a behaviour moves.

### Online scores

**OutcomeHistory** says which outcomes a predictor reads for a job: the
records of other classes by their release in the source log, those of the
job's own copy by their completion in the replay, in the order the feature
sweep absorbs them, and the newest of them as the rolling window. `Rebuilt` is
`recompute_visible`; `OriginalState` and `OnlineState` are the two states the
code compares. The frozen model is the constant `Predict`. The code compares
64-bit signatures of states; equal signatures are taken for equal states.

**OnlineReplay** is `online_replay.py`: the kernel's own actions with the
completed lists, the pause and the head-of-line timeout around them.

| Action | Code |
|---|---|
| `Complete(c)` | `_complete`: the kernel's completion, then `_append` into both lists |
| `Pause` | `_admit` returns 1 with the arrival pending, `_resume` returns to Python |
| `Rescore` | `replay_online` between two calls of `_resume` |
| `Admit`, `Overflow` | the rest of `_admit`, with and without a window error |
| `DispatchOnline` | `_choose_online` and `_dispatch`, wrapper or timeout |
| `Advance`, `Ended` | `_next_instant`; the loop has ended |

**OnlineRule** is its abstract specification: `GuardRule`, where `Settle` gives
the next arrival the score of what is completed and only then `ArriveScored`
admits it. It has no lists, signatures or pauses.

**ReplayPasses** holds what the two iterations over whole replays share: a
pass runs `Kernel` to its end, then `Simulate` starts it again with new scores.
**OnlineFixedPoint** (`refine_policy_online`) has `Correct`, `Recheck`, `Stop`
and `GiveUp` for the four ways a pass ends: mismatches beyond the frontier, none
beyond it, none at all, budget spent (`Returned` once it has). **ConsistentScores** (`refine_policy`)
has `Withhold` and `Finish`; the count by prefix sums, the list from a time
window and the assertions that compare them are `Premature`, `Listed` and
`CheckFails`. `MCReplayPasses` chooses one of the two at the start
(`procedure`).

### Sealed data

**SealedLedger** has any number of commands, each a process of its own, that
share the lock file and the ledger file.

| Action | Code |
|---|---|
| `Enter`, `GuardInBlock` | `guard_semesters` before the recorded block, and in `load_prepared` inside it |
| `OpenData`, `LoadAgain` | one reading of the data, and the next one of a run that loads several times (`fit_scores.run_once`) |
| `LeaveBlock` | the block under `recording` ends by itself or by an exception anywhere, before its guard and its first reading too |
| `ReadLedger`, `Truncate`, `WriteBack` | `record_access`: read the text, open for writing, write and close |
| `AllRecorded` | the block, or `write_ledger_rows`, is left |
| `StartFreeze`, `HashFile`, `Decide` | `main` and `hash_sealed_inputs` of `freeze_protocol.py` |
| `TruncateLock`, `WriteLock` | `write_text` of the lock |
| `KillCommand`, `Archive` | a process dies; a person puts the lock aside to freeze again |

An invocation says what distinguishes the entry points: whether the guard before the block
is given a sealed term (`names`), whether the block opens one (`reads`), whether the row
would name it (`listed`), whether the block guards each reading (`guarded`) and whether it
may load again (`again`). `Outcomes` are the two texts a row can carry, that of a run cut
short and that of one that produced something.

`pc` is the place of a command, `todo` the rows it has still to append, `text`
the ledger it has read and will write back. `opened`, `frozen`, `overlapped`
and `torn` are history variables.

### Runs that are killed and resumed

**Manifest** is `provenance.build` and `verify`: what a directory is recorded to
have come from, and when nothing contradicts that. `verify` compares the tables and the
listed files, the configuration among them. It does not compare code, and a listed file that is missing, then or
now, is not compared (`Agree`).

**ResumedRun** is `run_consistent_visibility.py` with `consistent_cells.py`:
two workers take the cells in order, a finished item leaves a checkpoint and
some leave a delta file that the checkpoint hashes, the parent checks the
deltas, writes the tables and then the manifest. `TakeCheckpoint` is a load
that succeeds; `SaveDelta` and `WriteCheckpoint` are the two writes of an item
that is computed, and a kill may come between them. `Kill` may tear what is
written in place (deltas, tables, the manifest) but not a checkpoint, which is
renamed into place. `Edit` changes the inputs between runs. Everything a run's results
depend on, its code included, is one version; `run_signature` covers all of it and a result is
the version it was computed from. `Listed` gives the contents of the files of a version that a manifest lists, so that
versions may differ in code only.

**ResampledRun** is the class-term bootstrap of
`run_online_cluster_bootstrap.py` (a file per overlay and per resample) and of
`run_cluster_bootstrap.py` (one per resample), chosen by `keepsParts`. Files are
trusted by their name; only resample -1 is compared with the development cells, in the one
column `p99_dl_s` (`Identity`, `Reproduces`). The cells come from another script:
`ReplaceCells` puts those of the inputs on disk in their place, or none, and nothing makes anyone do so after an
`Edit`. In `run_cluster_bootstrap.py` a summary may fail after its first table is
written (`Summarise`).

### The physical service

**PhysicalService** is `run_physical_policy` with its worker processes and their
pipes. The dispatcher is sequential (`pc`): it waits, receives what the wait
returned, enqueues due jobs, and gives a job to each idle worker
(`Settle` when nothing can be given). `StartJob` and `FinishJob` are a worker's
side: it sleeps at least the requested time and reports how long it held the
job. `Tick` lets time pass between any two steps of any process. `Crash` ends a
worker, `LeaveOrTerminate` and `Ended` are `stop_workers`. `log` is the event
file. `ProgressWake` is the ten-second report. `config` is chosen once: the number of
jobs and workers and the sets that releases, requests and scores come from.

**PhysicalProperties** is the audit, which reads the event file alone:
`Queue`, `InHand`, `Charged` and `Expected` are what a part of the file from its
start amounts to, and `EnqueueOK`, `DispatchOK`, `CompletionOK` what its next event
then has to be. It also has what `check_stall_bound.py` certifies: `In`, the work of the
jobs that passed a job, with `OvertakingCapped`, and `IdleCapacity`, what the workers could
have done while they stood idle and a job waited, with the bound against FCFS.
Requested times are positive, as `Trace` demands of them (`runner.py:51-52`).

A definition named `Bug_X` is a mutated form of `X`, used by nothing. It
records a slip that the property named beside it must notice.

## 4. Runs

All runs are exhaustive. "Every trace" means every non-decreasing sequence of
arrivals up to the bound, with every service time and score of the listed sets.

| Run | Instance | What it shows |
|---|---|---|
| `kernel` | 4 jobs, 2 servers, arrivals 0..2, services {1,3}; every mode and six budget shapes | the schedule is the rule's, at a constant budget the head decides, FCFS agrees with `kiefer_wolfowitz`, the sweep with its definition, and every job starts |
| `kernel_window` | 5 jobs, 2 servers, a window of 3 ranks | the inductive invariant through slides; a run is given up only when its ranks do not fit |
| `kernel_bounds` | 7 jobs at once, 2 servers | overtaking work and the two guard bounds |
| `kernel_single` | 4 jobs, 1 server, arrivals 0..3, six policies | the identity, exact on one server, and the skip bound |
| `structures` | 4 leaves; 7 ranks; a score heap of 7; a run heap of 4 | lazy tags, prefix walks and heaps implement what `Kernel` uses in their place |
| `online_replay` | 4 jobs, 2 servers, arrivals 0..3, window of 3 ranks, rolling window of 2, every log, timeouts 1 and 2 | lists in read order, online scores, pauses only for changed states, refinement of `OnlineRule`, every job starts |
| `replay_passes` | 5 jobs, 1 server, arrivals 0..2, budgets of 3 and 7 passes | the frontier misses nobody, count and list agree, both iterations end in what they promise |
| `ledger` | 3 commands, each any of nine invocations, 2 files, 1 kill, 1 archived lock | nothing is read before a freeze; rows claim nothing that was not read, are there when a command is over (with the exceptions named below), and precede the lock |
| `resumed_run` | 2 workers, 2 cells of 2 items, 2 tables, 4 versions, 3 runs, 2 edits, kills anywhere | what is handed on is fresh, a verified directory is one whole run's whose listed files agree with those on disk, finished work is kept, runs end |
| `resampled_run` | 2 workers, 2 resamples and -1, 2 overlays, 4 versions, 3 runs, 2 edits, cells replaced at will | saved rows are kept; the identity rows of a verified summary show the column of the cells on disk |
| `physical` | 2 workers and a crash; 1 worker and 4 jobs; 1 worker idle before the window ends | the log passes the audit, overtaking is capped, waits obey the stall-corrected bounds, the service ends |
| `ledger_rows` | 3 commands, a violation | see the finding below |

Why the bounds are enough:

- *Jobs and servers.* With two servers a job can be overtaken by one job that
  has completed and one in flight, which is where the in-flight part of the
  bounds comes from. Four jobs give a forced dispatch with a stale heap entry
  behind it and a further decision after it. Five jobs and a window of three
  give a slide over served ranks, and an overflow. The guard bounds allow
  (3K-2)L beyond the promise, and seven jobs are needed before a guard that
  never fires exceeds that on two servers; the mutants of `kernel_bounds`
  confirm that the instance reaches that far.
- *Service times.* {1,3} with limit 3 makes completions leapfrog arrivals and
  each other, and lets budgets be met exactly, which is where a strict
  comparison would differ.
- *Policies.* Zero, constant, relative and queue-length budgets, with a cap, without
  one, and with a cap that clips the constant part or alone decides.
- *Structures.* Four leaves give a root, two internal nodes and tags at two
  levels. `MaxDrift` bounds the work charged and so the tags; `TreeNEG` is
  below every value reachable under it, as -2^62 is in the code. Seven ranks are
  not a power of two, so Fenwick walks leave the array from different levels.
- *Histories.* Four jobs, a rolling window of two and records of another class
  at the same instants as completions make every tie of the merge decide a
  state. Jobs cut at the limit are logged at up to two instants past it
  (`OverCap`), so that the log's order of outcomes differs from the replay's.
  The timeouts are reached before and after a head that has waited exactly
  that long. `replay_passes` leaves out the cut (`OverCap` = {0}) and one server:
  the chain of corrections, each moving the next job, is what needs five jobs,
  and a correction of a corrected job what needs two exercises and two users.
  Three passes are too few for some traces and seven enough for all, so both
  ways to end happen.
- *One server.* `kernel_single` has one server, where the identity is exact and the skip bound tight.
  How completions on several servers change them is left to the theorems `IdentityHolds` and
  `SkipBoundHolds`. Likewise `kernel` has two servers, so that the conjunct about `lindley` has no
  instance there; `FcfsIsTheRecursions` proves it.
- *The longest wait.* In `replay_passes` no outcome is released at exactly the edge of the
  window that `_new_violations` searches; `ChecksNeverFail` covers it.
- *Ledger.* Three commands are a freeze and two runs whose rewrites overlap, two
  freezes and a run between them, or three runs. One kill falls into every gap
  between two writes. The runs are one on sealed terms with `--unseal` and one without, one on
  development terms, both kinds of fit, which load for one variant after the other, and an evaluation that reads a sealed
  term its row does not list.
- *Resumed runs.* Of the four versions two differ in their code only, one in a listed
  file, and one has lost a listed file. Two edits bring the first version back after
  another one has run. The second item of a cell has a delta, so a delta of one run can
  be under a checkpoint of another. Three runs are an interrupted run, one
  with other inputs, and one that resumes.
- *Bootstraps.* Of the four versions two differ in the configuration and agree in
  `p99_dl_s`, one has other code and another column, and one has lost its scores. Cells may be
  older than the inputs, of another version with the same column, or missing.
- *Physical service.* One worker and four jobs are enough for the guard to fire
  after a stall; a guard that fires one job too late is then beyond the bound. Two
  workers make completions arrive out of order and a crash meet a message still
  in the pipe; with two and three jobs the bounds on overtaking and waiting cannot be exceeded, and the one worker tests them. The window that ends after the last job is the case in which only the
  dispatcher's own timeout wakes it. `MaxClock` bounds how long the clock runs
  on when nobody waits for it: the stalls.

Symmetry is used in `ledger` (commands, files) and `resampled_run` (workers), which check no liveness.

Deadlock is checked everywhere but in `structures`, where every rank is charged
or pushed once and the exercise simply ends. Programs that end have an action
for having ended (`Finished`, `Returned`, `Ended`, `Over`, `Quiet`, `Stopped`, `Closed`).

Fairness. The kernel, the online replay and the passes are one sequential
program with nothing to wait for: weak fairness of its next step. In
`ResumedRun` each worker and the parent are processes that the operating system
runs when they can go on (`WF` of `Work(w)` and of `Finish`); nothing says that
a process is killed, an input edited or a run started. In `PhysicalService` the
dispatcher, each worker and the clock go on; a crash and the ten-second progress
wake-up are not fair, so `RunEnds` shows that no run needs that wake-up.
`SealedLedger` and `ResampledRun` have no liveness property.

**Finding.** `ledger_rows` takes `record_access`'s docstring, "Every call adds a
row; none rewrites one" (`src/src/spjf_guard/data/sealed.py:278`), at its word
for commands that run side by side. The function reads the whole text and
writes it back (`sealed.py:289`) without a lock on the file, so of two commands
that end together the later write takes away the other's row, and a command
killed between the truncation and the write takes away all of them. TLC's trace is the first of the
two. `RecordedWhenOver` and `LockImpliesRows` therefore except the histories in which that
happened (`LedgerIntact`).

Met while modelling, without a run of its own:

- The manifest hashes configuration and inputs when the run ends
  (`provenance.py:83`), so an input changed during a run is recorded as what
  the tables came from. `ResumedRun` and `ResampledRun` change inputs between
  runs only.
- `recording` leaves no row for a `SealedDataError`, with the comment that the guard raises it
  "before anything is opened" (`sealed.py:359`). `fit_scores.py` guards once for every
  visibility variant (`run_once`, 112-122, through `load_prepared`, 55) and all over again with `--repeat` (150). A lock that is
  put aside, or not whole, between two of them ends a run that has read sealed data without a row, which
  the docstring (`sealed.py:343-349`) calls the one state the ledger exists to make impossible.
  `RecordedWhenOver` leaves these runs out, and those killed, for which
  `docs/sealed_run_procedure.md:357` asks for a row by hand.
- `recording` begins before that guard. With `--unseal` on a development pool and no lock, an
  interrupt before `fit_scores.py:55` leaves a row for sealed terms that nobody has read or
  could have read. `RowsAreTrue` allows this for rows that say "interrupted" and for runs whose guard before the block had no sealed
  term to check. With `--repeat`, an error in the second pass leaves the text of the first, which is
  what was produced.
- `record_run` is for "a run that actually read sealed terms" (`sealed.py:304`), but with
  `--unseal` on a development pool `load_prepared` reads the sealed cache as well, and only
  `fit_scores.py` lists it (`terms_read`, 125). The row of `eval_scores.py:259`,
  `run_visibility.py:421`, `run_consistent_visibility.py:1414`, `run_online_visibility.py:728` and
  `run_online_cluster_bootstrap.py:356` is about the terms of the pool, so there is none. These are the invocations that are
  not `listed`. What remains true of them is `NothingReadBeforeFreeze`.
- `verify` compares neither the code nor a file that is missing (`provenance.py:143`). After a change of
  code an old directory verifies although a new run would write other tables. `VerifiedTablesFollow` therefore
  says that the tables are those of one whole run from listed files that agree, not that a run today would write them.
- Both bootstraps take a resample whose file exists, whatever it came from
  (`run_online_cluster_bootstrap.py:227`, `run_cluster_bootstrap.py:107`), and compare one column of resample -1 with cells that nobody
  is made to produce again. When a configuration is edited and neither the cells nor resample -1 are
  produced again, the old rows equal the old cells, and the new manifest verifies.
  `CellsReproduced` says what the check does come to: rows and cells agree in that column, both
  perhaps older than the inputs. The other resamples may be older than either.
- `freeze_protocol.py:235` without `--yes` hashes the sealed files and ends
  without rows. The ledger's properties are about freezes with `--yes`.

## 5. Proofs

Everything below holds for every number of jobs and servers, every limit,
window size, set of services, scores and policies that satisfy the named
assumptions of `Workload` (`SizeAssumption`, `ArrivalAssumption`,
`ServiceAssumption`, `ScoreAssumption`, `PolicyAssumption`) and of `Kernel`
(`MslotsAssumption`). They say that there is at least one job, server and window slot, that
services lie in 1..L, and that policies are those the code accepts. The proofs about
scores add those of `OutcomeHistory`, `OnlineReplay` and `OnlineFixedPoint`: the rolling window
has a slot (`WindowAssumption`), each group's external records are sorted as the
sweep reads them (`ExternalAssumption`), and a model's answer is a score
(`ModelAssumption`; nothing else is asked of a model). Those about the physical service have
`ConfigAssumption`: at least one job and worker, requests positive, budgets
natural. `OnlineFixedPoint` also asks that pass budgets are natural
(`PassBudgetAssumption`), and the data structures have assumptions of their own, named below.

**The inductive invariant** (`KernelProofs`, `StructureInvariant`).
`WindowMirrorsQueue` is not inductive by itself. A slide recomputes a leaf from
`zs` and the work charged, so it needs the order of the accounts; an admission
into an empty queue needs the window to be really empty; choosing the head
needs the fifo index never to have passed a waiting job. `StructureInv` adds
what is missing:

- `QueuesHoldWaiting`: nobody is lost by lazy deletion, and `nwait` is the size
  of the queue. Without it a dispatch with `nwait > 0` might find no job.
- `AccountsOrderedByRank`: prefix sums grow with the rank, and a job that has
  not arrived owes nothing.
- `BudgetFixedAtArrival`: the static part of a waiting job's test is that of
  its arrival.

There is one lemma per action and under it one step per conjunct the action
can disturb. `RoomMade` is the lemma about the window: after the base is chosen
for a new rank, whether the window stayed, jumped or slid, its leaves are those of
the waiting jobs relative to the new base. `TypeCorrect`, `WindowCorrect`,
`QueuesCorrect` and `OverflowCorrect` follow.

**The refinement** (`KernelProofs`, `KernelImplementsRule`). The mapping is
`over[q] = completedWork - fenWork[q]`, as the kernel's header says, and
likewise for passes. `ScheduleFollowsClock` is proved first: a job has a start
exactly if it is served, which is needed to match the end of the loops, and
the clock never precedes an admitted arrival. Then:

- `LeafTestIsSpent`: for one waiting job, "the cap is spent or the leaf reaches
  the threshold" is the rule's `Spent`. This is where clipping the constant
  budget to the cap is shown to be harmless: a clipped leaf reaches the
  threshold only if the cap is spent as well, given that the job's age is not
  negative.
- `HeadIsChargedMost` and `FiredMemberIsChosen`: testing the cap on the head
  alone loses nothing, because accounts decrease with the rank, so that if any
  job has spent the cap the head has, and the head is the oldest fired job.
- `HeadPassedIsChosen`, `HeadIsChosen`, `BaseIsChosen`: the other three ways to choose.
- Each action maps to one action of the rule; `WindowOverflow` and `Finished`
  are stuttering steps.

`HeadDecides` is the claim of the header (`kernel.py:22-24`) that with a budget
equal for all jobs the fired set is non-empty exactly when the head is in it.

**The ledger** (`CommandProofs`), for any number of commands, files, kills and
archived locks. `LedgerInv` is the inductive invariant. None of the four
properties is inductive by itself: a row that is owed may be in `todo`, in a
text that is being written back, or in the ledger, and the ledger is empty in the
middle of every rewrite.

- `RunsReleased`: the lock is whole only if one was written (`frozen`), and a run about to
  read passed a guard that had it, before the block or inside, each time it loads. A run may be refused
  after it has read; one that loads once may not. `NothingReadBeforeFreeze` follows
  (`TermsStaySealed`).
- `FreezesHashed`: a freeze records and locks only with all files hashed.
- `RowsTrue`: rows are true on their way to the ledger, too, which gives
  `RowsAreTrue` (`LedgerTellsTruth`) although a rewrite may bring back any old text.
- `OneRewrite`: without an overlap at most one command is rewriting, and
  what it writes back contains the ledger.
- `RowsPending`, `RowsHeld`: without an overlap or a torn rewrite, a row that a command owes
  is in one of those places. `RecordedWhenOver` (`EverythingRecorded`) and
  `LockImpliesRows` (`RowsPrecedeLock`) are the instances for a command that is over and for a
  freeze that writes its lock.

There is one lemma per part and under it one step per action.

**Resumed runs** (`ResumedRunProofs`), for any number of versions, cells, items,
workers, tables, runs and edits, with `SizesAssumption`. `RunInv`:

- `OneVersion`: while a run goes on, its signature and what its workers have loaded are
  the version on disk.
- `OwnTasks`: tasks in hand are distinct and were handed out, so an item has one writer.
- `DeltasSaved`: a delta that was saved stays until its checkpoint is written.
- `CheckpointsFresh`: a checkpoint holds what a fresh run from the version it
  names computes, whoever wrote it. This is the core: it makes an old checkpoint as
  good as a computation, and it is kept because a payload is computed from the
  inputs the signature was taken from.
- `PassedAreFresh`: the parent has exactly the items the workers have passed, fresh
  and with their deltas still on disk.
- `TablesWritten`: tables are written in order from the same payloads, a manifest
  names the tables and the listed files of one version, and the phase `"failed"` is never reached.

`PayloadsAreFresh`, `VerifiedIsOneRun` and `DeltaCheckPasses` follow from it.
`WorkIsKept` is an action property: under `RunInv`, a step that writes over a delta or a
checkpoint that could be used again either writes the same (a checkpoint) or is
not taken, because the item would have been reused.

**The bootstraps** (`CommandProofs`), for any number of resamples, overlays,
workers, runs and edits. `BootstrapInv` says that a resample is in the hands of
one worker, that this worker found no file of it, and that the tables a manifest names, or is about
to, show the column of the cells it lists (`IdentityChecked`). `SavedRowsAreKept`
(`RowsAreKept`) needs the second part: without it a file could be written over by a worker
of the same run. `CellsReproduced` is `IdentityRowsHold`: a manifest that verifies lists the cells on disk, if there are any.

**Work** (`WorkTheorems`). A sum over a set is a fold, about which these provers can
show nothing. `WorkOf` is the cardinality of a set of units, and what the
other proofs need of a sum follows from facts about finite sets: the work of two disjoint sets
adds up (`WorkSplit`), one more job adds its cost (`WorkAddJob`), costs of at most L
bound it (`WorkLimit`), more jobs are no less work (`WorkGrows`). `NatMin` and
`BestExists` give the first and the best member of a set of jobs, which is how a
minimal counterexample takes the place of induction.

**Overtaking** (`KernelProofs`, `KernelInv`, in `KernelInvariant`).
`OvertakingIsBounded` states the sentence that every promise of the header rests on:
while a job waits under a capped budget, the work dispatched past it stays below
bmax + K L. By itself this is not inductive, because the test that protects it reads
accounts, not the work. `AccountsAreSums` ties the two: the prefix sums are the
work of the jobs that have completed. A job is then passed only while its account is below
the cap (`PassedJobAllows`: the job chosen is not younger than any fired one), and what is dispatched and not
charged is in flight on K servers (`InFlightWork`). `PassesAreLimited` is the same for the skip
wrapper, with no allowance, since a pass is counted at the dispatch.

**The bounds against FCFS** (`ScheduleTheorems`, then `KernelProofs`). They compare a run
with a schedule that never happened. `ScheduleTheorems` takes schedules as functions from jobs
to starting instants, on K servers (`OnServers`), some of them idle at times, and needs no
simulation between the two. `Unused` is the capacity of servers that are idle while a
job waits.

- `LeftStep`, `BusySpan`: in one instant, one unit of every executing job is done, and one
  of capacity is lost for every idle server.
- `WorkLeftCompared`: two schedules differ by at most (K - 1) L and what the first of them
  has not used in the work that the jobs before i have left at any instant up to i's
  arrival. At the first instant at which one had more, it would just have kept a server
  idle; then every job of it still unfinished was executing, and fewer than K jobs have
  at most (K - 1) L left.
- `WaitAccount`: while i waits K units are done in every instant, so K times its wait is
  what the jobs ahead of it have left at its arrival, plus the work that passes it, less
  the work it passes, less what is still running when it starts (at most (K - 1) L).
- `FcfsNeverIdle`: `kiefer_wolfowitz` makes a schedule that leaves nothing unused.
  `ServersBusy` says who holds a server that is not free yet. `WaitAgainstFcfs` and
  `DelayDespiteIdling` are the comparisons that follow, for schedules without and with
  idle capacity.
- `ScheduleInvariant`: the kernel leaves nothing unused either. `NoServerIdle` says it of
  every instant the clock has passed, `StartsInOrder` ties starts to dispatch indices, and
  `PassesAllowed` keeps what passed a job within its budget after the job has started,
  when its account is no longer looked at. For a budget that grows with age it is the charge at the
  last pass that counts, and the age only grows.
- `WaitAgainstFcfs` for the kernel's schedule is `IdentityHolds`; with `PassesAllowed`
  it gives `AdditiveBoundHolds`, `RelativeBoundHolds` and `SkipBoundHolds`. The constants are
  those of `bounds.py`.
- `InOrderIsUnique`: there is only one such schedule that starts jobs in the order of
  arrival. `FcfsIsTheRecursions` follows, since a policy that lets nobody pass
  makes one; on one server `LindleyIsFcfs` says that the two recursions agree.

**The Fenwick tree and the sweep** (`WorkTheorems`, then `KernelProofs`). Node p covers the
ranks from p - LowBit(p) up to p. `LowBitCovers` is the arithmetic: a node is covered by a
later one exactly when the next node on its walk up is. It is proved by halving both
nodes, and so the nodes `_fen_add` visits are those that cover the rank (`UpwardCovers`).
The walk of `_fen_pref` meets just one of them if the rank is in the prefix and none
otherwise: `FenwickAddsToSuffix`, for every size and every content of the array, says that
an addition is the `AddSuffix` with which `Kernel` describes it. `SweepRight` is the invariant
of the audit's walk over a finished run: the tree and the total are the sums of the work
dispatched so far, and every job behind has its two amounts. `SweepIsExact` follows, since
a finished run has dispatched each job once (`DispatchedOnce`).

**The data structures** (`StructureProofs`). The kernel is proved over a set of heap
entries, prefix sums and a map of window leaves; here the arrays are shown to be those, for
every size. A loop is a recursive function of what it carries, and `LoopExists` (with
`Terminates`: a natural number falls in each pass) gives its defining equation; what a loop
computes is then proved of a minimal counterexample.

- *Fenwick tree* (`FenwickRefinesPrefixSums`, `FenwickTotal`; `FenwickAssumption`: works are
  integers). Each step is `FenwickAddsToSuffix`. That the last prefix is the total kept
  beside the array is the invariant.
- *Heaps* (`HeapRefinesQueue`; `HeapConstants`: keys and ranks are integers, a stated
  premise because both heaps instantiate the module; the run checks the conjunction for the
  two instances, under the same name). `HeapInv`: no rank is in two slots and
  no entry is smaller than its parent. `SiftUpRule` and `SiftDownRule` follow one swap, which
  rearranges the entries (`Rearranged`) and mends the order at one place while it breaks it
  at most at the next (`UpPass`, `DownPass`). `RootIsLeast` makes the pop a smallest entry.
- *Segment tree* (`TreeRefinesWindow`, `TreeSearch`). `SizeAssumption`: the number of leaves
  stays even under halving until it is 1, which is what doubling `size` makes of it;
  `WorkAssumption`: works are natural; `NegIsBelowEveryValue`: a value less all
  the work charged in the run stays above `NEG`, which -2^62 is chosen for. `TreeInv`: the
  entry of an inner node is the larger of its children's plus its tag (`Sound`), and a
  held position has dropped by no more than the work charged (`Worthy`). `CoverMeets` is
  the combinatorial core: of a leaf of the suffix and its ancestors exactly one is in the
  cover that `_st_add_suffix` tags, of any other leaf none, shown level by level. So an
  addition changes the values of the suffix and no others (`SuffixAddKeeps`), and a store
  changes one (`StoreLeafKeeps`) although it works from the tags above its leaf. For
  the search, `RootIsHighest` says that the root's entry is the highest value, and
  `SearchAtLevel` that everything left of the node reached lies below the threshold
  and something under it does not.

**What determines a schedule** (`KernelProofs`, `ScheduleIsDetermined`). Among equal completion
times `_run_pop` may take out any entry, and the model leaves that open. `RuledBy` says of
starts and dispatch positions that each job is the one the rule picks from those waiting at
its start, given only what started before it, and that no earlier instant had both a free
server and a waiting job. `RuledInv` (in front of it `ArrivalsFound`: the queue length
stored at an arrival is that of the starts) says this of what has been dispatched so far. Two
solutions for the same scores cannot differ: at the first position in which they would, both
have the same jobs before it, hence the same free instant and the same pick (`StartsAgree`).
The lemma is stated for two score functions that agree on the arrivals before an instant, up to which
the starts then agree.

**The frontier** (`ReplayProofs`, `SettledInvariant`). `refine_policy_online` looks for mismatches beyond the
frontier only, and trusts what lies behind. `SettledJobsConsistent` states that trust; by itself it
is about a replay of which the next pass keeps nothing. `SettledInv` therefore
says that *some* schedule with the rule's property made the stored states, with scores that
are the present ones for every arrival before the frontier. When the next replay ends, it is ruled by the
present scores, and `StartsAgree` gives it the same starts before the frontier, so every
job up to it sees the same state (`FrontierHasSettled`, `SameState`). `SettledJobsStay` follows. So does
`EnoughPasses`: mismatches lie strictly beyond the frontier, so every correction moves it
to another arrival instant, and a budget of as many passes as there are instants and two is enough. With
it, that the iteration ends in a fixed point needs only that each pass ends.

**The passes** (`ReplayProofs`). A pass is a run of the kernel, so `KernelInv` holds in
every pass (`FixedPointInvariant`, `ConsistentInvariant`).

- `ChecksNeverFail`: the three keys of the prefix count give, by inclusion and
  exclusion, the number of outcomes that either history read too early
  (`PrematureIsCount`), and the window from which the list is taken misses none of
  them, because a job is never later than the longest wait (`ListIsComplete`). The
  assertions that compare the three cannot fail.
- `FinalScoresAreConsistent`: with those checks passed, an empty list means that
  nothing was read too early. The invariant says besides that only outcomes a
  score reads are withheld, and only from it.
- `FixedPointIsOnline`: a score is always that of the state stored with it, and the
  iteration ends as a fixed point only if the states of the whole last schedule
  equal the stored ones. The frontier is not trusted here: `Recheck` compares everything.
  (That it could be is `SettledJobsStay`.)

**The online replay** (`ReplayProofs`, `OnlineInv` in `OnlineInvariant`). It consists of

- `KernelInv`: the timeout changes the choice and the pauses come between the kernel's
  steps, so each kernel step is that of the kernel, with one new case for the
  head that has timed out. `OnlinePromises` follows: neither takes the bounds on
  overtaking away.
- `ClockInv`: what has finished is not after the clock, and the next arrival is not
  before it. So the jobs finished when one is admitted are those a later look at
  the finished schedule finds finished at its arrival.
- `TimeoutInv`: with a timeout the fifo index is at or before every waiting job,
  although no wrapper runs.
- `ListsInv`, with `ListsAreSorted`: `_append` finds by its loop the place a record has in the
  order the sweep reads (`InsertionPoint`, `InsertKeepsOrder`), whatever order the heap
  popped completions of one instant in.
- `ScoresInv`, with `AdmittedScoresAreOnline` and `PausesAreNeeded`: a job not arrived has
  its score of the source log or is the one being admitted. It needs `ListsInv` and
  the lemma `MergeReadsNewest`: merging the list and the external
  records from their ends, until the window is full, reads exactly the newest of the
  union, which is what a rebuild reads. The loop is a recursive function
  over the two lengths and the room left, so the lemma is about one step of it
  and a minimal counterexample.

`ReplayImplementsRule` is the refinement: `Complete` maps to `Charge`, `Rescore` to
`Settle`, `Admit` to `ArriveScored`, a dispatch to the rule's choice, `Advance` to `Tick`;
`Pause`, `Overflow` and `Ended` are stuttering steps, as is an `Admit` without a pause
preceded by a `Settle` that changes nothing. The mapping extends that of `KernelImplementsRule`.

**The physical service** (`PhysicalProofs`, `PhysicalInvariant`), for any number of jobs
and workers, any input, delay and crash.

- `ProcessesInv`: a worker has at most the one job the dispatcher gave it, in exactly one
  place, the pipe to it, its hands or the pipe from it. A completion is therefore
  never that of another job: `FailsOnlyOnCrash`.
- `RowsInv`: rows record what has happened to each job in its order, and the dispatched jobs that have
  not completed are those of the workers, one each.
- `LogInv`: the file tells the rows. With it the queue, the charged work and the
  choice that the audit reads off the file are those the dispatcher had
  (`FileTellsState`, `ChosenIsExpected`), so that `AuditPasses` is kept
  (`AuditAlwaysPasses`).
- `CapInv`: of the jobs that passed one, those charged when the last of them was dispatched
  had not used up its budget, and at most one more is in each worker's hands.
  `OvertakingIsCapped` follows with `WorkSplit` and `WorkLimit`.
- `OrderInv` (`InstantsInOrder`): the instants that the processes report stand in order,
  and a worker had finished each of its jobs before it was given the next, which relates
  the dispatches in the file to the rows. So a finished run is a schedule on K
  servers (`FinalSchedule`), and a job that starts before another is dispatched was
  dispatched before it. `DelayDespiteIdling` then charges every stall, whatever caused it,
  to the idle capacity: `StallBoundHolds`.

TLC has checked these invariants on the instances of the runs before they were proved, and
`kernel_window` checks `KernelInv` every time. The exception is `SettledInv`, which speaks of
a schedule that no variable holds; its consequences `SettledJobsConsistent` (run
`replay_passes`) and the count of passes were checked instead.

**Only model-checked.** Liveness: `EveryJobStarts`, `IterationsEnd`, `RunsEnd` and `RunEnds`, which
need fairness and `ENABLED` and which the prover does not reach. Every other property of the passing runs
is a theorem.

`ScheduleFollowsClock`, the conjuncts of `StructureInv`, `PassesAreLimited`, `OnlinePromises`,
`InstantsInOrder`, `FailsOnlyOnCrash`, `DeltaCheckPasses`, `FenwickTotal`, `ScheduleIsDetermined`
and `EnoughPasses` are proved without a run of their own: they are conjuncts of what a run checks, or
follow from the invariants proved beside them.

## 6. What is not modelled

- 64-bit overflow in `en * a_us`, `ed * work` and in the drift of `NEG`. Integers
  are unbounded here. Whether a real trace stays in range depends on data.
- Negative arrivals. Arrivals count from the start of the trace; the kernel
  uses only differences of instants.
- The linear age credit: it is added to the score before the kernel runs, and
  the runs choose the scores freely. The arithmetic from a promise to a budget is planned.
- Python-level bookkeeping of results, and the throughput counters beyond
  those in `Kernel`.
- Histories: more than one copy in a trace, the offsets between copies and their
  rounding to floats, collisions of state signatures, the sweep's loop over all
  rows and the feature columns, the score cache (keyed by all a score depends on).
- Consistent refinement: the one-pass reports, the other-class sensitivity variant, the queue
  displacement statistics.
- Sealed data: that a command's workers load the data as well, in processes of their own whose
  refusal reaches the parent as another error, for which a row is written; `parse_archive.py`
  as one invocation per semester; whether a lock's contents are valid is one bit; the student-id and OULAD
  guards, and the recorder and freeze of the second data set, which follow the same
  pattern.
- Resumed runs: what the tables hold, `run_accoding_heldout.py`, edits during a run.
- The physical study's checkpoint between policies, its ideal replay and its reports. In
  `PhysicalService`: the wait for the first release (`release[1] = 0`, while the code counts from
  the start of the bin, `physical_service.py:240`, and lets the run begin later, 914); the time between
  the clock value of a decision (993) and that of its dispatch (1017), which are one; and between a
  worker's end of a job (193) and its message (195), which are one step. No property depends on these.
- The kernel variants of the studies (abandonment, closed loop, late reports, backfilling):
  planned.
- Tightness families: adversarial traces. The runs explore every trace of their size.
- Predictor, readers, metrics, tables, overlays and the selection of parameters: floating-point or
  formatted data computed once, without state shared with the parts above.
- The Lean proofs under the repository, which are about an abstract schedule. Section 5 proves the same
  bounds of the kernel's schedules.
