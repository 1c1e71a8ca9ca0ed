-------------------------- MODULE KernelProperties --------------------------
(***************************************************************************)
(* What the structures of Kernel.tla must keep true, and the refinement    *)
(* from the kernel to GuardRule.  KernelProofs.tla proves these statements *)
(* for every constant; the bounds on realised waits against FCFS, which    *)
(* need recursions, are in PerJobBounds.tla.                               *)
(***************************************************************************)
EXTENDS Kernel, WorkOfJobs

\* Type of every variable, with the sets that bound one another: what has been
\* dispatched had arrived, and what runs had been dispatched.
TypeOK ==
  /\ InputsOK
  /\ t \in Int /\ next \in 0 .. N /\ err \in BOOLEAN
  /\ served \subseteq 0 .. next - 1 /\ run \subseteq served
  /\ heap \subseteq 0 .. next - 1 /\ fifoHead \in 0 .. next
  /\ start \in [Rank -> Int] /\ dispatchIndex \in [Rank -> Int]
  /\ {ndisp, nwait, nforced, qwTotal, qwForced, nrebuild, maxSpan} \subseteq Int
  /\ completedWork \in Int /\ fenWork \in [Rank -> Int]
  /\ dispatchedRanks \in Int /\ fenCount \in [Rank -> Int]
  /\ zs \in [Rank -> Int] /\ ahead \in [Rank -> Int] /\ base \in Int
  /\ DOMAIN leaf \subseteq Int /\ \A p \in DOMAIN leaf : leaf[p] \in Int

\* The segment tree's window mirrors the queue across admissions, dispatches and
\* slides: the positions that do not hold NEG are exactly the waiting ranks, all
\* inside the array, and each holds its rank's zs - ed * F.  A stale position, a
\* missed suffix add or a base moved without its leaves breaks it.
WindowMirrorsQueue ==
  guarding =>
    /\ DOMAIN leaf = {q - base : q \in Waiting}
    /\ \A q \in Waiting : /\ q - base \in 0 .. Mslots - 1
                          /\ leaf[q - base] = zs[q] - pol.ed * fenWork[q]

\* Lazy deletion loses nobody: every waiting job is still in the score heap and
\* not behind the fifo index, whatever order it was overtaken in, and the counter
\* nwait that decides dispatching is the size of that queue.
QueuesHoldWaiting ==
  /\ nwait = Cardinality(Waiting)
  /\ pol.mode # "fcfs" => Waiting \subseteq heap
  /\ pol.mode # "score" => \A q \in Waiting : fifoHead <= q

\* The two accounts are prefix sums over ranks: they grow with the rank, and a job
\* that has not arrived starts with nothing charged against it.
AccountsOrderedByRank ==
  \A q \in Rank :
    /\ \A p \in Rank : p <= q => fenWork[p] <= fenWork[q] /\ fenCount[p] <= fenCount[q]
    /\ q >= next => fenWork[q] = completedWork /\ fenCount[q] = dispatchedRanks

\* The static part of a waiting job's test is fixed when it arrives, by the number
\* of jobs it finds waiting; no slide or dispatch alters it.
BudgetFixedAtArrival ==
  guarding => \A q \in Waiting :
    zs[q] = pol.en * a_us[q] - pol.ed * ConstantBudget(ahead[q])

\* The schedule is the record of what was served: a job starts once, never before it
\* arrives, and no admission runs ahead of the clock.
ScheduleFollowsClock ==
  /\ ndisp = Cardinality(served)
  /\ \A j \in Rank : IF j \in served THEN start[j] >= a_us[j] ELSE start[j] = NotStarted
  /\ \A q \in 0 .. next - 1 : a_us[q] <= t

\* The inductive invariant on the structures the kernel decides with.
StructureInv ==
  /\ TypeOK
  /\ WindowMirrorsQueue
  /\ QueuesHoldWaiting
  /\ AccountsOrderedByRank
  /\ BudgetFixedAtArrival

\* The accounts are sums over real jobs: what guard mode has charged is the true work
\* of the jobs that completed, and F(q) the part of it from ranks up to q; skip mode
\* counts the dispatches the same way.  A charge made twice, early or to the wrong
\* suffix breaks it.
AccountsAreSums ==
  /\ guarding =>
       /\ completedWork = WorkOf(served \ run, s_us)
       /\ \A q \in Rank : fenWork[q] = WorkOf({j \in served \ run : j <= q}, s_us)
  /\ pol.mode = "skip" =>
       /\ dispatchedRanks = Cardinality(served)
       /\ \A q \in Rank : fenCount[q] = Cardinality({j \in served : j <= q})

Overtakers(q) == {j \in served : j > q}

\* Skip mode lets at most ncap jobs pass a waiting job, whoever is the head.
OvertakersLimited ==
  pol.mode = "skip" => \A q \in Waiting : Cardinality(Overtakers(q)) <= pol.ncap

\* While a job waits under a capped budget, the work dispatched past it stays
\* below bmax + K L: at most bmax was charged when the last overtaker left, and at
\* most K overtakers of size L were in flight.  This is what the promise rests on.
OvertakingWorkBounded ==
  guarding /\ pol.bmax > 0 =>
    \A q \in Waiting : WorkOf(Overtakers(q), s_us) < pol.bmax + K * L

\* The inductive invariant of the whole kernel.
KernelInv ==
  /\ StructureInv
  /\ ScheduleFollowsClock
  /\ AccountsAreSums
  /\ OvertakersLimited
  /\ OvertakingWorkBounded

\* kernel.py:22-24.  With a budget that is the same for all, the fired set is
\* non-empty exactly when the head is in it, because over is non-increasing in rank.
HeadDecidesAtConstantBudget ==
  guarding /\ pol.en = 0 /\ pol.gam = 0 /\ nwait > 0 =>
    (HeadAtCap \/ FiredPositions # {} => HeadAtCap \/ FifoHead - base \in FiredPositions)

\* The run is given up only when the ranks from the oldest waiting job to the new
\* arrival really do not fit the window, never because the base had lagged behind.
OverflowOnlyWhenSpanTooWide ==
  err => guarding /\ \E q \in Waiting : next - q >= Mslots

---------------------------------------------------------------------------
\* The kernel implements the rule of sim/reference.py.  over[q] is TC - F(q), as
\* the kernel's header says; the pass count is held the same way.
Rule == INSTANCE GuardRule WITH
  waiting <- Waiting,
  running <- run,
  order   <- ndisp,
  over    <- [q \in Waiting |-> completedWork - fenWork[q]],
  passes  <- [q \in Waiting |-> dispatchedRanks - fenCount[q]],
  ahead   <- [q \in Waiting |-> ahead[q]]

\* Every run of the kernel is a run of the rule: same jobs, same instants, same order.
RefinesGuardRule == Rule!Spec

\* Under the fairness of a sequential loop every job is started, unless the
\* window overflowed and the run was rejected.
EveryJobStarts == <>(ndisp = N \/ err)
=============================================================================
