------------------------------- MODULE Kernel -------------------------------
(***************************************************************************)
(* sim/kernel.py: the event-driven simulation loop and the structures it   *)
(* decides with.  One action per loop step; the loop is sequential, so the *)
(* guards reproduce its order: completions of the instant, then arrivals,  *)
(* then one dispatch at a time while a server is free, then the clock.     *)
(*                                                                         *)
(* Structures, and how they appear here:                                   *)
(*   run heap (rt, rj)     the set run; a rank's key is Done(rank).  The   *)
(*                         heap leaves ties open, so any minimum may pop.  *)
(*   score heap (hk, hi)   the set heap, served (stale) entries included,  *)
(*                         ordered by Before.                              *)
(*   fifo                  ranks are appended in rank order, so fifo[p] is *)
(*                         p and the two indices fifoHead, next suffice.   *)
(*   Fenwick trees         their prefix sums: fenWork[q], fenCount[q] are  *)
(*                         what _fen_pref(tree, q) returns.                *)
(*   segment tree          its leaves: leaf[p] for the positions that do   *)
(*                         not hold NEG.                                   *)
(* Fenwick.tla, SegTree.tla and BinaryHeap.tla model the arrays behind     *)
(* these abstractions, and RankMaps.tla the operations they offer.         *)
(*                                                                         *)
(* A definition named Bug_X is a mutated form of the definition X that     *)
(* follows it: a plausible slip in that code, which the property named in  *)
(* its comment must notice.  Nothing in the specification uses it.         *)
(***************************************************************************)
EXTENDS Workload, RankMaps, FiniteSets

CONSTANT Mslots   \* ranks the segment tree's window can span

ASSUME MslotsAssumption == Mslots \in Nat \ {0}

VARIABLES
  t,                          \* the clock
  next,                       \* S_NEXT_ARRIVAL
  run,                        \* the run heap; its size is S_NRUN
  served,                     \* ranks already dispatched
  start,                      \* start_us
  dispatchIndex, ndisp,       \* dispatch_index, S_NDISP (= S_NSTARTED)
  nwait,                      \* S_NWAIT
  fifoHead,                   \* S_FIFO_HEAD
  heap,                       \* the score heap
  completedWork, fenWork,     \* S_COMPLETED_WORK, its per-rank prefix sums
  dispatchedRanks, fenCount,  \* S_NDISPATCHED_RANKS, its prefix sums
  zs, leaf, base,             \* static part of the test, window, S_WINDOW_BASE
  nforced, qwTotal, qwForced, \* S_NFORCED, S_QW_TOTAL, S_QW_FORCED
  nrebuild, maxSpan,          \* S_NREBUILD, S_MAX_SPAN
  err,                        \* S_ERR
  ahead                       \* history: w_q of each rank, folded into zs by the code

queueVars == <<nwait, fifoHead, heap>>
workVars  == <<completedWork, fenWork>>
countVars == <<dispatchedRanks, fenCount>>
windowVars == <<zs, leaf, base, nrebuild, maxSpan, err, ahead>>
resultVars == <<start, dispatchIndex, ndisp, nforced, qwTotal, qwForced>>
vars == <<inputs, t, next, run, served, queueVars, workVars, countVars,
          windowVars, resultVars>>

guarding == pol.mode = "guard"
NotStarted == -1
BeforeTime == -1

Done(j) == start[j] + s_us[j]
Wait(j) == start[j] - a_us[j]                \* wait_us
Running == ndisp < N /\ ~err               \* the while loop has not been left

\* IdentityBound: the cost is read one instant early.
Bug_Due(j) == Done(j) <= t + 1
Due(j) == Done(j) <= t
CompletionDue == \E j \in run : Due(j)
ArrivalDue == next < N /\ a_us[next] <= t

CanDispatch == Cardinality(run) < K /\ nwait > 0

\* Admitted and not dispatched; the code never computes this set.
Waiting == {q \in Rank : q < next /\ q \notin served}

\* _fifo_head: the first unserved rank at or after the stored index.
IsFifoHead(h) ==
  /\ h \in fifoHead .. next - 1 /\ h \notin served
  /\ \A q \in fifoHead .. h - 1 : q \in served
FifoHead == CHOOSE h \in Rank : IsFifoHead(h)

---------------------------------------------------------------------------
\* simulate_kernel's arrays before the loop.
Idle ==
  /\ t = BeforeTime /\ next = 0 /\ run = {} /\ served = {}
  /\ start = [j \in Rank |-> NotStarted]
  /\ dispatchIndex = [j \in Rank |-> NotStarted]
  /\ ndisp = 0 /\ nforced = 0 /\ qwTotal = 0 /\ qwForced = 0
  /\ nwait = 0 /\ fifoHead = 0 /\ heap = {}
  /\ completedWork = 0 /\ fenWork = [q \in Rank |-> 0]
  /\ dispatchedRanks = 0 /\ fenCount = [q \in Rank |-> 0]
  /\ zs = [q \in Rank |-> 0] /\ ahead = [q \in Rank |-> 0]
  /\ leaf = [p \in {} |-> 0] /\ base = 0
  /\ nrebuild = 0 /\ maxSpan = 0 /\ err = FALSE

Init == InputsOK /\ Idle

\* Every position from c's on loses the work c was charged for.
\* HeadDecidesAtConstantBudget: the range add covers the prefix.
Bug_ChargedLeaf(c) ==
  [y \in DOMAIN leaf |-> IF y <= c - base THEN leaf[y] - pol.ed * s_us[c] ELSE leaf[y]]
ChargedLeaf(c) == AddSuffix(leaf, c - base, - pol.ed * s_us[c])

\* _apply_completions, one iteration: pop the earliest running job and, in guard
\* mode, charge its true work to every waiting rank below it.
ApplyCompletion(c) ==
  /\ Running
  /\ c \in run /\ Due(c)
  /\ \A j \in run : Done(c) <= Done(j)
  /\ run' = run \ {c}
  /\ IF guarding
       THEN /\ completedWork' = completedWork + s_us[c]
            /\ fenWork' = AddSuffix(fenWork, c, s_us[c])
            /\ leaf' = ChargedLeaf(c)
       ELSE UNCHANGED <<workVars, leaf>>
  /\ UNCHANGED <<inputs, t, next, served, queueVars, countVars, resultVars,
                 zs, base, nrebuild, maxSpan, err, ahead>>

\* _admit_arrivals: the window is full of older ranks when job i arrives.
MustSlide(i) == nwait > 0 /\ i - base >= Mslots

\* The window after room is made for rank i, and its base (_rebuild_window).
\* OverflowOnlyWhenSpanTooWide: the window never slides.
Bug_WindowBase(i) == IF nwait = 0 THEN i ELSE base
WindowBase(i) == IF nwait = 0 THEN i ELSE IF MustSlide(i) THEN FifoHead ELSE base
\* KernelInv: the base moves and the leaves stay.
Bug_WindowLeaf(i) == leaf
WindowLeaf(i) ==
  IF MustSlide(i)
    THEN [p \in {q - FifoHead : q \in Waiting} |->
            zs[p + FifoHead] - pol.ed * fenWork[p + FifoHead]]
    ELSE leaf

\* The constant part of a job's budget, clipped to the cap.
ConstantBudget(w) ==
  LET cb == pol.b0 + pol.gam * w
  IN  IF pol.bmax > 0 /\ cb > pol.bmax THEN pol.bmax ELSE cb

\* _admit_arrivals, guard mode: place job i in the window.
RegisterInWindow(i) ==
  LET z  == pol.en * a_us[i] - pol.ed * ConstantBudget(nwait)
      nb == WindowBase(i)
  IN  /\ zs' = [zs EXCEPT ![i] = z]
      /\ ahead' = [ahead EXCEPT ![i] = nwait]
      /\ leaf' = Put(WindowLeaf(i), i - nb, z - pol.ed * fenWork[i])
      /\ base' = nb
      /\ fifoHead' = IF MustSlide(i) THEN FifoHead ELSE fifoHead
      /\ nrebuild' = IF MustSlide(i) THEN nrebuild + 1 ELSE nrebuild
      /\ maxSpan' = IF i - nb + 1 > maxSpan THEN i - nb + 1 ELSE maxSpan

\* _admit_arrivals, one iteration that succeeds.
AdmitArrival ==
  /\ Running /\ ~CompletionDue
  /\ ArrivalDue
  /\ IF guarding
       THEN /\ next - WindowBase(next) < Mslots
            /\ RegisterInWindow(next)
       ELSE /\ ahead' = [ahead EXCEPT ![next] = nwait]
            /\ UNCHANGED <<zs, leaf, base, fifoHead, nrebuild, maxSpan>>
  /\ heap' = IF pol.mode = "fcfs" THEN heap ELSE heap \cup {next}
  /\ nwait' = nwait + 1
  /\ next' = next + 1
  /\ UNCHANGED <<inputs, t, run, served, workVars, countVars, resultVars, err>>

\* _rebuild_window gives up: even the slid window cannot span the new rank.
WindowOverflow ==
  /\ Running /\ ~CompletionDue
  /\ ArrivalDue /\ guarding
  /\ next - WindowBase(next) >= Mslots
  /\ err' = TRUE
  /\ fifoHead' = FifoHead
  /\ UNCHANGED <<inputs, t, next, run, served, nwait, heap, workVars, countVars,
                 resultVars, zs, leaf, base, nrebuild, maxSpan, ahead>>

---------------------------------------------------------------------------
\* _fired_member: the head if it alone shows a spent cap, else the leftmost window
\* position whose value has reached the threshold.
\* GuardRelativeBound: the total is left out of the test.
Bug_Threshold2 == pol.en * t
\* RefinesGuardRule: strict instead of weak comparison.
Bug_Threshold == pol.en * t - pol.ed * completedWork + 1
Threshold == pol.en * t - pol.ed * completedWork
\* OvertakingWorkBounded, GuardAdditiveBound: the cap is not tested.
Bug_HeadAtCap == FALSE
HeadAtCap == pol.bmax > 0 /\ completedWork - fenWork[FifoHead] >= pol.bmax
FiredPositions == AtLeast(leaf, Threshold)
IsFiredMember(j) ==
  IF HeadAtCap THEN j = FifoHead
  ELSE /\ j - base \in FiredPositions
       /\ \A p \in FiredPositions : j - base <= p
NoFiredMember == ~HeadAtCap /\ FiredPositions = {}

\* _skip_member: the head once it has been passed ncap times.
\* SkipBound, FcfsMatchesRecursions: one pass too many.
Bug_HeadPassed == dispatchedRanks - fenCount[FifoHead] > pol.ncap
HeadPassed == dispatchedRanks - fenCount[FifoHead] >= pol.ncap

\* _base_choice: pop entries until an unserved one comes out.
IsBaseChoice(j) ==
  /\ j \in heap \ served
  /\ \A h \in heap \ (served \cup {j}) : Before(j, h)
Popped(j) == {h \in heap : h = j \/ Before(h, j)}

MarkServed(j) == served \cup {j}

\* _dispatch
Dispatch(j, forced) ==
  /\ served' = MarkServed(j)
  /\ qwTotal' = qwTotal + nwait
  /\ nforced' = IF forced THEN nforced + 1 ELSE nforced
  /\ qwForced' = IF forced THEN qwForced + nwait ELSE qwForced
  /\ nwait' = nwait - 1
  /\ start' = [start EXCEPT ![j] = t]
  /\ dispatchIndex' = [dispatchIndex EXCEPT ![j] = ndisp]
  /\ ndisp' = ndisp + 1
  /\ IF pol.mode = "skip"
       THEN /\ dispatchedRanks' = dispatchedRanks + 1
            /\ fenCount' = AddSuffix(fenCount, j, 1)
       ELSE UNCHANGED countVars
  /\ run' = run \cup {j}
  /\ UNCHANGED <<inputs, t, next, workVars, zs, base, nrebuild, maxSpan, err, ahead>>

DispatchEpoch == Running /\ ~CompletionDue /\ ~ArrivalDue /\ CanDispatch

\* _choose, FCFS: the head, whose fifo entry is consumed.
DispatchHead(j) ==
  /\ DispatchEpoch /\ pol.mode = "fcfs"
  /\ IsFifoHead(j)
  /\ fifoHead' = j + 1
  /\ Dispatch(j, TRUE)
  /\ UNCHANGED <<heap, leaf>>

\* _choose: the wrapper overrides the base policy; the job's heap entry goes stale.
DispatchForced(j) ==
  /\ DispatchEpoch
  /\ \/ guarding /\ IsFiredMember(j)
     \/ pol.mode = "skip" /\ HeadPassed /\ j = FifoHead
  /\ fifoHead' = FifoHead
  /\ leaf' = IF guarding THEN Drop(leaf, j - base) ELSE leaf
  /\ Dispatch(j, TRUE)
  /\ UNCHANGED heap

\* _choose: the base policy picks the job.
DispatchBase(j) ==
  /\ DispatchEpoch
  /\ \/ pol.mode = "score"
     \/ guarding /\ NoFiredMember
     \/ pol.mode = "skip" /\ ~HeadPassed
  /\ IsBaseChoice(j)
  /\ heap' = heap \ Popped(j)
  /\ fifoHead' = IF pol.mode = "score" THEN fifoHead ELSE FifoHead
  /\ leaf' = IF guarding THEN Drop(leaf, j - base) ELSE leaf
  /\ Dispatch(j, FALSE)

\* _next_instant: the earlier of the next completion and the next arrival.
\* EveryJobStarts: the clock counts the present among the next instants.
Bug_Instants == {Done(j) : j \in run} \cup {a_us[i] : i \in {next} \cap Rank} \cup {t}
Instants == {Done(j) : j \in run} \cup {a_us[i] : i \in {next} \cap Rank}
AdvanceClock ==
  /\ Running /\ ~CompletionDue /\ ~ArrivalDue /\ ~CanDispatch
  /\ t' \in Instants
  /\ \A u \in Instants : t' <= u
  /\ UNCHANGED <<inputs, next, run, served, queueVars, workVars, countVars,
                 windowVars, resultVars>>

\* The loop has ended: every job was started, or the window overflowed.
Finished == ~Running /\ UNCHANGED vars

Next ==
  \/ \E c \in Rank : ApplyCompletion(c)
  \/ AdmitArrival
  \/ WindowOverflow
  \/ \E j \in Rank : DispatchHead(j)
  \/ \E j \in Rank : DispatchForced(j)
  \/ \E j \in Rank : DispatchBase(j)
  \/ AdvanceClock
  \/ Finished

Spec == Init /\ [][Next]_vars

\* The loop runs on: nothing outside it can hold it up.
FairSpec == Spec /\ WF_vars(Next)
=============================================================================
