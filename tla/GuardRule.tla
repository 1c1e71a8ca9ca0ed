----------------------------- MODULE GuardRule ------------------------------
(***************************************************************************)
(* What every policy promises, written from the definitions as             *)
(* sim/reference.py does (brute_guard): k servers, no preemption, no       *)
(* server idle while a job waits, and one rule that picks the next job.    *)
(* There are no heaps, trees, windows or prefix sums here; the queue is a  *)
(* set and each waiting job carries its own account.  Kernel.tla is the    *)
(* implementation and is shown to refine this module.                      *)
(***************************************************************************)
EXTENDS Workload, FiniteSets

VARIABLES
  t,              \* the clock
  next,           \* ranks below next have arrived
  waiting,        \* arrived and not dispatched
  running,        \* dispatched and not retired
  start,          \* dispatch instant of each rank, NotStarted before it
  dispatchIndex,  \* position of each rank in the dispatch sequence
  order,          \* number of dispatches so far
  over,           \* per waiting job: completed work of the ranks above it
  passes,         \* per waiting job: dispatches of ranks above it
  ahead           \* per waiting job: jobs that waited when it arrived

account == <<over, passes, ahead>>
vars == <<inputs, t, next, waiting, running, start, dispatchIndex, order,
          account>>

NotStarted == -1
BeforeTime == -1   \* the clock before the first event

Done(j) == start[j] + s_us[j]
CompletionDue == \E j \in running : Done(j) <= t
ArrivalDue == next < N /\ a_us[next] <= t
CanDispatch == Cardinality(running) < K /\ waiting # {}
AllStarted == \A j \in Rank : start[j] # NotStarted

\* The budget of q is spent: overtaken work has reached
\* min(b0 + gam * ahead + (en/ed) * age, bmax), the comparison cleared of ed.
Spent(q) ==
  \/ pol.bmax > 0 /\ over[q] >= pol.bmax
  \/ pol.ed * over[q] >= pol.ed * (pol.b0 + pol.gam * ahead[q])
                           + pol.en * (t - a_us[q])

\* The jobs the wrapper must not let anybody overtake any more.
Fired ==
  CASE pol.mode = "guard" -> {q \in waiting : Spent(q)}
    [] pol.mode = "skip"  -> {q \in waiting : passes[q] >= pol.ncap}
    [] pol.mode = "fcfs"  -> waiting
    [] pol.mode = "score" -> {}

\* The oldest fired job if there is one, the base policy's choice otherwise.
Chosen(j) ==
  /\ j \in waiting
  /\ \/ j \in Fired /\ \A q \in Fired : j <= q
     \/ Fired = {} /\ \A q \in waiting \ {j} : Before(j, q)

---------------------------------------------------------------------------
Init ==
  /\ InputsOK
  /\ t = BeforeTime
  /\ next = 0
  /\ waiting = {} /\ running = {}
  /\ start = [j \in Rank |-> NotStarted]
  /\ dispatchIndex = [j \in Rank |-> NotStarted]
  /\ order = 0
  /\ over = [q \in {} |-> 0]
  /\ passes = [q \in {} |-> 0]
  /\ ahead = [q \in {} |-> 0]

\* Retire c and charge its true work to the waiting jobs it overtook.
Charge(c) ==
  /\ ~AllStarted
  /\ c \in running /\ Done(c) <= t
  /\ running' = running \ {c}
  /\ over' = IF pol.mode = "guard"
               THEN [q \in waiting |-> IF q < c THEN over[q] + s_us[c] ELSE over[q]]
               ELSE over
  /\ UNCHANGED <<inputs, t, next, waiting, start, dispatchIndex, order, passes, ahead>>

\* Admit the next job, once every completion of this instant is charged.
Arrive ==
  /\ ~CompletionDue
  /\ ArrivalDue
  /\ next' = next + 1
  /\ waiting' = waiting \cup {next}
  /\ over' = [q \in waiting' |-> IF q = next THEN 0 ELSE over[q]]
  /\ passes' = [q \in waiting' |-> IF q = next THEN 0 ELSE passes[q]]
  /\ ahead' = [q \in waiting' |-> IF q = next THEN Cardinality(waiting) ELSE ahead[q]]
  /\ UNCHANGED <<inputs, t, running, start, dispatchIndex, order>>

\* Hand j to a free server and count the pass against the older jobs that wait
\* (an account the other modes never read is left alone).
Serve(j) ==
  /\ ~CompletionDue /\ ~ArrivalDue
  /\ CanDispatch
  /\ waiting' = waiting \ {j}
  /\ running' = running \cup {j}
  /\ start' = [start EXCEPT ![j] = t]
  /\ dispatchIndex' = [dispatchIndex EXCEPT ![j] = order]
  /\ order' = order + 1
  /\ over' = [q \in waiting' |-> over[q]]
  /\ passes' = [q \in waiting' |-> IF pol.mode = "skip" /\ q < j
                                     THEN passes[q] + 1 ELSE passes[q]]
  /\ ahead' = [q \in waiting' |-> ahead[q]]
  /\ UNCHANGED <<inputs, t, next>>

Dispatch(j) == Chosen(j) /\ Serve(j)

\* The instants at which something can happen.
Instants == {Done(j) : j \in running} \cup {a_us[i] : i \in {next} \cap Rank}

\* Time passes only when no dispatch is possible, and only to the next instant.
Tick ==
  /\ ~AllStarted
  /\ ~CompletionDue /\ ~ArrivalDue /\ ~CanDispatch
  /\ t' \in Instants
  /\ \A u \in Instants : t' <= u
  /\ UNCHANGED <<inputs, next, waiting, running, start, dispatchIndex, order, account>>

Next ==
  \/ \E c \in Rank : Charge(c)
  \/ Arrive
  \/ \E j \in Rank : Dispatch(j)
  \/ Tick

Spec == Init /\ [][Next]_vars
=============================================================================
