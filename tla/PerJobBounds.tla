---------------------------- MODULE PerJobBounds ----------------------------
(***************************************************************************)
(* The per-job statements of sim/bounds.py on realised schedules of the    *)
(* kernel, against first-come-first-served waits computed independently by *)
(* the recursions of sim/reference.py.  Bounds are cleared of denominators *)
(* (K and ed), so every comparison is between integers.                    *)
(***************************************************************************)
EXTENDS KernelProperties, FenwickTree

\* The waits under first come first served.
Fcfs == INSTANCE ReferenceFcfs

AbsDiff(x, y) == IF x >= y THEN x - y ELSE y - x

RunComplete == ndisp = N

\* in_out_quadratic
WorkIn(i) == WorkOf({j \in Rank : j > i /\ dispatchIndex[j] < dispatchIndex[i]}, s_us)
WorkOut(i) == WorkOf({j \in Rank : j < i /\ dispatchIndex[i] < dispatchIndex[j]}, s_us)

\* _in_out_sweep: one walk of the dispatch sequence over the finished run, with a
\* Fenwick tree of the work dispatched so far.
SweepStart == [tree |-> NoWork(N), total |-> 0, work_in |-> s_us, work_out |-> s_us]
SweepStep(w, i) ==
  LET static == WorkOf({j \in Rank : j < i}, s_us)
      s      == Pref(w.tree, i)
  IN  [tree     |-> Added(w.tree, N, i, s_us[i]),
       total    |-> w.total + s_us[i],
       work_in  |-> [w.work_in EXCEPT ![i] = w.total - s],
       work_out |-> [w.work_out EXCEPT ![i] = static - s]]
SweepAfter[p \in 0 .. N] ==
  IF p = 0 THEN SweepStart
  ELSE SweepStep(SweepAfter[p - 1], CHOOSE j \in Rank : dispatchIndex[j] = p - 1)
Sweep == SweepAfter[N]

---------------------------------------------------------------------------
\* identity (bounds.py:3): |k (W - W_FCFS) - (In - Out)| <= 2 (k-1) L, every mode.
IdentityBound ==
  RunComplete => \A i \in Rank :
    AbsDiff(K * (Wait(i) - Fcfs!Wait(i)), WorkIn(i) - WorkOut(i)) <= 2 * (K - 1) * L

\* guard, additive (bounds.py:4): W < W_FCFS + bmax/k + (3 - 2/k) L.
GuardAdditiveBound ==
  RunComplete /\ guarding /\ pol.bmax > 0 => \A i \in Rank :
    K * (Wait(i) - Fcfs!Wait(i)) < pol.bmax + (3 * K - 2) * L

\* guard, multiplicative (bounds.py:5), for budgets without a queue-length part:
\* (1 - eta) W <= W_FCFS + b0/k + (3 - 2/k) L with eta = en / (ed k) below 1.
GuardRelativeBound ==
  RunComplete /\ guarding /\ pol.gam = 0 /\ pol.en < pol.ed * K => \A i \in Rank :
    (pol.ed * K - pol.en) * Wait(i)
      <= pol.ed * (K * Fcfs!Wait(i) + pol.b0 + (3 * K - 2) * L)

\* skip (bounds.py:6): W <= W_FCFS + (N + 2k - 2) L / k, N the pass count.
SkipBound ==
  RunComplete /\ pol.mode = "skip" => \A i \in Rank :
    K * (Wait(i) - Fcfs!Wait(i)) <= (pol.ncap + 2 * K - 2) * L

\* The sweep every audit uses gives, for every job, what the definition gives.
SweepMatchesDefinition ==
  RunComplete => \A i \in Rank : /\ Sweep.work_in[i] = WorkIn(i)
                                 /\ Sweep.work_out[i] = WorkOut(i)

\* First come first served is the mode fcfs, the recursions of reference.py, and
\* every wrapper whose budget is zero.
FcfsMatchesRecursions ==
  RunComplete /\ ( \/ pol.mode = "fcfs"
                   \/ pol.mode = "skip" /\ pol.ncap = 0
                   \/ guarding /\ pol.b0 = 0 /\ pol.en = 0 /\ pol.gam = 0 ) =>
    \A i \in Rank : /\ Wait(i) = Fcfs!Wait(i)
                    /\ K = 1 => Wait(i) = Fcfs!Lindley[i]
=============================================================================
