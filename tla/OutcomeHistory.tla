--------------------------- MODULE OutcomeHistory ---------------------------
(***************************************************************************)
(* What a predictor reads when it scores a job: the outcomes of earlier    *)
(* submissions to the same exercise and by the same user                   *)
(* (features/refine.py, experiment/online.py).  Outcomes of other classes  *)
(* keep the instant at which the source log released them; outcomes of the *)
(* job's own copy are released when the replay completes them.             *)
(*                                                                         *)
(* A job's state, per history, is the set of own outcomes it sees and the  *)
(* membership of its rolling window.  The code compares 64-bit signatures  *)
(* of these states; equal signatures are taken here for equal states.      *)
(* Release instants are whole replay instants of one copy: offsets between *)
(* copies and the rounding of seconds to floats are left out.              *)
(***************************************************************************)
EXTENDS Workload, FiniteSets, Sequences

CONSTANTS
  Segments,         \* per history and job: the (class, key) group it belongs to
  External,         \* per history and group: outcomes of other classes, in read order
  JobRow(_),        \* submission row of a job
  Window,           \* records in a rolling window (120 in the code)
  OverCap,          \* by how much the logged cost of a job cut at L exceeds L
  Predict(_, _)     \* the frozen model: job, state -> score

Histories == {"exercise", "user"}
SegmentOf(h, i) == Segments[h][i]
SegmentIds(h) == {SegmentOf(h, i) : i \in Rank}

\* Records [at |-> release instant, zero |-> released on arrival, row |-> its row]
\* are read by instant, then the delayed before the immediate, then by row
\* (_by_release, _grouped).
Newer(x, y) ==
  \/ x.at > y.at
  \/ x.at = y.at /\ x.zero /\ ~y.zero
  \/ x.at = y.at /\ x.zero = y.zero /\ x.row > y.row

RecordsOf(h, id) == {External[h][id][p] : p \in DOMAIN External[h][id]}

ASSUME WindowAssumption == Window \in Nat \ {0}
ASSUME OverCapAssumption == 0 \in OverCap /\ OverCap \subseteq Nat
ASSUME RowAssumption ==
  \A i \in Rank : JobRow(i) \in Nat /\ \A j \in Rank \ {i} : JobRow(i) # JobRow(j)
ASSUME SegmentAssumption == \A h \in Histories : DOMAIN Segments[h] = Rank
ASSUME ExternalAssumption ==
  \A h \in Histories : \A id \in SegmentIds(h) :
    /\ External[h][id] \in Seq([at : Nat, zero : BOOLEAN, row : Nat])
    /\ \A x \in RecordsOf(h, id) : \A i \in Rank : x.row # JobRow(i)
    /\ \A p, q \in DOMAIN External[h][id] :
         p < q => Newer(External[h][id][q], External[h][id][p])

\* The states one history can give a job: outcomes and records of its own group.
PartStates(h, i) ==
  LET mine   == {JobRow(o) : o \in {x \in Rank \ {i} : SegmentOf(h, x) = SegmentOf(h, i)}}
      others == {x.row : x \in RecordsOf(h, SegmentOf(h, i))}
  IN  [own : SUBSET mine, recent : SUBSET (mine \cup others)]

\* The model gives every such state one of the scores explored.
ASSUME ModelAssumption ==
  \A i \in Rank : \A x \in PartStates("exercise", i), y \in PartStates("user", i) :
    Predict(i, [h \in Histories |-> IF h = "exercise" THEN x ELSE y]) \in Scores

\* _GroupedRows.before, _visible_prefix: how many records of a group a job that
\* arrives at now reads; one released at the very instant it arrived is not read.
ReadAt(x, now) == x.at < now \/ (x.at = now /\ ~x.zero)
VisibleExternals(h, id, now) ==
  Cardinality({p \in DOMAIN External[h][id] : ReadAt(External[h][id][p], now)})

ExternalsRead(h, i) ==
  {External[h][SegmentOf(h, i)][p] :
     p \in 1 .. VisibleExternals(h, SegmentOf(h, i), a_us[i])}

\* An outcome of the own copy.  It takes work, so it is never released on arrival.
OwnRecord(o, release) == [at |-> release[o], zero |-> FALSE, row |-> JobRow(o)]

Newest(S) == {x \in S : Cardinality({y \in S : Newer(y, x)}) < Window}

\* M4HistoryRecomputer.recompute_visible, one history of job i: the own outcomes
\* released at the given instants merged with the others, and the newest of them.
RebuiltPart(h, i, own, release) ==
  LET mine == {o \in own : SegmentOf(h, o) = SegmentOf(h, i)}
      all  == ExternalsRead(h, i) \cup {OwnRecord(o, release) : o \in mine}
  IN  [own |-> {JobRow(o) : o \in mine}, recent |-> {x.row : x \in Newest(all)}]

Rebuilt(i, own, release) == [h \in Histories |-> RebuiltPart(h, i, own, release)]

VARIABLE avail  \* instant at which the source log released each job's outcome

\* The log released an outcome after its whole cost, of which the replay serves at
\* most L.
Logs == {[i \in Rank |-> a_us[i] + s_us[i] + extra[i]] :
           extra \in {x \in [Rank -> OverCap] : \A i \in Rank : s_us[i] < L => x[i] = 0}}

\* _original_part: the state the original clock gives job i.
OriginalState(i) ==
  Rebuilt(i, {o \in Rank \ {i} : avail[o] <= a_us[i]}, avail)

\* baseline_score: what the frozen model says of every job's original state.
Baseline == [i \in Rank |-> Predict(i, OriginalState(i))]

\* The state the replay gives job i, from scratch: own_outcomes and audit_online
\* read the finished schedule.
OnlineState(i, started, done) ==
  Rebuilt(i, {o \in started : done[o] <= a_us[i]}, done)
=============================================================================
