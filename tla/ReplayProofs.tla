---------------------------- MODULE ReplayProofs ----------------------------
(***************************************************************************)
(* Proofs about the iterations over whole replays and about the replay     *)
(* with pauses, for every trace, policy, timeout, log, set of histories    *)
(* and model.                                                              *)
(*                                                                         *)
(* Whole replays: what refine_policy's checks compare, what its final      *)
(* scores read, what refine_policy_online's fixed point is, why a pass     *)
(* looks only behind the frontier, and how many passes are enough.  Each   *)
(* pass is a run of the kernel, so its invariant (KernelProofs.tla) holds  *)
(* in every pass.                                                          *)
(*                                                                         *)
(* The replay with pauses: the lists are in the order the sweep reads,     *)
(* merging them with the external records from the end reads the window a  *)
(* rebuild reads, scores are online, and the replay implements             *)
(* OnlineRule.tla.                                                         *)
(***************************************************************************)
EXTENDS KernelProofs, OnlineFixedPoint, ConsistentScores, OnlineReplay, SequenceTheorems

---------------------------------------------------------------------------
(* Scores and passes.                                                      *)

\* A job reads a prefix of its group's records.
LEMMA VisibleAreRecords ==
  ASSUME NEW h \in Histories, NEW i \in Rank
  PROVE  /\ VisibleExternals(h, SegmentOf(h, i), a_us[i]) \in 0 .. Len(External[h][SegmentOf(h, i)])
         /\ DOMAIN External[h][SegmentOf(h, i)] = 1 .. Len(External[h][SegmentOf(h, i)])
         /\ Len(External[h][SegmentOf(h, i)]) \in Nat
<1> DEFINE id   == SegmentOf(h, i)
           ext  == External[h][id]
           n    == Len(ext)
           seen == {p \in DOMAIN ext : ReadAt(ext[p], a_us[i])}
<1>1. ext \in Seq([at : Nat, zero : BOOLEAN, row : Nat])
  BY ExternalAssumption DEF ExternalAssumption, SegmentIds
<1>2. DOMAIN ext = 1 .. n /\ n \in Nat
  BY <1>1
<1>3. seen \in SUBSET (1 .. n)
  BY <1>2
<1>4. VisibleExternals(h, id, a_us[i]) = Cardinality(seen)
  BY DEF VisibleExternals
<1> HIDE DEF n, seen
<1>5. IsFiniteSet(1 .. n) /\ Cardinality(1 .. n) = n
  BY <1>2, FS_Interval
<1>6. IsFiniteSet(seen) /\ Cardinality(seen) <= n
  BY <1>3, <1>5, FS_Subset
<1>7. Cardinality(seen) \in Nat
  BY <1>6, FS_CardinalityType
<1> QED BY <1>2, <1>4, <1>6, <1>7 DEF n

\* A history gives a job a state made of its own group's outcomes and records.
LEMMA RebuiltPartType ==
  ASSUME NEW h \in Histories, NEW i \in Rank, NEW own \in SUBSET (Rank \ {i}), NEW release
  PROVE  RebuiltPart(h, i, own, release) \in PartStates(h, i)
<1> DEFINE id   == SegmentOf(h, i)
           ext  == External[h][id]
           mine == {o \in own : SegmentOf(h, o) = id}
           rows == {JobRow(o) : o \in mine}
           all  == ExternalsRead(h, i) \cup {OwnRecord(o, release) : o \in mine}
           keep == {JobRow(o) : o \in {x \in Rank \ {i} : SegmentOf(h, x) = SegmentOf(h, i)}}
           others == {x.row : x \in RecordsOf(h, id)}
<1>1. rows \subseteq keep
  OBVIOUS
<1>2. ExternalsRead(h, i) \subseteq RecordsOf(h, id)
  <2>1. /\ VisibleExternals(h, id, a_us[i]) \in 0 .. Len(ext)
        /\ DOMAIN ext = 1 .. Len(ext) /\ Len(ext) \in Nat
    BY VisibleAreRecords
  <2> QED BY <2>1 DEF ExternalsRead, RecordsOf
<1>3. \A x \in all : x.row \in keep \cup others
  <2>1. \A o \in mine : OwnRecord(o, release).row = JobRow(o)
    BY DEF OwnRecord
  <2> QED BY <1>1, <1>2, <2>1
<1>4. {x.row : x \in Newest(all)} \subseteq keep \cup others
  BY <1>3 DEF Newest
<1>5. RebuiltPart(h, i, own, release) = [own |-> rows, recent |-> {x.row : x \in Newest(all)}]
  BY DEF RebuiltPart
<1>6. PartStates(h, i) = [own : SUBSET keep, recent : SUBSET (keep \cup others)]
  BY DEF PartStates
<1> HIDE DEF rows, keep, others, all
<1> QED BY <1>1, <1>4, <1>5, <1>6

\* So the model's answer is one of the scores the kernel can be given.
LEMMA PredictedScore ==
  ASSUME NEW i \in Rank, NEW own \in SUBSET (Rank \ {i}), NEW release
  PROVE  Predict(i, Rebuilt(i, own, release)) \in Scores
<1> DEFINE x == RebuiltPart("exercise", i, own, release)
           y == RebuiltPart("user", i, own, release)
<1>1. x \in PartStates("exercise", i) /\ y \in PartStates("user", i)
  BY RebuiltPartType DEF Histories
<1>2. Rebuilt(i, own, release) = [h \in Histories |-> IF h = "exercise" THEN x ELSE y]
  BY DEF Rebuilt, Histories
<1> HIDE DEF x, y
<1> QED BY <1>1, <1>2, ModelAssumption DEF ModelAssumption

LEMMA BaselineType == ASSUME TraceOK PROVE Baseline \in [Rank -> Scores]
<1>1. ASSUME NEW i \in Rank PROVE Predict(i, OriginalState(i)) \in Scores
  BY PredictedScore DEF OriginalState
<1> QED BY <1>1 DEF Baseline

\* A new pass starts from the kernel's initial state.
LEMMA PassStarts ==
  ASSUME TraceOK, NEW scores \in [Rank -> Scores], Simulate(scores)
  PROVE  KernelInv'
<1>1. Init'
  BY DEF Init, Simulate, InputsOK, TraceOK, Idle
<1> QED BY <1>1, InitKernel, PTL

\* When a pass has ended, every job has run from its arrival or later.
LEMMA EndedPass ==
  ASSUME KernelInv, PassEnded
  PROVE  /\ served = Rank
         /\ \A i \in Rank : /\ start[i] \in Int /\ a_us[i] \in Int /\ s_us[i] \in Int
                            /\ start[i] >= a_us[i] /\ s_us[i] > 0 /\ Done(i) > a_us[i]
                            /\ Done(i) \in Int
<1>1. /\ N \in Nat /\ IsFiniteSet(Rank) /\ served \subseteq Rank
      /\ a_us \in [Rank -> Int] /\ s_us \in [Rank -> 1 .. L] /\ start \in [Rank -> Int] /\ L \in Nat
  BY AccountTypes, InputTypes DEF KernelInv, StructureInv, TypeOK
<1>2. Cardinality(Rank) = N
  BY <1>1, FS_Interval DEF Rank
<1>3. served = Rank
  BY <1>1, <1>2, FS_Subset DEF KernelInv, ScheduleFollowsClock, PassEnded
<1> QED BY <1>1, <1>3 DEF KernelInv, ScheduleFollowsClock, Done

---------------------------------------------------------------------------
(* The online fixed point.                                                 *)

FixedPointInv ==
  /\ KernelInv
  /\ score = [i \in Rank |-> Predict(i, stored[i])]
  /\ outcome = "fixed point" => \A i \in Rank : ViewState(i) = stored[i]

\* A pass's corrections are scores of the states they are stored with.
LEMMA CorrectKeepsStored ==
  ASSUME FixedPointInv, Correct
  PROVE  FixedPointInv'
<1>1. PassEnded /\ Simulate(Rescored) /\ stored' = Stored /\ outcome' = outcome /\ outcome = "running"
  BY DEF Correct, CanCheck
<1>2. Rescored \in [Rank -> Scores]
  <2>1. ASSUME NEW i \in Rank PROVE Predict(i, ViewState(i)) \in Scores
    <3>1. {o \in Rank : Completion[o] <= a_us[i]} \in SUBSET (Rank \ {i})
      BY <1>1, EndedPass DEF FixedPointInv, Completion
    <3> QED BY <3>1, PredictedScore DEF ViewState, OnlineState
  <2>2. score \in [Rank -> Scores]
    BY DEF FixedPointInv, KernelInv, StructureInv, TypeOK, InputsOK
  <2> QED BY <2>1, <2>2 DEF Rescored
<1>3. KernelInv'
  BY <1>1, <1>2, PassStarts DEF FixedPointInv, KernelInv, StructureInv, TypeOK, InputsOK
<1>4. score' = [i \in Rank |-> Predict(i, stored'[i])]
  BY <1>1 DEF Simulate, FixedPointInv, Rescored, Stored
<1> QED BY <1>1, <1>3, <1>4 DEF FixedPointInv

\* What a state is depends on the schedule and the inputs alone.
LEMMA ViewsUnchanged ==
  ASSUME UNCHANGED <<start, s_us, a_us>>
  PROVE  \A i : ViewState(i)' = ViewState(i)
<1>1. Completion' = Completion
  BY DEF Completion, Done
<1> QED BY <1>1
    DEF ViewState, OnlineState, Rebuilt, RebuiltPart, ExternalsRead, VisibleExternals,
        OwnRecord, ReadAt

LEMMA InitFixedPoint == ASSUME FixedPointInit PROVE FixedPointInv
<1>1. Init
  BY BaselineType DEF FixedPointInit, Init, InputsOK
<1>2. score = [i \in Rank |-> Predict(i, stored[i])]
  BY DEF FixedPointInit, Baseline
<1> QED BY <1>1, <1>2, InitKernel DEF FixedPointInit, FixedPointInv

\* Every pass is a run of the kernel whose scores are the model's answers for the stored
\* states, and at a fixed point these are the states that this very run gives
\* (FixedPointInv).
THEOREM FixedPointInvariant == FixedPointSpec => []FixedPointInv
<1>1. FixedPointInit => FixedPointInv
  BY InitFixedPoint
<1>2. ASSUME FixedPointInv, [FixedPointNext]_fixedPointVars PROVE FixedPointInv'
  <2>1. CASE SimulatorStep
    <3>1. KernelInv'
      BY <1>2, <2>1, KernelStep DEF SimulatorStep, FixedPointInv
    <3>2. UNCHANGED <<score, stored, outcome>> /\ outcome = "running"
      BY <2>1
          DEF SimulatorStep, iterationVars, Next, ApplyCompletion, AdmitArrival, WindowOverflow,
              DispatchHead, DispatchForced, DispatchBase, Dispatch, AdvanceClock, Finished,
              vars, inputs
    <3> QED BY <1>2, <3>1, <3>2 DEF FixedPointInv
  <2>2. CASE Correct
    BY <1>2, <2>2, CorrectKeepsStored
  <2>3. CASE Stop
    <3>1. \A i \in Rank : ViewState(i) = stored[i]
      BY <2>3 DEF Stop, Mismatched
    <3>2. UNCHANGED <<vars, stored>>
      BY <2>3 DEF Stop
    <3>3. KernelInv' /\ UNCHANGED <<start, s_us, a_us, score>>
      BY <1>2, <3>2, KernelStep DEF FixedPointInv, vars, inputs, resultVars
    <3>4. \A i \in Rank : ViewState(i)' = stored'[i]
      BY <3>1, <3>2, <3>3, ViewsUnchanged
    <3> QED BY <1>2, <3>2, <3>3, <3>4 DEF FixedPointInv
  <2>4. CASE Recheck \/ GiveUp \/ Returned \/ UNCHANGED fixedPointVars
    <3>1. UNCHANGED <<vars, stored>> /\ (outcome' = outcome \/ outcome' = "no fixed point")
      BY <2>4 DEF Recheck, GiveUp, Returned, fixedPointVars, iterationVars
    <3>2. KernelInv' /\ UNCHANGED <<start, s_us, a_us, score>>
      BY <1>2, <3>1, KernelStep DEF FixedPointInv, vars, inputs, resultVars
    <3> QED BY <1>2, <3>1, <3>2, ViewsUnchanged DEF FixedPointInv
  <2> QED BY <1>2, <2>1, <2>2, <2>3, <2>4 DEF FixedPointNext
<1> QED BY <1>1, <1>2, PTL DEF FixedPointSpec

\* When the iteration stops, every score is the one an online predictor gives at the
\* job's arrival in that very replay (OnlineAtFixedPoint).
THEOREM FixedPointIsOnline == FixedPointSpec => []OnlineAtFixedPoint
<1>1. FixedPointInv => OnlineAtFixedPoint
  BY DEF FixedPointInv, OnlineAtFixedPoint, ViewState
<1> QED BY <1>1, FixedPointInvariant, PTL

---------------------------------------------------------------------------
(* The frontier of the fixed point.  A pass is determined up to the        *)
(* frontier, because the scores of the jobs that arrive before it are      *)
(* those of the pass before; so are the outcomes a job at the frontier     *)
(* sees.                                                                   *)

\* The state that a schedule gives job i.
StateIn(st, i) == OnlineState(i, Rank, [o \in Rank |-> st[o] + s_us[o]])

LEMMA StateKept ==
  ASSUME UNCHANGED <<a_us, s_us, pol>>
  PROVE  /\ \A st, i : StateIn(st, i)' = StateIn(st', i)
         /\ \A st, ix, sc : RuledBy(st, ix, sc)' = RuledBy(st', ix', sc')
<1>1. \A st, i : StateIn(st, i)' = StateIn(st', i)
  BY DEF StateIn, OnlineState, Rebuilt, RebuiltPart, ExternalsRead, VisibleExternals,
         OwnRecord, ReadAt
<1>2. \A st, ix, sc : RuledBy(st, ix, sc)' = RuledBy(st', ix', sc')
  BY DEF RuledBy, FollowsRule, Handed, Earlier, Picked, StillWaiting, MustGo, SpentBy, ChargedTo,
         FoundWaiting, FreeServer, OnServer
<1> QED BY <1>1, <1>2

\* Schedules that agree on what is completed by a job's arrival give it the same state.
LEMMA SameState ==
  ASSUME NEW i \in Rank, NEW st \in [Rank -> Int], NEW st2 \in [Rank -> Int],
         s_us \in [Rank -> Int],
         \A o \in Rank : /\ st[o] + s_us[o] <= a_us[i] => st2[o] = st[o]
                         /\ st2[o] + s_us[o] <= a_us[i] => st2[o] = st[o]
  PROVE  StateIn(st2, i) = StateIn(st, i)
<1> DEFINE done  == [o \in Rank |-> st[o] + s_us[o]]
           done2 == [o \in Rank |-> st2[o] + s_us[o]]
           own   == {o \in Rank : done[o] <= a_us[i]}
           own2  == {o \in Rank : done2[o] <= a_us[i]}
<1>1. own = own2 /\ \A o \in own : done2[o] = done[o]
  OBVIOUS
<1> HIDE DEF done, done2, own, own2
<1>2. \A h : {OwnRecord(o, done2) : o \in {x \in own : SegmentOf(h, x) = SegmentOf(h, i)}}
               = {OwnRecord(o, done) : o \in {x \in own : SegmentOf(h, x) = SegmentOf(h, i)}}
  BY <1>1 DEF OwnRecord
<1>3. \A h : RebuiltPart(h, i, own2, done2) = RebuiltPart(h, i, own, done)
  BY <1>1, <1>2 DEF RebuiltPart
<1>4. Rebuilt(i, own2, done2) = Rebuilt(i, own, done)
  BY <1>3 DEF Rebuilt
<1> QED BY <1>4 DEF StateIn, OnlineState, own, own2, done, done2

\* The inductive invariant behind the frontier: the stored states are those of the
\* schedule before, and its scores are the present ones for the jobs before the frontier.
\* Once the frontier is gone, the replay that every job is looked at in has settled.
SettledInv ==
  /\ FixedPointInv /\ RuledInv /\ passes \in Nat /\ settled \in Int
  /\ settled # Unsettled =>
       \E st \in [Rank -> Nat], ix \in [Rank -> Rank], sc \in [Rank -> Int] :
         /\ RuledBy(st, ix, sc)
         /\ \A i \in Rank : a_us[i] < settled => sc[i] = score[i]
         /\ \A i \in Rank : stored[i] = StateIn(st, i)
  /\ settled = Unsettled /\ passes > 0 =>
       PassEnded /\ \A i \in Rank : ViewState(i) = stored[i]

LEMMA SettledTypes ==
  ASSUME SettledInv
  PROVE  /\ TraceOK /\ KernelInv /\ Rank \subseteq Nat
         /\ a_us \in [Rank -> Nat] /\ s_us \in [Rank -> 1 .. L] /\ s_us \in [Rank -> Int]
         /\ \A i \in Rank : a_us[i] \in Nat /\ s_us[i] \in Int /\ s_us[i] >= 1
<1>1. KernelInv /\ TraceOK
  BY DEF SettledInv, FixedPointInv, KernelInv, StructureInv, TypeOK, InputsOK
<1> QED BY <1>1, TraceTypes

\* At the end of a pass the jobs up to the frontier see the states stored with them.
LEMMA FrontierHasSettled ==
  ASSUME SettledInv, PassEnded, settled # Unsettled
  PROVE  \A i \in Rank : a_us[i] <= settled => ViewState(i) = stored[i]
<1>0. PICK st \in [Rank -> Nat], ix \in [Rank -> Rank], sc \in [Rank -> Int] :
         /\ RuledBy(st, ix, sc)
         /\ \A i \in Rank : a_us[i] < settled => sc[i] = score[i]
         /\ \A i \in Rank : stored[i] = StateIn(st, i)
  BY DEF SettledInv
<1>1. RuledBy(start, dispatchIndex, score)
  BY FinishedIsRuled DEF SettledInv, PassEnded, RunComplete
<1>2. settled \in Int /\ start \in [Rank -> Nat] /\ TraceOK
  BY <1>1, SettledTypes DEF SettledInv, RuledBy
<1>3. \A o \in Rank : st[o] < settled => start[o] = st[o]
  <2>1. \A i \in Rank : a_us[i] < settled => score[i] = sc[i]
    BY <1>0
  <2> QED BY <1>0, <1>1, <1>2, <2>1, StartsAgree
<1>4. \A o \in Rank : start[o] < settled => st[o] = start[o]
  BY <1>0, <1>1, <1>2, StartsAgree
<1>5. ASSUME NEW i \in Rank, a_us[i] <= settled PROVE StateIn(start, i) = StateIn(st, i)
  <2>1. ASSUME NEW o \in Rank
        PROVE  /\ st[o] + s_us[o] <= a_us[i] => st[o] < settled
               /\ start[o] + s_us[o] <= a_us[i] => start[o] < settled
    <3>1. /\ a_us[i] \in Nat /\ s_us[o] \in Int /\ s_us[o] >= 1
          /\ st[o] \in Nat /\ start[o] \in Nat
      BY <1>2, SettledTypes
    <3> QED BY <1>2, <1>5, <3>1
  <2>2. st \in [Rank -> Int] /\ start \in [Rank -> Int] /\ s_us \in [Rank -> Int]
    BY <1>2, SettledTypes
  <2> QED BY <1>3, <1>4, <2>1, <2>2, SameState
<1>6. \A i : ViewState(i) = StateIn(start, i)
  BY DEF ViewState, StateIn, Completion, Done
<1> QED BY <1>0, <1>5, <1>6

\* So no job sees a state other than the stored one unless the pass looks at it.
LEMMA MismatchesAreFound ==
  ASSUME SettledInv, PassEnded, NEW i \in Rank, i \notin Mismatched
  PROVE  ViewState(i) = stored[i]
<1>1. i \in Checked => ViewState(i) = stored[i]
  BY DEF Mismatched
<1>2. i \notin Checked => settled # Unsettled /\ a_us[i] <= settled
  BY SettledTypes DEF Checked, SettledInv
<1> QED BY <1>1, <1>2, FrontierHasSettled

LEMMA EarliestIsLeast ==
  ASSUME SettledInv, NEW M \in SUBSET Rank, M # {}
  PROVE  /\ EarliestOf(M) \in {a_us[i] : i \in M} /\ EarliestOf(M) \in Nat
         /\ \A i \in M : EarliestOf(M) <= a_us[i]
<1> DEFINE T == {a_us[i] : i \in M}
<1>1. T \in SUBSET Nat /\ T # {}
  BY SettledTypes
<1>2. \E u \in T : \A v \in T : u <= v
  <2> HIDE DEF T
  <2> QED BY <1>1, NatMin
<1>3. \E u \in T : \A i \in M : u <= a_us[i]
  BY <1>2
<1>4. EarliestOf(M) = CHOOSE u \in T : \A i \in M : u <= a_us[i]
  BY DEF EarliestOf
<1> HIDE DEF T
<1>5. EarliestOf(M) \in T /\ \A i \in M : EarliestOf(M) <= a_us[i]
  BY <1>3, <1>4
<1> QED BY <1>1, <1>5 DEF T

\* A correction stores the states of the whole replay and moves the frontier to the first
\* job it rescored.
LEMMA CorrectSettles ==
  ASSUME SettledInv, Correct
  PROVE  SettledInv'
<1>1. /\ PassEnded /\ Mismatched # {} /\ Mismatched \in SUBSET Rank /\ Simulate(Rescored)
      /\ stored' = Stored /\ settled' = EarliestOf(Mismatched) /\ passes' = passes + 1
      /\ UNCHANGED <<a_us, s_us, pol>>
  BY DEF Correct, CanCheck, Mismatched, Checked, Simulate
<1>2. FixedPointInv'
  BY CorrectKeepsStored DEF SettledInv
<1>3. RuledInv'
  <2>1. Init'
    BY <1>1, <1>2 DEF FixedPointInv, KernelInv, StructureInv, TypeOK, Init, Simulate, Idle
  <2> QED BY <2>1, RuledInitial, PTL
<1>4. settled' \in Nat /\ (\A i \in Mismatched : settled' <= a_us[i]) /\ settled' # Unsettled
  <2>1. settled' \in Nat /\ \A i \in Mismatched : settled' <= a_us[i]
    BY <1>1, EarliestIsLeast
  <2> QED BY <2>1 DEF Unsettled
<1>5. RuledBy(start, dispatchIndex, score)
  BY <1>1, FinishedIsRuled DEF SettledInv, PassEnded, RunComplete
<1>6. start \in [Rank -> Nat] /\ dispatchIndex \in [Rank -> Rank] /\ score \in [Rank -> Int]
  BY <1>5 DEF RuledBy
<1>7. \A i \in Rank : a_us[i] < settled' => score[i] = score'[i]
  <2> SUFFICES ASSUME NEW i \in Rank, a_us[i] < settled' PROVE score[i] = score'[i]
    OBVIOUS
  <2>1. a_us[i] \in Nat
    BY SettledTypes
  <2>2. i \notin Mismatched
    BY <1>4, <2>1
  <2> QED BY <1>1, <2>2 DEF Simulate, Rescored
<1>8. \A i \in Rank : stored'[i] = StateIn(start, i)
  <2> SUFFICES ASSUME NEW i \in Rank PROVE stored'[i] = ViewState(i)
    BY DEF ViewState, StateIn, Completion, Done
  <2>1. i \notin Mismatched => ViewState(i) = stored[i]
    BY <1>1, MismatchesAreFound
  <2> QED BY <1>1, <2>1 DEF Stored
<1>9. \E st \in [Rank -> Nat], ix \in [Rank -> Rank], sc \in [Rank -> Int] :
        /\ RuledBy(st, ix, sc)'
        /\ \A i \in Rank : a_us'[i] < settled' => sc[i] = score'[i]
        /\ \A i \in Rank : stored'[i] = StateIn(st, i)'
  <2>1. ASSUME NEW st \in [Rank -> Nat], NEW ix \in [Rank -> Rank], NEW sc \in [Rank -> Int]
        PROVE  /\ RuledBy(st, ix, sc)' = RuledBy(st, ix, sc)
               /\ \A i \in Rank : StateIn(st, i)' = StateIn(st, i)
    BY <1>1, StateKept
  <2> QED BY <1>1, <1>5, <1>6, <1>7, <1>8, <2>1
<1>10. passes' \in Nat /\ settled' \in Int
  BY <1>1, <1>4 DEF SettledInv
<1> QED BY <1>2, <1>3, <1>4, <1>9, <1>10 DEF SettledInv

\* A step of the kernel leaves what earlier passes left behind alone.
LEMMA SimulatorSettles ==
  ASSUME SettledInv, FixedPointInv', SimulatorStep
  PROVE  SettledInv'
<1>1. /\ [Next]_vars /\ ~PassEnded
      /\ UNCHANGED <<a_us, s_us, pol, score, stored, settled, passes, outcome>>
  <2>1. /\ Next /\ Running /\ UNCHANGED <<stored, settled, passes, outcome>>
    BY DEF SimulatorStep, iterationVars
  <2>2. UNCHANGED <<a_us, s_us, pol, score>>
    BY <2>1
    DEF Next, ApplyCompletion, AdmitArrival, WindowOverflow, DispatchHead, DispatchForced,
        DispatchBase, Dispatch, AdvanceClock, Finished, vars, inputs
  <2>3. ~PassEnded
    <3>1. KernelInv
      BY SettledTypes
    <3>2. ndisp \in Nat /\ N \in Nat
      BY <3>1, RunTypes DEF KernelInv
    <3> QED BY <2>1, <3>2 DEF Running, PassEnded
  <2> QED BY <2>1, <2>2, <2>3
<1>2. RuledInv'
  BY <1>1, RuledStep DEF SettledInv
<1>3. ASSUME NEW st \in [Rank -> Nat], NEW ix \in [Rank -> Rank], NEW sc \in [Rank -> Int]
      PROVE  /\ RuledBy(st, ix, sc)' = RuledBy(st, ix, sc)
             /\ \A i \in Rank : StateIn(st, i)' = StateIn(st, i)
  BY <1>1, StateKept
<1>4. ~(settled = Unsettled /\ passes > 0)
  BY <1>1 DEF SettledInv
<1> QED BY <1>1, <1>2, <1>3, <1>4 DEF SettledInv, Unsettled

\* Nothing is simulated: the views stay what they are.
LEMMA CheckSettles ==
  ASSUME SettledInv, FixedPointInv',
         Recheck \/ Stop \/ GiveUp \/ Returned \/ UNCHANGED fixedPointVars
  PROVE  SettledInv'
<1>1. UNCHANGED <<vars, stored>>
  BY DEF Recheck, Stop, GiveUp, Returned, fixedPointVars, iterationVars
<1>2. UNCHANGED <<a_us, s_us, pol, score, start, ndisp>>
  BY <1>1 DEF vars, inputs, resultVars
<1>3. RuledInv'
  BY <1>1, RuledStep DEF SettledInv
<1>4. /\ \A i : ViewState(i)' = ViewState(i)
      /\ PassEnded' = PassEnded
  BY <1>2, ViewsUnchanged DEF PassEnded
<1>5. ASSUME NEW st \in [Rank -> Nat], NEW ix \in [Rank -> Rank], NEW sc \in [Rank -> Int]
      PROVE  /\ RuledBy(st, ix, sc)' = RuledBy(st, ix, sc)
             /\ \A i \in Rank : StateIn(st, i)' = StateIn(st, i)
  BY <1>2, StateKept
<1>6. CASE Recheck \/ Stop
  <2>1. PassEnded /\ \A i \in Rank : ViewState(i) = stored[i]
    BY <1>6, MismatchesAreFound DEF Recheck, Stop, CanCheck
  <2>2. passes' \in Nat /\ (settled' = settled \/ settled' = Unsettled) /\ settled' \in Int
    <3>1. passes \in Nat /\ settled \in Int /\ Unsettled \in Int
      BY DEF SettledInv, Unsettled
    <3>2. passes' = passes + 1 /\ (settled' = settled \/ settled' = Unsettled)
      BY <1>6 DEF Recheck, Stop, Unsettled
    <3> QED BY <3>1, <3>2
  <2> QED BY <1>1, <1>2, <1>3, <1>4, <1>5, <2>1, <2>2 DEF SettledInv, Unsettled
<1>7. CASE GiveUp \/ Returned \/ UNCHANGED fixedPointVars
  <2>1. UNCHANGED <<settled, passes>>
    BY <1>7 DEF GiveUp, Returned, fixedPointVars, iterationVars
  <2> QED BY <1>1, <1>2, <1>3, <1>4, <1>5, <2>1 DEF SettledInv, Unsettled
<1> QED BY <1>6, <1>7

\* The inductive invariant of the iteration: what the frontier leaves behind stays
\* settled (SettledInv).
THEOREM SettledInvariant == FixedPointSpec => []SettledInv
<1>1. FixedPointInit => SettledInv
  <2> SUFFICES ASSUME FixedPointInit PROVE SettledInv
    OBVIOUS
  <2>1. Init
    BY BaselineType DEF FixedPointInit, Init, InputsOK
  <2> QED BY <2>1, RuledInitial, InitFixedPoint DEF FixedPointInit, SettledInv, Unsettled
<1>2. SettledInv /\ FixedPointInv' /\ [FixedPointNext]_fixedPointVars => SettledInv'
  BY SimulatorSettles, CorrectSettles, CheckSettles DEF FixedPointNext
<1> QED BY <1>1, <1>2, FixedPointInvariant, PTL DEF FixedPointSpec

\* Once a replay of corrected scores has ended, every job up to the last earliest mismatch
\* sees the state it was scored from, and the look at all of them finds no mismatch
\* (SettledJobsConsistent): the later arrivals are all that has to be looked at.
THEOREM SettledJobsStay == FixedPointSpec => []SettledJobsConsistent
<1>1. SettledInv => SettledJobsConsistent
  <2> SUFFICES ASSUME SettledInv, PassEnded PROVE SettledJobsConsistent
    BY DEF SettledJobsConsistent
  <2>1. \A i \in Rank : a_us[i] <= settled => ViewState(i) = stored[i]
    <3>1. CASE settled # Unsettled
      BY <3>1, FrontierHasSettled
    <3>2. CASE settled = Unsettled
      <4>1. \A i \in Rank : ~(a_us[i] <= settled)
        BY <3>2, SettledTypes DEF Unsettled
      <4> QED BY <4>1
    <3> QED BY <3>1, <3>2
  <2>2. passes > 0 /\ settled = Unsettled => Mismatched = {}
    BY DEF SettledInv, Mismatched, Checked
  <2> QED BY <2>1, <2>2 DEF SettledJobsConsistent
<1> QED BY <1>1, SettledInvariant, PTL

---------------------------------------------------------------------------
(* How many passes the iteration needs.                                    *)

\* Each correction moves the frontier to a later arrival instant.
PassesCounted ==
  /\ maxPasses \in Nat
  /\ outcome = "running" =>
       passes <= IF settled = Unsettled THEN Cardinality(Arrivals) + 1
                                        ELSE Cardinality({u \in Arrivals : u <= settled})
  /\ outcome = "no fixed point" => maxPasses < Cardinality(Arrivals) + 2

LEMMA ArrivalsFinite == ASSUME TraceOK PROVE IsFiniteSet(Arrivals)
<1>1. a_us \in Surjection(Rank, Arrivals)
  BY TraceTypes DEF Arrivals, Surjection
<1> QED BY <1>1, TraceTypes, FS_Surjection

LEMMA ArrivalCounts ==
  ASSUME SettledInv
  PROVE  /\ IsFiniteSet(Arrivals) /\ Cardinality(Arrivals) \in Nat
         /\ \A v : LET U == {u \in Arrivals : u <= v}
                   IN  Cardinality(U) \in Nat /\ Cardinality(U) <= Cardinality(Arrivals)
<1>2. IsFiniteSet(Arrivals)
  BY SettledTypes, ArrivalsFinite
<1>3. \A U \in SUBSET Arrivals : Cardinality(U) \in Nat /\ Cardinality(U) <= Cardinality(Arrivals)
  BY <1>2, FS_Subset, FS_CardinalityType
<1> QED BY <1>2, <1>3

LEMMA CorrectIsCounted ==
  ASSUME SettledInv, PassesCounted, Correct
  PROVE  PassesCounted'
<1> DEFINE Upto(v) == {u \in Arrivals : u <= v}
<1>1. /\ PassEnded /\ outcome = "running" /\ outcome' = outcome /\ maxPasses' = maxPasses
      /\ Mismatched # {} /\ Mismatched \in SUBSET Rank /\ passes' = passes + 1
      /\ settled' = EarliestOf(Mismatched) /\ Arrivals' = Arrivals
  BY DEF Correct, CanCheck, Mismatched, Checked, Simulate, Arrivals
<1>2. PICK i \in Mismatched : settled' = a_us[i]
  BY <1>1, EarliestIsLeast
<1>3. i \in Rank /\ a_us[i] \in Nat /\ settled' \in Arrivals /\ settled' \in Nat
  BY <1>1, <1>2, SettledTypes DEF Arrivals
<1>4. /\ passes \in Nat /\ settled \in Int /\ Cardinality(Upto(settled')) \in Nat
      /\ Cardinality(Upto(settled)) \in Nat /\ IsFiniteSet(Arrivals)
  BY ArrivalCounts DEF SettledInv
<1>5. settled' \in Upto(settled')
  BY <1>3
<1>6. IsFiniteSet(Upto(settled')) /\ Arrivals \in SUBSET Nat
  BY <1>4, FS_Subset, SettledTypes DEF Arrivals
<1>7. passes + 1 <= Cardinality(Upto(settled'))
  <2>1. CASE settled = Unsettled
    <3>1. passes = 0
      <4>1. ~(\A q \in Rank : ViewState(q) = stored[q])
        BY <1>1 DEF Mismatched
      <4> QED BY <1>4, <2>1, <4>1 DEF SettledInv
    <3>2. Cardinality(Upto(settled')) # 0
      BY <1>5, <1>6, FS_EmptySet
    <3> HIDE DEF Upto
    <3> QED BY <1>4, <3>1, <3>2
  <2>2. CASE settled # Unsettled
    <3>1. settled < settled'
      BY <1>2, <1>3, <1>4, <2>2 DEF Mismatched, Checked
    <3>2. Upto(settled) \in SUBSET (Upto(settled') \ {settled'})
      <4> SUFFICES ASSUME NEW u \in Arrivals, u <= settled PROVE u <= settled' /\ u # settled'
        OBVIOUS
      <4>1. u \in Nat
        BY <1>6
      <4> QED BY <1>3, <1>4, <3>1, <4>1
    <3>3. IsFiniteSet(Upto(settled') \ {settled'})
      BY <1>6, FS_RemoveElement
    <3>4. Cardinality(Upto(settled') \ {settled'}) = Cardinality(Upto(settled')) - 1
      BY <1>5, <1>6, FS_RemoveElement
    <3>5. Cardinality(Upto(settled)) <= Cardinality(Upto(settled') \ {settled'})
      BY <3>2, <3>3, FS_Subset
    <3>6. passes <= Cardinality(Upto(settled))
      BY <1>1, <2>2 DEF PassesCounted
    <3> HIDE DEF Upto
    <3> QED BY <1>4, <3>4, <3>5, <3>6
  <2> QED BY <2>1, <2>2
<1>8. settled' # Unsettled
  BY <1>3 DEF Unsettled
<1> QED BY <1>1, <1>7, <1>8 DEF PassesCounted

LEMMA CountStep ==
  ASSUME SettledInv, PassesCounted, [FixedPointNext]_fixedPointVars
  PROVE  PassesCounted'
<1>1. CASE Correct
  BY <1>1, CorrectIsCounted
<1>2. CASE ~Correct
  <2>1. UNCHANGED <<a_us, maxPasses>> /\ Arrivals' = Arrivals
    <3>1. UNCHANGED <<a_us, maxPasses>>
      BY <1>2
      DEF FixedPointNext, SimulatorStep, Recheck, Stop, GiveUp, Returned, fixedPointVars,
          iterationVars, Next, ApplyCompletion, AdmitArrival, WindowOverflow, DispatchHead,
          DispatchForced, DispatchBase, Dispatch, AdvanceClock, Finished, vars, inputs
    <3> QED BY <3>1 DEF Arrivals
  <2>2. /\ passes \in Nat /\ maxPasses \in Nat /\ Cardinality(Arrivals) \in Nat
        /\ Cardinality({u \in Arrivals : u <= settled}) \in Nat
        /\ Cardinality({u \in Arrivals : u <= settled}) <= Cardinality(Arrivals)
    BY ArrivalCounts DEF SettledInv, PassesCounted
  <2>3. CASE Recheck
    <3>1. passes' = passes + 1 /\ settled' = Unsettled /\ outcome = "running" /\ outcome' = outcome
          /\ settled # Unsettled
      BY <2>3 DEF Recheck, CanCheck, Checked
    <3>2. passes <= Cardinality({u \in Arrivals : u <= settled})
      BY <3>1 DEF PassesCounted
    <3> QED BY <2>1, <2>2, <3>1, <3>2 DEF PassesCounted
  <2>4. CASE GiveUp
    <3>1. passes >= maxPasses /\ outcome = "running" /\ outcome' = "no fixed point"
      BY <2>4 DEF GiveUp, CanCheck
    <3>2. passes <= IF settled = Unsettled THEN Cardinality(Arrivals) + 1
                                           ELSE Cardinality({u \in Arrivals : u <= settled})
      BY <3>1 DEF PassesCounted
    <3>3. maxPasses < Cardinality(Arrivals) + 2
      <4> DEFINE all == Cardinality(Arrivals)
                 some == Cardinality({u \in Arrivals : u <= settled})
      <4>1. /\ passes \in Nat /\ maxPasses \in Nat /\ all \in Nat /\ some \in Nat
            /\ some <= all /\ maxPasses <= passes /\ (passes <= all + 1 \/ passes <= some)
        BY <2>2, <3>1, <3>2
      <4> HIDE DEF all, some
      <4>2. maxPasses < all + 2
        BY <4>1
      <4> QED BY <4>2 DEF all
    <3> QED BY <2>1, <2>2, <3>1, <3>3 DEF PassesCounted
  <2>5. CASE Stop
    <3>1. outcome' = "fixed point"
      BY <2>5 DEF Stop
    <3> QED BY <2>1, <2>2, <3>1 DEF PassesCounted
  <2>6. CASE SimulatorStep \/ Returned \/ UNCHANGED fixedPointVars
    <3>1. UNCHANGED <<passes, settled, outcome>>
      BY <2>6 DEF SimulatorStep, Returned, fixedPointVars, iterationVars
    <3> QED BY <2>1, <3>1 DEF PassesCounted
  <2> QED BY <1>2, <2>3, <2>4, <2>5, <2>6 DEF FixedPointNext
<1> QED BY <1>1, <1>2

\* refine_policy_online gives up only with a pass budget below the number of arrival
\* instants and two: a correction per instant, the look at every job, and the last one.
THEOREM EnoughPasses ==
  FixedPointSpec => [](outcome = "no fixed point" => maxPasses < Cardinality(Arrivals) + 2)
<1>1. FixedPointInit => PassesCounted
  <2> SUFFICES ASSUME FixedPointInit PROVE PassesCounted
    OBVIOUS
  <2>1. maxPasses \in Nat /\ passes = 0 /\ settled = Unsettled /\ outcome = "running"
    BY PassBudgetAssumption DEF FixedPointInit, PassBudgetAssumption
  <2>2. Cardinality(Arrivals) \in Nat
    <3>1. IsFiniteSet(Arrivals)
      BY ArrivalsFinite DEF FixedPointInit
    <3> QED BY <3>1, FS_CardinalityType
  <2> QED BY <2>1, <2>2 DEF PassesCounted
<1>2. SettledInv /\ PassesCounted /\ [FixedPointNext]_fixedPointVars => PassesCounted'
  BY CountStep
<1>3. PassesCounted => (outcome = "no fixed point" => maxPasses < Cardinality(Arrivals) + 2)
  BY DEF PassesCounted
<1> QED BY <1>1, <1>2, <1>3, SettledInvariant, PTL DEF FixedPointSpec

---------------------------------------------------------------------------
(* The consistent refinement.                                              *)

\* Outcomes the score of the source log reads and the replay completes too late.
LateUsed(i) == {o \in Used(i) : Late(o, i)}

ConsistentInv ==
  /\ KernelInv
  /\ avail \in Logs
  /\ withheld \in [Rank -> SUBSET Rank] /\ \A i \in Rank : withheld[i] \subseteq Used(i)
  /\ ReadsOnlyCompleted

\* Inclusion and exclusion: the outcomes of either history, counted by the three keys.
LEMMA CountByKeys ==
  ASSUME NEW i \in Rank, NEW S, S \subseteq Rank
  PROVE  ByKey([k \in Keys |-> Cardinality({o \in S : InGroup(k, o, i)})])
           = Cardinality({o \in S : \E h \in Histories : SharesHistory(h, o, i)})
<1> DEFINE U == {o \in S : InGroup("user", o, i)}
           E == {o \in S : InGroup("exercise", o, i)}
           B == {o \in S : InGroup("pair", o, i)}
           A == {o \in S : \E h \in Histories : SharesHistory(h, o, i)}
           c == [k \in Keys |-> Cardinality({o \in S : InGroup(k, o, i)})]
<1>1. A = U \cup E /\ B = U \cap E
  BY DEF InGroup, Histories
<1>2. IsFiniteSet(U) /\ IsFiniteSet(E)
  <2>1. IsFiniteSet(Rank)
    BY SizeAssumption, FS_Interval DEF SizeAssumption, Rank
  <2>2. U \in SUBSET Rank /\ E \in SUBSET Rank
    OBVIOUS
  <2> QED BY <2>1, <2>2, FS_Subset
<1>3. Cardinality(U \cup E) = Cardinality(U) + Cardinality(E) - Cardinality(U \cap E)
  BY <1>2, FS_Union
<1>4. c["user"] = Cardinality(U) /\ c["exercise"] = Cardinality(E) /\ c["pair"] = Cardinality(B)
  BY DEF Keys, Histories
<1>5. ByKey(c) = Cardinality(U) + Cardinality(E) - Cardinality(B)
  BY <1>4 DEF ByKey
<1> HIDE DEF U, E, B, A, c
<1>6. ByKey(c) = Cardinality(A)
  BY <1>1, <1>3, <1>5
<1> QED BY <1>6 DEF A, c

LEMMA PrematureIsCount ==
  ASSUME NEW i \in Rank
  PROVE  /\ IsFiniteSet(Used(i)) /\ IsFiniteSet(LateUsed(i))
         /\ Premature(i) = Cardinality(LateUsed(i)) /\ Premature(i) \in Nat
<1> DEFINE S == {o \in Rank : avail[o] <= a_us[i]}
           T == {o \in S : ~Late(o, i)}
           D == {o \in Used(i) : ~Late(o, i)}
<1>1. IsFiniteSet(Used(i))
  <2>1. IsFiniteSet(Rank)
    BY SizeAssumption, FS_Interval DEF SizeAssumption, Rank
  <2>2. Used(i) \in SUBSET Rank
    BY DEF Used
  <2> QED BY <2>1, <2>2, FS_Subset
<1>2. ByKey([k \in Keys |-> Query(k, i)]) = Cardinality(Used(i))
  <2>1. \A k : {o \in Rank : InGroup(k, o, i) /\ avail[o] <= a_us[i]} = {o \in S : InGroup(k, o, i)}
    OBVIOUS
  <2>2. [k \in Keys |-> Query(k, i)] = [k \in Keys |-> Cardinality({o \in S : InGroup(k, o, i)})]
    BY <2>1 DEF Query
  <2>3. Used(i) = {o \in S : \E h \in Histories : SharesHistory(h, o, i)}
    BY DEF Used
  <2>4. S \subseteq Rank
    OBVIOUS
  <2> HIDE DEF S
  <2> QED BY <2>2, <2>3, <2>4, CountByKeys
<1>3. ByKey([k \in Keys |-> DoneInQuery(k, i)]) = Cardinality(D)
  <2>1. \A k : {o \in Rank : InGroup(k, o, i) /\ avail[o] <= a_us[i] /\ ~Late(o, i)}
                 = {o \in T : InGroup(k, o, i)}
    OBVIOUS
  <2>2. [k \in Keys |-> DoneInQuery(k, i)]
          = [k \in Keys |-> Cardinality({o \in T : InGroup(k, o, i)})]
    BY <2>1 DEF DoneInQuery
  <2>3. D = {o \in T : \E h \in Histories : SharesHistory(h, o, i)}
    BY DEF Used
  <2>4. T \subseteq Rank
    OBVIOUS
  <2> HIDE DEF T, D
  <2> QED BY <2>2, <2>3, <2>4, CountByKeys
<1>4. IsFiniteSet(LateUsed(i)) /\ Cardinality(LateUsed(i)) = Cardinality(Used(i)) - Cardinality(D)
      /\ Cardinality(LateUsed(i)) \in Nat
  <2>1. LateUsed(i) = Used(i) \ D /\ Used(i) \cap D = D
    BY DEF LateUsed
  <2> HIDE DEF D
  <2>2. IsFiniteSet(Used(i) \ D)
        /\ Cardinality(Used(i) \ D) = Cardinality(Used(i)) - Cardinality(Used(i) \cap D)
    BY <1>1, FS_Difference
  <2> QED BY <2>1, <2>2, FS_CardinalityType
<1>5. Premature(i) = ByKey([k \in Keys |-> Query(k, i)]) - ByKey([k \in Keys |-> DoneInQuery(k, i)])
  BY DEF Premature
<1> HIDE DEF D
<1> QED BY <1>1, <1>2, <1>3, <1>4, <1>5

\* The longest wait of a finished replay exists and bounds every wait.
LEMMA LongestWaitBounds ==
  ASSUME KernelInv, PassEnded
  PROVE  LongestWait \in Int /\ \A i \in Rank : Wait(i) \in Int /\ Wait(i) <= LongestWait
<1>1. \A i \in Rank : Wait(i) \in Int
  BY EndedPass DEF Wait
<1> DEFINE IsMax(w, n) == /\ \E i \in 0 .. n : w = Wait(i)
                          /\ \A i \in 0 .. n : Wait(i) <= w
           Bad == {n \in 0 .. N - 1 : ~\E w \in Int : IsMax(w, n)}
<1>2. N \in Nat \ {0} /\ Rank = 0 .. N - 1
  BY SizeAssumption DEF SizeAssumption, Rank
<1>3. Bad = {}
  <2> SUFFICES ASSUME Bad # {} PROVE FALSE
    OBVIOUS
  <2>1. Bad \in SUBSET Nat
    BY <1>2
  <2>2. PICK n \in Bad : \A m \in Bad : n <= m
    BY <2>1, NatMin
  <2>3. n \in Nat /\ n \in Rank /\ Wait(n) \in Int
    BY <1>1, <1>2
  <2>4. CASE n = 0
    <3>1. IsMax(Wait(0), 0)
      BY <1>1, <2>3, <2>4
    <3> QED BY <2>2, <2>3, <2>4, <3>1
  <2>5. CASE n > 0
    <3>1. n - 1 \in 0 .. N - 1
      BY <1>2, <2>3, <2>5
    <3>6. n - 1 \notin Bad
      <4> SUFFICES ASSUME n - 1 \in Bad PROVE FALSE
        OBVIOUS
      <4>1. n <= n - 1
        BY <2>2
      <4> QED BY <2>3, <4>1
    <3>2. PICK w \in Int : IsMax(w, n - 1)
      BY <3>1, <3>6
    <3>3. 0 .. n = (0 .. n - 1) \cup {n}
      BY <2>3
    <3>4. CASE Wait(n) <= w
      <4>1. IsMax(w, n)
        BY <3>2, <3>3, <3>4
      <4> QED BY <2>2, <4>1
    <3>5. CASE ~(Wait(n) <= w)
      <4>1. \A i \in 0 .. n - 1 : Wait(i) \in Int
        BY <1>1, <1>2, <2>3
      <4>2. \A i \in 0 .. n : Wait(i) <= Wait(n)
        BY <2>3, <3>2, <3>3, <3>5, <4>1
      <4>3. IsMax(Wait(n), n)
        BY <2>3, <4>2
      <4> QED BY <2>2, <2>3, <4>3
    <3> QED BY <3>4, <3>5
  <2> QED BY <2>3, <2>4, <2>5
<1>4. \E w \in Int : IsMax(w, N - 1)
  BY <1>2, <1>3
<1>5. \E w \in {Wait(i) : i \in Rank} : \A i \in Rank : Wait(i) <= w
  BY <1>2, <1>4
<1>6. LongestWait \in {Wait(i) : i \in Rank} /\ \A i \in Rank : Wait(i) <= LongestWait
  BY <1>5 DEF LongestWait
<1> QED BY <1>1, <1>6

\* The time window of the list misses no premature outcome.
LEMMA ListIsComplete ==
  ASSUME KernelInv, PassEnded, avail \in Logs, NEW i \in Rank
  PROVE  Listed(i) = LateUsed(i)
<1> SUFFICES ASSUME NEW o \in Used(i), Late(o, i) PROVE avail[o] >= a_us[i] - LongestWait
  BY DEF Listed, Recent, LateUsed
<1>1. o \in Rank
  BY DEF Used
<1>2. avail[o] \in Int /\ avail[o] >= a_us[o] + s_us[o]
  <2>1. PICK extra \in [Rank -> OverCap] : avail = [j \in Rank |-> a_us[j] + s_us[j] + extra[j]]
    BY DEF Logs
  <2>2. extra[o] \in Nat
    BY <1>1, <2>1, OverCapAssumption DEF OverCapAssumption
  <2>3. a_us[o] \in Int /\ s_us[o] \in Int
    BY <1>1, EndedPass
  <2> QED BY <1>1, <2>1, <2>2, <2>3
<1>3. LongestWait \in Int /\ Wait(o) <= LongestWait /\ Wait(o) = start[o] - a_us[o]
  BY <1>1, LongestWaitBounds DEF Wait
<1>4. start[o] + s_us[o] > a_us[i] /\ start[o] \in Int /\ a_us[o] \in Int /\ s_us[o] \in Int
      /\ a_us[i] \in Int
  BY <1>1, EndedPass DEF Late, Done
<1> QED BY <1>2, <1>3, <1>4

\* What is withheld and late is part of what is late, so the checks of the code pass.
LEMMA ChecksPass ==
  ASSUME ConsistentInv, PassEnded
  PROVE  /\ ~CheckFails
         /\ \A i \in Rank : Uncovered(i) = 0 => LateUsed(i) \subseteq withheld[i]
         /\ \A i \in Rank : Uncovered(i) \in Nat
<1>1. ASSUME NEW i \in Rank
      PROVE  /\ Uncovered(i) \in Nat /\ Cardinality(Listed(i)) = Premature(i)
             /\ Uncovered(i) = 0 => LateUsed(i) \subseteq withheld[i]
  <2> DEFINE C == {o \in withheld[i] : Late(o, i)}
  <2>1. C \in SUBSET LateUsed(i)
    BY DEF ConsistentInv, LateUsed
  <2>2. IsFiniteSet(C) /\ Cardinality(C) <= Cardinality(LateUsed(i))
        /\ (Cardinality(C) = Cardinality(LateUsed(i)) => C = LateUsed(i))
    BY <2>1, PrematureIsCount, FS_Subset
  <2>3. Cardinality(C) \in Nat
    BY <2>2, FS_CardinalityType
  <2>4. Premature(i) = Cardinality(LateUsed(i)) /\ Premature(i) \in Nat
    BY PrematureIsCount
  <2>5. Uncovered(i) = Premature(i) - Cardinality(C)
    BY DEF Uncovered, Covered
  <2>6. C \subseteq withheld[i]
    OBVIOUS
  <2>7. Listed(i) = LateUsed(i)
    BY ListIsComplete DEF ConsistentInv
  <2> HIDE DEF C
  <2> QED BY <2>2, <2>3, <2>4, <2>5, <2>6, <2>7
<1>2. ~CheckFails
  <2>1. \A i \in Rank : ~(Uncovered(i) < 0)
    BY <1>1
  <2> QED BY <1>1, <2>1 DEF CheckFails, Affected
<1> QED BY <1>1, <1>2

\* A pass that adds nothing has nothing left to add.
LEMMA FinishedIsConsistent ==
  ASSUME ConsistentInv, Finish
  PROVE  \A i \in Rank : LateUsed(i) \subseteq withheld[i]
<1> SUFFICES ASSUME NEW i \in Rank PROVE LateUsed(i) \subseteq withheld[i]
  OBVIOUS
<1>1. PassEnded /\ Additions[i] = {}
  BY DEF Finish, CanDetect
<1>2. CASE i \in Affected
  <2>1. Listed(i) \ withheld[i] = {}
    BY <1>1, <1>2 DEF Additions
  <2> QED BY <1>1, <2>1, ListIsComplete DEF ConsistentInv
<1>3. CASE i \notin Affected
  <2>1. ~(Uncovered(i) > 0) /\ Uncovered(i) \in Nat
    BY <1>1, <1>3, ChecksPass DEF Affected
  <2>2. Uncovered(i) = 0
    BY <2>1
  <2> QED BY <1>1, <2>2, ChecksPass
<1> QED BY <1>2, <1>3

\* A pass that adds something withholds only outcomes the source log's score reads.
LEMMA WithholdKeeps ==
  ASSUME ConsistentInv, Withhold
  PROVE  ConsistentInv'
<1>1. /\ PassEnded /\ Simulate(Corrected) /\ withheld' = Grown /\ outcome' = outcome
      /\ outcome = "running" /\ UNCHANGED <<avail, a_us, s_us>>
  BY DEF Withhold, CanDetect, Simulate
<1>2. \A i \in Rank : Additions[i] \subseteq Used(i) /\ withheld[i] \subseteq Used(i)
                      /\ Used(i) \subseteq Rank \ {i}
  BY DEF Additions, Listed, Recent, Used, SharesHistory, ConsistentInv
<1>3. withheld' \in [Rank -> SUBSET Rank] /\ \A i \in Rank : withheld'[i] \subseteq Used(i)
  BY <1>1, <1>2 DEF Grown
<1>4. Corrected \in [Rank -> Scores]
  <2>1. ASSUME NEW i \in Rank PROVE ScoreOf(i, Grown[i]) \in Scores
    <3>1. Used(i) \ Grown[i] \in SUBSET (Rank \ {i})
      BY <1>2
    <3> QED BY <3>1, PredictedScore DEF ScoreOf
  <2>2. score \in [Rank -> Scores]
    BY DEF ConsistentInv, KernelInv, StructureInv, TypeOK, InputsOK
  <2> QED BY <2>1, <2>2 DEF Corrected
<1>5. KernelInv'
  BY <1>1, <1>4, PassStarts DEF ConsistentInv, KernelInv, StructureInv, TypeOK, InputsOK
<1>6. avail' \in Logs' /\ \A i \in Rank : Used(i)' = Used(i)
  BY <1>1 DEF Logs, Used, ConsistentInv
<1>7. ReadsOnlyCompleted'
  BY <1>1 DEF ReadsOnlyCompleted
<1> QED BY <1>3, <1>5, <1>6, <1>7 DEF ConsistentInv

\* What is withheld from a job was used by its original score, and when the refinement has
\* ended well no score reads what its replay had not completed (ConsistentInv).
THEOREM ConsistentInvariant == ConsistentSpec => []ConsistentInv
<1>1. ConsistentInit => ConsistentInv
  <2> SUFFICES ASSUME ConsistentInit PROVE ConsistentInv
    OBVIOUS
  <2>1. Init
    BY BaselineType DEF ConsistentInit, Init, InputsOK
  <2> QED BY <2>1, InitKernel DEF ConsistentInit, ConsistentInv, ReadsOnlyCompleted
<1>2. ASSUME ConsistentInv, [ConsistentNext]_consistentVars PROVE ConsistentInv'
  <2>1. CASE ReplayStep
    <3>1. KernelInv'
      BY <1>2, <2>1, KernelStep DEF ReplayStep, ConsistentInv
    <3>2. UNCHANGED <<a_us, s_us>>
      BY <2>1
          DEF ReplayStep, Next, ApplyCompletion, AdmitArrival, WindowOverflow, DispatchHead,
              DispatchForced, DispatchBase, Dispatch, AdvanceClock, Finished, vars, inputs
    <3>3. UNCHANGED <<avail, withheld, outcome>> /\ outcome = "running"
      BY <2>1 DEF ReplayStep, refinementVars
    <3>4. Logs' = Logs /\ \A i \in Rank : Used(i)' = Used(i)
      BY <3>2, <3>3 DEF Logs, Used
    <3> QED BY <1>2, <3>1, <3>3, <3>4 DEF ConsistentInv, ReadsOnlyCompleted
  <2>2. CASE Withhold
    BY <1>2, <2>2, WithholdKeeps
  <2>3. CASE Finish
    <3>1. UNCHANGED <<vars, avail, withheld>>
      BY <2>3 DEF Finish
    <3>2. KernelInv' /\ UNCHANGED <<a_us, s_us, start>>
      BY <1>2, <3>1, KernelStep DEF ConsistentInv, vars, inputs, resultVars
    <3>3. Logs' = Logs /\ \A i \in Rank : Used(i)' = Used(i)
      BY <3>1, <3>2 DEF Logs, Used
    <3>4. \A i \in Rank : \A o \in Used(i) \ withheld[i] : Done(o) <= a_us[i]
      <4> SUFFICES ASSUME NEW i \in Rank, NEW o \in Used(i) \ withheld[i]
                   PROVE  Done(o) <= a_us[i]
        OBVIOUS
      <4>1. ~Late(o, i)
        BY <1>2, <2>3, FinishedIsConsistent DEF LateUsed
      <4>2. Done(o) \in Int /\ a_us[i] \in Int
        BY <1>2, <2>3, EndedPass DEF ConsistentInv, Finish, CanDetect, Used
      <4> QED BY <4>1, <4>2 DEF Late
    <3>5. ReadsOnlyCompleted'
      BY <3>1, <3>2, <3>3, <3>4 DEF ReadsOnlyCompleted, Done
    <3> QED BY <1>2, <3>1, <3>2, <3>3, <3>5 DEF ConsistentInv
  <2>4. CASE Over \/ UNCHANGED consistentVars
    <3>1. UNCHANGED <<vars, avail, withheld, outcome>>
      BY <2>4 DEF Over, consistentVars, refinementVars
    <3>2. KernelInv' /\ UNCHANGED <<a_us, s_us, start>>
      BY <1>2, <3>1, KernelStep DEF ConsistentInv, vars, inputs, resultVars
    <3>3. Logs' = Logs /\ \A i \in Rank : Used(i)' = Used(i)
      BY <3>1, <3>2 DEF Logs, Used
    <3>4. ReadsOnlyCompleted'
      BY <1>2, <3>1, <3>2, <3>3 DEF ConsistentInv, ReadsOnlyCompleted, Done
    <3> QED BY <1>2, <3>1, <3>2, <3>3, <3>4 DEF ConsistentInv
  <2> QED BY <1>2, <2>1, <2>2, <2>3, <2>4 DEF ConsistentNext
<1> QED BY <1>1, <1>2, PTL DEF ConsistentSpec

\* In every finished replay of the refinement the count by prefix sums, the withheld
\* outcomes and the list agree, and no assertion of the code fails (ChecksAgree).
THEOREM ChecksNeverFail == ConsistentSpec => []ChecksAgree
<1>1. ConsistentInv => ChecksAgree
  <2> SUFFICES ASSUME ConsistentInv, PassEnded PROVE ChecksAgree
    BY DEF ChecksAgree
  <2>1. \A i \in Rank : Listed(i) = LateUsed(i) /\ Premature(i) = Cardinality(LateUsed(i))
    BY ListIsComplete, PrematureIsCount DEF ConsistentInv
  <2> QED BY <2>1, ChecksPass DEF ChecksAgree, LateUsed
<1> QED BY <1>1, ConsistentInvariant, PTL

\* The final scores read only outcomes the replay had completed (ReadsOnlyCompleted).
THEOREM FinalScoresAreConsistent == ConsistentSpec => []ReadsOnlyCompleted
  BY ConsistentInvariant, PTL DEF ConsistentInv

---------------------------------------------------------------------------
(* The order records are read in, and the newest of a set of records.      *)

Item == [at : Int, zero : BOOLEAN, row : Nat]

LEMMA NewerIsOrder ==
  ASSUME NEW x \in Item, NEW y \in Item, NEW z \in Item
  PROVE  /\ Newer(x, y) => ~Newer(y, x)
         /\ Newer(x, y) /\ Newer(y, z) => Newer(x, z)
         /\ x.row # y.row => Newer(x, y) \/ Newer(y, x)
  BY DEF Newer, Item

NewestOf(S, room) == {x \in S : Cardinality({y \in S : Newer(y, x)}) < room}

LEMMA NewestOfNone ==
  ASSUME NEW S, IsFiniteSet(S), NEW room
  PROVE  NewestOf(S, 0) = {} /\ NewestOf({}, room) = {}
<1>1. ASSUME NEW x \in S PROVE ~(Cardinality({y \in S : Newer(y, x)}) < 0)
  <2> DEFINE A == {y \in S : Newer(y, x)}
  <2>1. IsFiniteSet(A)
    BY FS_Subset
  <2>2. Cardinality(A) \in Nat
    BY <2>1, FS_CardinalityType
  <2> HIDE DEF A
  <2>3. ~(Cardinality(A) < 0)
    BY <2>2
  <2> QED BY <2>3 DEF A
<1> QED BY <1>1 DEF NewestOf

\* A record newer than all others takes one place and leaves the rest of the room.
LEMMA NewestOfMore ==
  ASSUME NEW S, IsFiniteSet(S), NEW m, m \notin S, NEW room \in Nat, ~Newer(m, m),
         \A x \in S : Newer(m, x) /\ ~Newer(x, m)
  PROVE  NewestOf(S \cup {m}, room + 1) = {m} \cup NewestOf(S, room)
<1> DEFINE T == S \cup {m}
           Above(x, R) == {y \in R : Newer(y, x)}
<1>1. Above(m, T) = {}
  OBVIOUS
<1>2. Cardinality(Above(m, T)) < room + 1
  <2>1. Cardinality({}) = 0
    BY FS_EmptySet
  <2> QED BY <1>1, <2>1
<1>3. ASSUME NEW x \in S
      PROVE  Cardinality(Above(x, T)) < room + 1 <=> Cardinality(Above(x, S)) < room
  <2>1. Above(x, T) = Above(x, S) \cup {m} /\ m \notin Above(x, S)
    OBVIOUS
  <2>2. IsFiniteSet(Above(x, S))
    BY FS_Subset
  <2>3. Cardinality(Above(x, S)) \in Nat
    BY <2>2, FS_CardinalityType
  <2>4. Cardinality(Above(x, S) \cup {m}) = Cardinality(Above(x, S)) + 1
    BY <2>1, <2>2, FS_AddElement
  <2> HIDE DEF Above
  <2> QED BY <2>1, <2>3, <2>4
<1>4. NewestOf(T, room + 1) = {x \in T : Cardinality(Above(x, T)) < room + 1}
      /\ NewestOf(S, room) = {x \in S : Cardinality(Above(x, S)) < room}
  BY DEF NewestOf
<1> HIDE DEF Above
<1> QED BY <1>2, <1>3, <1>4

---------------------------------------------------------------------------
(* Merging two lists from their ends reads the newest of both.             *)

\* Both lists hold records in read order, and no row is in both.
Mergeable(ext, done) ==
  /\ ext \in Seq(Item) /\ done \in Seq(Rank) /\ \A o \in Rank : Release[o] \in Int
  /\ \A p, q \in 1 .. Len(ext) : p < q => Newer(ext[q], ext[p])
  /\ \A p, q \in 1 .. Len(done) :
       p < q => Newer(OwnRecord(done[q], Release), OwnRecord(done[p], Release))
  /\ \A p \in 1 .. Len(ext) : \A o \in Rank : ext[p].row # JobRow(o)

\* The first e records of one and the first o of the other.
Merged(ext, done, e, o) ==
  {ext[p] : p \in 1 .. e} \cup {OwnRecord(done[p], Release) : p \in 1 .. o}

NewestRows(ext, done, e, o, room) == {x.row : x \in NewestOf(Merged(ext, done, e, o), room)}

\* The next record is taken from the external ones.
TakesExternal(ext, done, e, o) == e > 0 /\ (o = 0 \/ ExternalFirst(ext[e], done[o]))

LEMMA OwnRecordType ==
  ASSUME NEW o \in Rank, Release[o] \in Int
  PROVE  OwnRecord(o, Release) \in Item /\ OwnRecord(o, Release).row = JobRow(o)
  BY RowAssumption DEF OwnRecord, Item, RowAssumption

LEMMA MergedFinite ==
  ASSUME NEW ext, NEW done, NEW e \in Nat, NEW o \in Nat
  PROVE  IsFiniteSet(Merged(ext, done, e, o))
<1>1. IsFiniteSet(1 .. e) /\ IsFiniteSet(1 .. o)
  BY FS_Interval
<1>2. IsFiniteSet({ext[p] : p \in 1 .. e})
  <2> DEFINE f == [p \in 1 .. e |-> ext[p]]
  <2>1. f \in Surjection(1 .. e, {ext[p] : p \in 1 .. e})
    BY DEF Surjection
  <2> QED BY <1>1, <2>1, FS_Surjection
<1>3. IsFiniteSet({OwnRecord(done[p], Release) : p \in 1 .. o})
  <2> DEFINE f == [p \in 1 .. o |-> OwnRecord(done[p], Release)]
  <2>1. f \in Surjection(1 .. o, {OwnRecord(done[p], Release) : p \in 1 .. o})
    BY DEF Surjection
  <2> QED BY <1>1, <2>1, FS_Surjection
<1> QED BY <1>2, <1>3, FS_Union DEF Merged

\* The newer of the two last records is the newest of all.
LEMMA LastOfRecords ==
  ASSUME NEW ext, NEW done, Mergeable(ext, done), NEW e \in 1 .. Len(ext), NEW o \in 0 .. Len(done),
         TakesExternal(ext, done, e, o), NEW room \in Nat
  PROVE  NewestRows(ext, done, e, o, room + 1)
           = {ext[e].row} \cup NewestRows(ext, done, e - 1, o, room)
<1> DEFINE S == Merged(ext, done, e - 1, o)
           m == ext[e]
<1>1. /\ e \in Nat /\ o \in Nat /\ e - 1 \in Nat /\ Len(ext) \in Nat /\ Len(done) \in Nat
      /\ \A p \in 1 .. Len(ext) : ext[p] \in Item
      /\ \A p \in 1 .. Len(done) : done[p] \in Rank /\ Release[done[p]] \in Int
  BY DEF Mergeable
<1>2. \A p \in 1 .. o : OwnRecord(done[p], Release) \in Item /\ OwnRecord(done[p], Release).row = JobRow(done[p])
  BY <1>1, OwnRecordType
<1>3. ASSUME NEW p \in 1 .. e - 1 PROVE ext[p] \in Item /\ Newer(m, ext[p])
  BY <1>1, <1>3, SMTT(30) DEF Mergeable
<1>4. ASSUME NEW p \in 1 .. o PROVE Newer(m, OwnRecord(done[p], Release))
  <2>1. Newer(m, OwnRecord(done[o], Release))
    <3> DEFINE x == OwnRecord(done[o], Release)
    <3>1. x.at = Release[done[o]] /\ x.row = JobRow(done[o]) /\ x.zero = FALSE
      BY DEF OwnRecord
    <3>2. ExternalFirst(ext[e], done[o]) /\ m \in Item
      BY <1>1, <1>4 DEF TakesExternal
    <3> HIDE DEF x
    <3>3. Newer(m, x)
      BY <3>1, <3>2 DEF ExternalFirst, Newer, Item
    <3> QED BY <3>3 DEF x
  <2>2. CASE p < o
    <3>1. Newer(OwnRecord(done[o], Release), OwnRecord(done[p], Release))
      BY <1>1, <1>4, <2>2 DEF Mergeable
    <3> QED BY <1>1, <1>2, <1>4, <2>1, <3>1, NewerIsOrder
  <2>3. CASE p = o
    BY <2>1, <2>3
  <2> QED BY <1>1, <1>4, <2>2, <2>3
<1>5. \A x \in S : x \in Item /\ Newer(m, x)
  BY <1>2, <1>3, <1>4 DEF Merged
<1>6. m \in Item /\ ~Newer(m, m)
  BY <1>1, NewerIsOrder
<1>7. \A x \in S : Newer(m, x) /\ ~Newer(x, m)
  BY <1>5, <1>6, NewerIsOrder
<1>8. m \notin S
  BY <1>6, <1>7
<1>9. Merged(ext, done, e, o) = S \cup {m}
  <2>1. 1 .. e = (1 .. e - 1) \cup {e}
    BY <1>1
  <2> QED BY <2>1 DEF Merged
<1>10. NewestOf(S \cup {m}, room + 1) = {m} \cup NewestOf(S, room)
  <2>1. IsFiniteSet(S)
    BY <1>1, MergedFinite
  <2> HIDE DEF S, m
  <2> QED BY <1>6, <1>7, <1>8, <2>1, NewestOfMore
<1> QED BY <1>9, <1>10 DEF NewestRows

LEMMA LastOfCompleted ==
  ASSUME NEW ext, NEW done, Mergeable(ext, done), NEW e \in 0 .. Len(ext), NEW o \in 1 .. Len(done),
         ~TakesExternal(ext, done, e, o), NEW room \in Nat
  PROVE  NewestRows(ext, done, e, o, room + 1)
           = {JobRow(done[o])} \cup NewestRows(ext, done, e, o - 1, room)
<1> DEFINE S == Merged(ext, done, e, o - 1)
           m == OwnRecord(done[o], Release)
<1>1. /\ e \in Nat /\ o \in Nat /\ o - 1 \in Nat /\ Len(ext) \in Nat /\ Len(done) \in Nat
      /\ \A p \in 1 .. Len(ext) : ext[p] \in Item
      /\ \A p \in 1 .. Len(done) : done[p] \in Rank /\ Release[done[p]] \in Int
  BY DEF Mergeable
<1>2. \A p \in 1 .. o : OwnRecord(done[p], Release) \in Item /\ OwnRecord(done[p], Release).row = JobRow(done[p])
  BY <1>1, OwnRecordType
<1>3. ASSUME NEW p \in 1 .. o - 1 PROVE Newer(m, OwnRecord(done[p], Release))
  BY <1>1, <1>3 DEF Mergeable
<1>4. ASSUME NEW p \in 1 .. e PROVE ext[p] \in Item /\ Newer(m, ext[p])
  <2>1. ext[e] \in Item /\ e \in 1 .. Len(ext) /\ ext[e].row # JobRow(done[o])
    BY <1>1, <1>4 DEF Mergeable
  <2>2. Newer(m, ext[e])
    <3>1. m \in Item /\ m.row # ext[e].row
      BY <1>1, <1>2, <2>1
    <3>2. ~Newer(ext[e], m)
      <4>1. m.at = Release[done[o]] /\ m.row = JobRow(done[o]) /\ m.zero = FALSE
        BY DEF OwnRecord
      <4>2. ~ExternalFirst(ext[e], done[o])
        BY <1>1, <1>4 DEF TakesExternal
      <4> HIDE DEF m
      <4> QED BY <2>1, <4>1, <4>2 DEF ExternalFirst, Newer, Item
    <3> QED BY <2>1, <3>1, <3>2, NewerIsOrder
  <2>3. CASE p < e
    <3>1. Newer(ext[e], ext[p])
      BY <1>1, <1>4, <2>3 DEF Mergeable
    <3> QED BY <1>1, <1>2, <1>4, <2>1, <2>2, <3>1, NewerIsOrder, SMTT(30)
  <2>4. CASE p = e
    BY <2>1, <2>2, <2>4
  <2> QED BY <1>1, <1>4, <2>3, <2>4
<1>5. \A x \in S : x \in Item /\ Newer(m, x)
  BY <1>1, <1>2, <1>3, <1>4 DEF Merged
<1>6. m \in Item /\ ~Newer(m, m) /\ m.row = JobRow(done[o])
  BY <1>1, <1>2, NewerIsOrder
<1>7. \A x \in S : Newer(m, x) /\ ~Newer(x, m)
  BY <1>5, <1>6, NewerIsOrder
<1>8. m \notin S
  BY <1>6, <1>7
<1>9. Merged(ext, done, e, o) = S \cup {m}
  <2>1. 1 .. o = (1 .. o - 1) \cup {o}
    BY <1>1
  <2> QED BY <2>1 DEF Merged
<1>10. NewestOf(S \cup {m}, room + 1) = {m} \cup NewestOf(S, room)
  <2>1. IsFiniteSet(S)
    BY <1>1, MergedFinite
  <2> HIDE DEF S, m
  <2> QED BY <1>6, <1>7, <1>8, <2>1, NewestOfMore
<1> DEFINE rest == NewestOf(S, room)
<1>11. NewestRows(ext, done, e, o, room + 1) = {x.row : x \in {m} \cup rest}
  BY <1>9, <1>10 DEF NewestRows
<1>12. NewestRows(ext, done, e, o - 1, room) = {x.row : x \in rest}
  BY DEF NewestRows
<1> HIDE DEF m, rest
<1> QED BY <1>6, <1>11, <1>12

LEMMA NothingLeft ==
  ASSUME NEW ext, NEW done, NEW e \in Nat, NEW o \in Nat, NEW room
  PROVE  /\ NewestRows(ext, done, e, o, 0) = {}
         /\ NewestRows(ext, done, 0, 0, room) = {}
<1>1. IsFiniteSet(Merged(ext, done, e, o)) /\ IsFiniteSet(Merged(ext, done, 0, 0))
  BY MergedFinite
<1>2. Merged(ext, done, 0, 0) = {}
  BY DEF Merged
<1> QED BY <1>1, <1>2, NewestOfNone DEF NewestRows

\* The recursion of MergedWindow, and what it computes.
Left(ext, done, n) == (0 .. n) \X (0 .. Len(done)) \X (0 .. Window)
IsTake(take, ext, done, n) ==
  take = [left \in Left(ext, done, n) |->
            IF left[3] = 0 \/ (left[1] = 0 /\ left[2] = 0) THEN {}
            ELSE IF TakesExternal(ext, done, left[1], left[2])
                   THEN {ext[left[1]].row} \cup take[<<left[1] - 1, left[2], left[3] - 1>>]
                   ELSE {JobRow(done[left[2]])}
                          \cup take[<<left[1], left[2] - 1, left[3] - 1>>]]

LEMMA NewestStep ==
  ASSUME NEW ext, NEW done, Mergeable(ext, done), NEW e \in 0 .. Len(ext), NEW o \in 0 .. Len(done),
         NEW room \in Nat
  PROVE  /\ room = 0 \/ (e = 0 /\ o = 0) => NewestRows(ext, done, e, o, room) = {}
         /\ room # 0 /\ TakesExternal(ext, done, e, o) =>
              /\ e \in 1 .. Len(ext)
              /\ NewestRows(ext, done, e, o, room)
                   = {ext[e].row} \cup NewestRows(ext, done, e - 1, o, room - 1)
         /\ room # 0 /\ o # 0 /\ ~TakesExternal(ext, done, e, o) =>
              NewestRows(ext, done, e, o, room)
                = {JobRow(done[o])} \cup NewestRows(ext, done, e, o - 1, room - 1)
         /\ ~(e = 0 /\ o = 0) /\ ~TakesExternal(ext, done, e, o) => o # 0
<1>1. e \in Nat /\ o \in Nat /\ Len(ext) \in Nat /\ Len(done) \in Nat
  BY DEF Mergeable
<1>2. CASE room = 0 \/ (e = 0 /\ o = 0)
  BY <1>1, <1>2, NothingLeft DEF TakesExternal
<1>3. CASE room # 0 /\ TakesExternal(ext, done, e, o)
  <2>1. e \in 1 .. Len(ext) /\ room - 1 \in Nat /\ (room - 1) + 1 = room
    BY <1>1, <1>3 DEF TakesExternal
  <2>2. NewestRows(ext, done, e, o, (room - 1) + 1)
          = {ext[e].row} \cup NewestRows(ext, done, e - 1, o, room - 1)
    BY <1>3, <2>1, LastOfRecords
  <2> QED BY <1>1, <1>3, <2>1, <2>2
<1>4. CASE room # 0 /\ o # 0 /\ ~TakesExternal(ext, done, e, o)
  <2>1. o \in 1 .. Len(done) /\ room - 1 \in Nat /\ (room - 1) + 1 = room
    BY <1>1, <1>4
  <2>2. NewestRows(ext, done, e, o, (room - 1) + 1)
          = {JobRow(done[o])} \cup NewestRows(ext, done, e, o - 1, room - 1)
    BY <1>4, <2>1, LastOfCompleted
  <2> QED BY <1>1, <1>4, <2>1, <2>2
<1>5. ~(e = 0 /\ o = 0) /\ ~TakesExternal(ext, done, e, o) => o # 0
  BY <1>1 DEF TakesExternal
<1> QED BY <1>1, <1>2, <1>3, <1>4, <1>5

LEMMA NewestIsTaken ==
  ASSUME NEW ext, NEW done, Mergeable(ext, done), NEW n \in 0 .. Len(ext)
  PROVE  \E take : IsTake(take, ext, done, n)
<1> DEFINE D == Left(ext, done, n)
           g == [left \in D |-> NewestRows(ext, done, left[1], left[2], left[3])]
           Step(e, o, room) ==
             IF room = 0 \/ (e = 0 /\ o = 0) THEN {}
             ELSE IF TakesExternal(ext, done, e, o)
                    THEN {ext[e].row} \cup g[<<e - 1, o, room - 1>>]
                    ELSE {JobRow(done[o])} \cup g[<<e, o - 1, room - 1>>]
<1>1. n \in Nat /\ Len(ext) \in Nat /\ Len(done) \in Nat /\ Window \in Nat
  BY WindowAssumption DEF Mergeable, WindowAssumption
<1>2. \A e \in 0 .. n, o \in 0 .. Len(done), room \in 0 .. Window :
        g[<<e, o, room>>] = NewestRows(ext, done, e, o, room)
  BY DEF Left
<1>3. ASSUME NEW e \in 0 .. n, NEW o \in 0 .. Len(done), NEW room \in 0 .. Window
      PROVE  g[<<e, o, room>>] = Step(e, o, room)
  <2> HIDE DEF g
  <2>1. e \in 0 .. Len(ext) /\ e \in Nat /\ room \in Nat /\ o \in Nat
    BY <1>1
  <2>2. CASE room = 0 \/ (e = 0 /\ o = 0)
    <3>1. NewestRows(ext, done, e, o, room) = {}
      BY <2>1, <2>2, NewestStep
    <3>2. Step(e, o, room) = {}
      BY <2>2
    <3> QED BY <1>2, <3>1, <3>2
  <2>3. CASE room # 0 /\ TakesExternal(ext, done, e, o)
    <3>1. e \in 1 .. Len(ext) /\ NewestRows(ext, done, e, o, room)
                   = {ext[e].row} \cup NewestRows(ext, done, e - 1, o, room - 1)
      BY <2>1, <2>3, NewestStep
    <3>2. e - 1 \in 0 .. n /\ room - 1 \in 0 .. Window
      BY <1>1, <2>1, <2>3, <3>1
    <3>3. g[<<e - 1, o, room - 1>>] = NewestRows(ext, done, e - 1, o, room - 1)
      BY <1>2, <3>2
    <3>4. Step(e, o, room) = {ext[e].row} \cup g[<<e - 1, o, room - 1>>]
      BY <2>1, <2>3, <3>1
    <3> QED BY <1>2, <3>1, <3>3, <3>4
  <2>4. CASE room # 0 /\ ~(e = 0 /\ o = 0) /\ ~TakesExternal(ext, done, e, o)
    <3>1. o # 0 /\ NewestRows(ext, done, e, o, room)
                     = {JobRow(done[o])} \cup NewestRows(ext, done, e, o - 1, room - 1)
      BY <2>1, <2>4, NewestStep
    <3>2. o - 1 \in 0 .. Len(done) /\ room - 1 \in 0 .. Window
      BY <1>1, <2>1, <2>4, <3>1
    <3>3. g[<<e, o - 1, room - 1>>] = NewestRows(ext, done, e, o - 1, room - 1)
      BY <1>2, <3>2
    <3>4. Step(e, o, room) = {JobRow(done[o])} \cup g[<<e, o - 1, room - 1>>]
      BY <2>4
    <3> QED BY <1>2, <3>1, <3>3, <3>4
  <2> QED BY <2>2, <2>3, <2>4
<1>4. g = [left \in D |-> Step(left[1], left[2], left[3])]
  <2>1. ASSUME NEW left \in D PROVE g[left] = Step(left[1], left[2], left[3])
    <3>1. PICK e \in 0 .. n, o \in 0 .. Len(done), room \in 0 .. Window : left = <<e, o, room>>
      BY DEF Left
    <3>2. left[1] = e /\ left[2] = o /\ left[3] = room
      BY <3>1
    <3> HIDE DEF g, Step
    <3> QED BY <1>3, <3>1, <3>2
  <2> HIDE DEF Step
  <2>2. g = [left \in D |-> g[left]]
    OBVIOUS
  <2> HIDE DEF g
  <2> QED BY <2>1, <2>2
<1>5. IsTake(g, ext, done, n)
  <2> HIDE DEF g
  <2> QED BY <1>4 DEF IsTake
<1> QED BY <1>5

LEMMA TakenIsNewest ==
  ASSUME NEW ext, NEW done, Mergeable(ext, done), NEW n \in Nat, n <= Len(ext),
         NEW take, IsTake(take, ext, done, n)
  PROVE  \A e \in 0 .. n, o \in 0 .. Len(done), room \in 0 .. Window :
           take[<<e, o, room>>] = NewestRows(ext, done, e, o, room)
<1>0. \A e \in 0 .. n, o \in 0 .. Len(done), room \in 0 .. Window :
        /\ room = 0 \/ (e = 0 /\ o = 0) => take[<<e, o, room>>] = {}
        /\ room # 0 /\ TakesExternal(ext, done, e, o) =>
             take[<<e, o, room>>] = {ext[e].row} \cup take[<<e - 1, o, room - 1>>]
        /\ room # 0 /\ o # 0 /\ ~TakesExternal(ext, done, e, o) =>
             take[<<e, o, room>>] = {JobRow(done[o])} \cup take[<<e, o - 1, room - 1>>]
  <2> SUFFICES ASSUME NEW e \in 0 .. n, NEW o \in 0 .. Len(done), NEW room \in 0 .. Window
               PROVE  /\ room = 0 \/ (e = 0 /\ o = 0) => take[<<e, o, room>>] = {}
                      /\ room # 0 /\ TakesExternal(ext, done, e, o) =>
                           take[<<e, o, room>>] = {ext[e].row} \cup take[<<e - 1, o, room - 1>>]
                      /\ room # 0 /\ o # 0 /\ ~TakesExternal(ext, done, e, o) =>
                           take[<<e, o, room>>] = {JobRow(done[o])} \cup take[<<e, o - 1, room - 1>>]
    OBVIOUS
  <2>1. take[<<e, o, room>>] =
          IF room = 0 \/ (e = 0 /\ o = 0) THEN {}
          ELSE IF TakesExternal(ext, done, e, o)
                 THEN {ext[e].row} \cup take[<<e - 1, o, room - 1>>]
                 ELSE {JobRow(done[o])} \cup take[<<e, o - 1, room - 1>>]
    BY DEF IsTake, Left
  <2>2. TakesExternal(ext, done, e, o) => e # 0
    BY DEF TakesExternal
  <2> QED BY <2>1, <2>2
<1> DEFINE Same(e, o, room) == take[<<e, o, room>>] = NewestRows(ext, done, e, o, room)
           Good(room) == \A e \in 0 .. n, o \in 0 .. Len(done) : Same(e, o, room)
           Bad == {room \in 0 .. Window : ~Good(room)}
<1>1. n \in Nat /\ Len(ext) \in Nat /\ Len(done) \in Nat /\ Window \in Nat
  BY WindowAssumption DEF Mergeable, WindowAssumption
<1>2. ASSUME NEW room \in 0 .. Window, room # 0 => Good(room - 1)
      PROVE  Good(room)
  <2> SUFFICES ASSUME NEW e \in 0 .. n, NEW o \in 0 .. Len(done)
               PROVE  take[<<e, o, room>>] = NewestRows(ext, done, e, o, room)
    OBVIOUS
  <2>1. e \in 0 .. Len(ext) /\ e \in Nat /\ o \in Nat /\ room \in Nat
    BY <1>1
  <2>2. CASE room = 0 \/ (e = 0 /\ o = 0)
    <3>1. take[<<e, o, room>>] = {}
      BY <1>0, <2>2
    <3>2. NewestRows(ext, done, e, o, room) = {}
      BY <2>1, <2>2, NewestStep
    <3> QED BY <3>1, <3>2
  <2>3. CASE room # 0 /\ TakesExternal(ext, done, e, o)
    <3>1. take[<<e, o, room>>] = {ext[e].row} \cup take[<<e - 1, o, room - 1>>]
      BY <1>0, <2>3, Zenon
    <3>2. e \in 1 .. Len(ext) /\ NewestRows(ext, done, e, o, room)
                   = {ext[e].row} \cup NewestRows(ext, done, e - 1, o, room - 1)
      BY <2>1, <2>3, NewestStep
    <3>3. e - 1 \in 0 .. n
      BY <1>1, <2>1, <3>2
    <3>4. take[<<e - 1, o, room - 1>>] = NewestRows(ext, done, e - 1, o, room - 1)
      BY <1>2, <2>3, <3>3
    <3> QED BY <3>1, <3>2, <3>4
  <2>4. CASE room # 0 /\ ~(e = 0 /\ o = 0) /\ ~TakesExternal(ext, done, e, o)
    <3>1. o # 0 /\ NewestRows(ext, done, e, o, room)
                     = {JobRow(done[o])} \cup NewestRows(ext, done, e, o - 1, room - 1)
      BY <2>1, <2>4, NewestStep
    <3>2. take[<<e, o, room>>] = {JobRow(done[o])} \cup take[<<e, o - 1, room - 1>>]
      BY <1>0, <2>4, <3>1, Zenon
    <3>3. o - 1 \in 0 .. Len(done)
      BY <1>1, <2>1, <3>1
    <3>4. take[<<e, o - 1, room - 1>>] = NewestRows(ext, done, e, o - 1, room - 1)
      BY <1>2, <2>4, <3>3
    <3> QED BY <3>1, <3>2, <3>4
  <2> QED BY <2>2, <2>3, <2>4
<1> HIDE DEF Good
<1>3. Bad = {}
  <2> SUFFICES ASSUME Bad # {} PROVE FALSE
    OBVIOUS
  <2>1. Bad \in SUBSET Nat
    BY <1>1
  <2>2. PICK room \in Bad : \A c \in Bad : room <= c
    <3> HIDE DEF Bad
    <3> QED BY <2>1, NatMin
  <2>3. room \in Nat /\ room \in 0 .. Window /\ ~Good(room)
    BY <1>1
  <2>4. room # 0 => room - 1 \in 0 .. Window
    BY <1>1, <2>3
  <2>5. room - 1 \notin Bad
    <3>1. room - 1 \in Bad => room <= room - 1
      BY <2>2
    <3> HIDE DEF Bad
    <3> QED BY <2>3, <3>1
  <2>6. room # 0 => Good(room - 1)
    BY <2>4, <2>5
  <2> QED BY <1>2, <2>3, <2>6
<1>4. \A room \in 0 .. Window : Good(room)
  BY <1>3
<1> QED BY <1>4 DEF Good

\* Merging from the ends reads the newest records of both lists.
LEMMA MergeReadsNewest ==
  ASSUME NEW ext, NEW done, Mergeable(ext, done), NEW n \in 0 .. Len(ext)
  PROVE  MergedWindow(ext, done, n) = {x.row : x \in Newest(Merged(ext, done, n, Len(done)))}
<1> DEFINE take == CHOOSE f : IsTake(f, ext, done, n)
<1>1. Len(done) \in Nat /\ Window \in Nat /\ n \in Nat /\ n <= Len(ext)
  BY WindowAssumption DEF Mergeable, WindowAssumption
<1>2. MergedWindow(ext, done, n) = take[<<n, Len(done), Window>>]
  BY DEF MergedWindow, IsTake, Left, TakesExternal
<1>3. IsTake(take, ext, done, n)
  BY NewestIsTaken
<1>4. take[<<n, Len(done), Window>>] = NewestRows(ext, done, n, Len(done), Window)
  <2> HIDE DEF take
  <2> QED BY <1>1, <1>3, TakenIsNewest
<1> QED BY <1>2, <1>4 DEF NewestRows, NewestOf, Newest

---------------------------------------------------------------------------
(* The lists.                                                              *)

\* One list: the completed jobs of one segment in read order.
InReadOrder(s) ==
  \A p, q \in DOMAIN s : p < q => Newer(OwnRecord(s[q], Release), OwnRecord(s[p], Release))

\* A sequence with an element put in after its first n.
PutAfter(s, n, x) == SubSeq(s, 1, n) \o <<x>> \o SubSeq(s, n + 1, Len(s))
IsPutAfter(r, s, n, x) ==
  /\ DOMAIN r = 1 .. Len(s) + 1 /\ Len(r) = Len(s) + 1
  /\ \A p \in 1 .. n : r[p] = s[p]
  /\ r[n + 1] = x
  /\ \A p \in n + 2 .. Len(s) + 1 : r[p] = s[p - 1]

LEMMA PutIn ==
  ASSUME NEW S, NEW s \in Seq(S), NEW x \in S, NEW n \in 0 .. Len(s)
  PROVE  PutAfter(s, n, x) \in Seq(S) /\ IsPutAfter(PutAfter(s, n, x), s, n, x)
<1> DEFINE r == PutAfter(s, n, x)
           a == SubSeq(s, 1, n)
           b == SubSeq(s, n + 1, Len(s))
<1>1. Len(s) \in Nat /\ n \in Nat /\ n <= Len(s)
  OBVIOUS
<1>2. a \in Seq(S) /\ Len(a) = n /\ \A p \in 1 .. n : a[p] = s[p]
  BY <1>1
<1>3. b \in Seq(S) /\ Len(b) = Len(s) - n /\ \A p \in 1 .. Len(s) - n : b[p] = s[n + p]
  BY <1>1
<1>4. <<x>> \in Seq(S) /\ Len(<<x>>) = 1 /\ <<x>>[1] = x
  OBVIOUS
<1>5. r = (a \o <<x>>) \o b
  BY DEF PutAfter
<1> DEFINE c == a \o <<x>>
           d == <<x>>
<1> HIDE DEF a, b, d, r
<1>6. /\ c \in Seq(S) /\ Len(c) = Len(a) + Len(d)
      /\ \A p \in 1 .. Len(a) + Len(d) : c[p] = IF p <= Len(a) THEN a[p] ELSE d[p - Len(a)]
  <2>1. c = a \o d
    BY DEF d
  <2>2. d \in Seq(S)
    BY <1>4 DEF d
  <2> HIDE DEF c
  <2> QED BY <1>2, <2>1, <2>2, ConcatProperties
<1>7. Len(d) = 1 /\ d[1] = x
  BY <1>4 DEF d
<1>8. r = c \o b
  BY <1>5
<1> HIDE DEF c
<1>9. Len(c) = n + 1 /\ (\A p \in 1 .. n : c[p] = s[p]) /\ c[n + 1] = x
  BY <1>1, <1>2, <1>6, <1>7
<1>10. /\ r \in Seq(S) /\ Len(r) = Len(c) + Len(b)
       /\ \A p \in 1 .. Len(c) + Len(b) : r[p] = IF p <= Len(c) THEN c[p] ELSE b[p - Len(c)]
  <2>1. c \in Seq(S) /\ b \in Seq(S)
    BY <1>3, <1>6
  <2> QED BY <1>8, <2>1, ConcatProperties
<1>11. r \in Seq(S) /\ Len(r) = Len(s) + 1
  BY <1>1, <1>3, <1>9, <1>10
<1>12. ASSUME NEW p \in 1 .. n + 1 PROVE r[p] = c[p]
  <2>1. p \in 1 .. Len(c) + Len(b) /\ p <= Len(c)
    BY <1>1, <1>3, <1>9
  <2> QED BY <1>10, <2>1
<1>13. ASSUME NEW p \in n + 2 .. Len(s) + 1 PROVE r[p] = s[p - 1]
  <2>1. p - (n + 1) \in 1 .. Len(s) - n /\ n + (p - (n + 1)) = p - 1
        /\ p \in 1 .. Len(c) + Len(b) /\ ~(p <= Len(c)) /\ p - Len(c) = p - (n + 1)
    BY <1>1, <1>3, <1>9
  <2>2. r[p] = b[p - (n + 1)]
    BY <1>10, <2>1
  <2> QED BY <1>3, <2>1, <2>2
<1>14. r[n + 1] = x /\ \A p \in 1 .. n : r[p] = s[p]
  BY <1>1, <1>9, <1>12
<1>15. DOMAIN r = 1 .. Len(s) + 1
  BY <1>1, <1>11
<1>16. IsPutAfter(r, s, n, x)
  BY <1>11, <1>13, <1>14, <1>15 DEF IsPutAfter
<1> QED BY <1>11, <1>16 DEF r

\* There is a place to insert at.
LEMMA InsertionPoint ==
  ASSUME NEW s \in Seq(Rank), NEW job \in Rank
  PROVE  \E n \in 0 .. Len(s) : /\ \A q \in n + 1 .. Len(s) : AfterJob(s[q], job)
                                /\ n > 0 => ~AfterJob(s[n], job)
<1> DEFINE P == {n \in 0 .. Len(s) : \A q \in n + 1 .. Len(s) : AfterJob(s[q], job)}
<1>1. Len(s) \in Nat
  OBVIOUS
<1>2. Len(s) \in P /\ P \in SUBSET Nat
  BY <1>1
<1>3. PICK n \in P : \A m \in P : n <= m
  <2> HIDE DEF P
  <2> QED BY <1>2, NatMin
<1>4. n \in Nat /\ n \in 0 .. Len(s)
  BY <1>1
<1>5. ASSUME n > 0 PROVE ~AfterJob(s[n], job)
  <2> SUFFICES ASSUME AfterJob(s[n], job) PROVE FALSE
    OBVIOUS
  <2>1. n - 1 \in 0 .. Len(s) /\ \A q \in (n - 1) + 1 .. Len(s) : q = n \/ q \in n + 1 .. Len(s)
    BY <1>1, <1>4, <1>5
  <2>2. n - 1 \in P
    BY <2>1
  <2>3. n <= n - 1
    BY <1>3, <2>2
  <2> QED BY <1>4, <2>3
<1> QED BY <1>4, <1>5

\* Inserting keeps the order the records are read in.
LEMMA InsertKeepsOrder ==
  ASSUME NEW s \in Seq(Rank), NEW job \in Rank, InReadOrder(s), \A o \in Rank : Release[o] \in Int,
         \A p \in DOMAIN s : s[p] # job
  PROVE  /\ Insert(s, job) \in Seq(Rank) /\ InReadOrder(Insert(s, job))
         /\ {Insert(s, job)[p] : p \in DOMAIN Insert(s, job)} = {s[p] : p \in DOMAIN s} \cup {job}
<1> DEFINE Right(n) == /\ \A q \in n + 1 .. Len(s) : AfterJob(s[q], job)
                       /\ n > 0 => ~AfterJob(s[n], job)
           kept == CHOOSE n \in 0 .. Len(s) : Right(n)
           r == Insert(s, job)
<1>1. kept \in 0 .. Len(s) /\ Right(kept)
  BY InsertionPoint
<1>2. r = PutAfter(s, kept, job)
  BY DEF Insert, PutAfter
<1> HIDE DEF kept, r
<1>3. /\ Len(s) \in Nat /\ kept \in Nat /\ kept <= Len(s) /\ DOMAIN s = 1 .. Len(s)
      /\ \A p \in 1 .. Len(s) : s[p] \in Rank /\ s[p] # job
  BY <1>1
<1>4. /\ r \in Seq(Rank) /\ DOMAIN r = 1 .. Len(s) + 1 /\ Len(r) = Len(s) + 1
      /\ \A p \in 1 .. kept : r[p] = s[p]
      /\ r[kept + 1] = job
      /\ \A p \in kept + 2 .. Len(s) + 1 : r[p] = s[p - 1]
  <2>1. kept \in 0 .. Len(s)
    BY <1>1
  <2>2. PutAfter(s, kept, job) \in Seq(Rank) /\ IsPutAfter(PutAfter(s, kept, job), s, kept, job)
    BY <2>1, PutIn
  <2> QED BY <1>2, <2>2 DEF IsPutAfter
<1> DEFINE rec(o) == OwnRecord(o, Release)
<1>5. \A o \in Rank : rec(o) \in Item /\ rec(o).row = JobRow(o)
  BY OwnRecordType
<1>6. \A o \in Rank \ {job} : IF AfterJob(o, job) THEN Newer(rec(o), rec(job))
                                                  ELSE Newer(rec(job), rec(o))
  <2> SUFFICES ASSUME NEW o \in Rank \ {job}
               PROVE  IF AfterJob(o, job) THEN Newer(rec(o), rec(job))
                                          ELSE Newer(rec(job), rec(o))
    OBVIOUS
  <2>1. JobRow(o) # JobRow(job) /\ JobRow(o) \in Nat /\ JobRow(job) \in Nat
        /\ Release[o] \in Int /\ Release[job] \in Int
    BY RowAssumption DEF RowAssumption
  <2> QED BY <2>1 DEF AfterJob, Newer, OwnRecord
<1>7. \A q \in kept + 1 .. Len(s) : Newer(rec(s[q]), rec(job))
  BY <1>1, <1>3, <1>6
<1>8. ASSUME NEW p \in 1 .. kept PROVE Newer(rec(job), rec(s[p]))
  <2>1. Newer(rec(job), rec(s[kept]))
    BY <1>1, <1>3, <1>6, <1>8
  <2>2. p = kept \/ Newer(rec(s[kept]), rec(s[p]))
    BY <1>3, <1>8 DEF InReadOrder
  <2>3. s[kept] \in Rank /\ s[p] \in Rank
    BY <1>3, <1>8
  <2> HIDE DEF rec
  <2> QED BY <1>5, <2>1, <2>2, <2>3, NewerIsOrder
<1>9. InReadOrder(r)
  <2> SUFFICES ASSUME NEW p \in 1 .. Len(s) + 1, NEW q \in 1 .. Len(s) + 1, p < q
               PROVE  Newer(rec(r[q]), rec(r[p]))
    BY <1>4 DEF InReadOrder
  <2> HIDE DEF rec, Right
  <2>1. p \in Nat /\ q \in Nat
    BY <1>3
  <2>2. \A a, b \in 1 .. Len(s) : a < b => Newer(rec(s[b]), rec(s[a]))
    BY <1>3 DEF InReadOrder, rec
  <2>3. CASE q <= kept
    <3>1. r[p] = s[p] /\ r[q] = s[q] /\ p \in 1 .. Len(s) /\ q \in 1 .. Len(s)
      BY <1>3, <1>4, <2>1, <2>3
    <3> QED BY <2>2, <3>1
  <2>4. CASE q = kept + 1
    <3>1. r[p] = s[p] /\ p \in 1 .. kept /\ r[q] = job
      BY <1>3, <1>4, <2>1, <2>4
    <3> QED BY <1>8, <3>1
  <2>5. CASE q > kept + 1 /\ p <= kept
    <3>1. r[p] = s[p] /\ r[q] = s[q - 1] /\ p \in 1 .. Len(s) /\ q - 1 \in 1 .. Len(s) /\ p < q - 1
      BY <1>3, <1>4, <2>1, <2>5
    <3> QED BY <2>2, <3>1
  <2>6. CASE q > kept + 1 /\ p = kept + 1
    <3>1. r[p] = job /\ r[q] = s[q - 1] /\ q - 1 \in kept + 1 .. Len(s)
      BY <1>3, <1>4, <2>1, <2>6
    <3> QED BY <1>7, <3>1
  <2>7. CASE q > kept + 1 /\ p > kept + 1
    <3>1. /\ r[p] = s[p - 1] /\ r[q] = s[q - 1]
          /\ p - 1 \in 1 .. Len(s) /\ q - 1 \in 1 .. Len(s) /\ p - 1 < q - 1
      BY <1>3, <1>4, <2>1, <2>7
    <3> QED BY <2>2, <3>1
  <2> QED BY <1>3, <2>1, <2>3, <2>4, <2>5, <2>6, <2>7
<1>10. {r[p] : p \in 1 .. Len(s) + 1} = {s[p] : p \in 1 .. Len(s)} \cup {job}
  <2> HIDE DEF Right, rec
  <2>1. ASSUME NEW p \in 1 .. Len(s) + 1
        PROVE  r[p] = job \/ \E a \in 1 .. Len(s) : r[p] = s[a]
    <3>1. CASE p <= kept
      <4>1. p \in 1 .. Len(s) /\ r[p] = s[p]
        BY <1>3, <1>4, <3>1
      <4> QED BY <4>1
    <3>2. CASE p = kept + 1
      BY <1>4, <3>2
    <3>3. CASE p > kept + 1
      <4>1. p - 1 \in 1 .. Len(s) /\ r[p] = s[p - 1]
        BY <1>3, <1>4, <3>3
      <4> QED BY <4>1
    <3> QED BY <1>3, <3>1, <3>2, <3>3
  <2>2. ASSUME NEW a \in 1 .. Len(s) PROVE \E p \in 1 .. Len(s) + 1 : r[p] = s[a]
    <3>1. CASE a <= kept
      <4>1. a \in 1 .. Len(s) + 1 /\ r[a] = s[a]
        BY <1>3, <1>4, <3>1
      <4> QED BY <4>1
    <3>2. CASE a > kept
      <4>1. a + 1 \in 1 .. Len(s) + 1 /\ r[a + 1] = s[a]
        BY <1>3, <1>4, <3>2
      <4> QED BY <4>1
    <3> QED BY <1>3, <3>1, <3>2
  <2>3. kept + 1 \in 1 .. Len(s) + 1 /\ r[kept + 1] = job
    BY <1>3, <1>4
  <2> QED BY <2>1, <2>2, <2>3
<1> QED BY <1>3, <1>4, <1>9, <1>10 DEF r

\* The external records of a group, and how many of them a job reads.
LEMMA ExternalsInOrder ==
  ASSUME NEW h \in Histories, NEW i \in Rank
  PROVE  /\ External[h][SegmentOf(h, i)] \in Seq(Item)
         /\ VisibleExternals(h, SegmentOf(h, i), a_us[i]) \in 0 .. Len(External[h][SegmentOf(h, i)])
         /\ \A p, q \in 1 .. Len(External[h][SegmentOf(h, i)]) :
              p < q => Newer(External[h][SegmentOf(h, i)][q], External[h][SegmentOf(h, i)][p])
         /\ \A p \in 1 .. Len(External[h][SegmentOf(h, i)]) : \A o \in Rank :
              External[h][SegmentOf(h, i)][p].row # JobRow(o)
<1> DEFINE ext == External[h][SegmentOf(h, i)]
<1>1. /\ ext \in Seq([at : Nat, zero : BOOLEAN, row : Nat])
      /\ \A x \in RecordsOf(h, SegmentOf(h, i)) : \A o \in Rank : x.row # JobRow(o)
      /\ \A p, q \in DOMAIN ext : p < q => Newer(ext[q], ext[p])
  BY ExternalAssumption DEF ExternalAssumption, SegmentIds
<1>2. DOMAIN ext = 1 .. Len(ext)
  BY <1>1
<1>3. ext \in Seq(Item)
  <2>1. [at : Nat, zero : BOOLEAN, row : Nat] \subseteq Item
    BY DEF Item
  <2> HIDE DEF ext
  <2> QED BY <1>1, <2>1, SeqMonotonic
<1>4. \A p \in 1 .. Len(ext) : \A o \in Rank : ext[p].row # JobRow(o)
  BY <1>1, <1>2 DEF RecordsOf
<1>5. VisibleExternals(h, SegmentOf(h, i), a_us[i]) \in 0 .. Len(ext)
  BY VisibleAreRecords
<1> QED BY <1>1, <1>2, <1>3, <1>4, <1>5

---------------------------------------------------------------------------
(* The inductive invariant of the replay.                                  *)

\* The clock stands at the last event: no arrival is behind it, no completion ahead.
ClockInv ==
  /\ next < N => t <= a_us[next]
  /\ \A o \in served \ run : Done(o) <= t

\* The arrival in hand when every completion of its instant is in the lists.
Arriving(i) == i = next /\ Running /\ ~CompletionDue /\ ArrivalDue

Online(i) == Predict(i, OnlineState(i, served, Release))
Original(i) == Predict(i, OriginalState(i))

\* The timeout replaces the wrapper: a fifo index under the base policy's mode.
TimeoutInv ==
  /\ theta # NoTimeout => theta \in Nat /\ pol.mode = "score"
  /\ theta # NoTimeout => \A q \in Waiting : fifoHead <= q

ListsInv ==
  /\ DOMAIN lists = Histories
  /\ \A h \in Histories : /\ DOMAIN lists[h] = SegmentIds(h)
                          /\ \A id \in SegmentIds(h) : lists[h][id] \in Seq(Rank)
  /\ ListsInReadOrder

\* A job that has not arrived has the score of the source log, or is being admitted
\* with its online score.
ScoresInv ==
  /\ decided \in [Rank -> 0 .. 2]
  /\ ScoresAreOnline
  /\ pending # Nobody =>
       /\ Arriving(pending) /\ decided[pending] = 0
       /\ OnlineState(pending, served, Release) # OriginalState(pending)
  /\ Running => \A i \in Rank : i >= next =>
       \/ decided[i] = 0 /\ score[i] = Original(i)
       \/ decided[i] = 2 /\ Arriving(i) /\ pending = Nobody /\ score[i] = Online(i)

OnlineInv ==
  /\ KernelInv
  /\ pol.mode # "fcfs"
  /\ ClockInv /\ TimeoutInv /\ ListsInv /\ ScoresInv

---------------------------------------------------------------------------
(* What a job sees on arrival.                                             *)

LEMMA ReplayTypes ==
  ASSUME KernelInv
  PROVE  /\ N \in Nat /\ next \in 0 .. N /\ t \in Int
         /\ Rank \subseteq Nat /\ served \subseteq Rank /\ run \subseteq served
         /\ \A q \in served : q < next
         /\ a_us \in [Rank -> Int] /\ s_us \in [Rank -> 1 .. L] /\ start \in [Rank -> Int]
         /\ L \in Nat
         /\ \A o \in Rank : Done(o) \in Int /\ Release[o] = Done(o)
         /\ \A p, q \in Rank : p <= q => a_us[p] <= a_us[q]
<1>1. /\ N \in Nat /\ next \in 0 .. N /\ t \in Int /\ served \subseteq 0 .. next - 1
      /\ run \subseteq served /\ start \in [Rank -> Int]
      /\ a_us \in [Rank -> Int] /\ s_us \in [Rank -> 1 .. L] /\ L \in Nat
  BY InputTypes DEF KernelInv, StructureInv, TypeOK
<1>2. Rank \subseteq Nat /\ served \subseteq Rank /\ \A q \in served : q < next
  BY <1>1 DEF Rank
<1>3. \A o \in Rank : Done(o) \in Int /\ Release[o] = Done(o)
  BY <1>1 DEF Done, Release
<1>4. \A p, q \in Rank : p <= q => a_us[p] <= a_us[q]
  BY DEF KernelInv, StructureInv, TypeOK, InputsOK, TraceOK
<1> QED BY <1>1, <1>2, <1>3, <1>4

\* The outcomes that count for the arriving job are those in the lists.
LEMMA FinishedOnArrival ==
  ASSUME KernelInv, ClockInv, NEW i \in Rank, Arriving(i)
  PROVE  {o \in served : Release[o] <= a_us[i]} = served \ run /\ i \notin served
<1>1. t = a_us[i]
  BY ReplayTypes DEF ClockInv, Arriving, ArrivalDue
<1>2. \A o \in served : Done(o) <= t <=> o \notin run
  BY DEF ClockInv, Arriving, CompletionDue, Due
<1> QED BY <1>1, <1>2, ReplayTypes DEF Arriving

\* The list of the job's group holds just those.
LEMMA ListOnArrival ==
  ASSUME KernelInv, ListsInv, NEW i \in Rank, NEW h \in Histories
  PROVE  /\ lists[h][SegmentOf(h, i)] \in Seq(Rank)
         /\ {lists[h][SegmentOf(h, i)][p] : p \in DOMAIN lists[h][SegmentOf(h, i)]}
              = {o \in served \ run : SegmentOf(h, o) = SegmentOf(h, i)}
         /\ \A p, q \in DOMAIN lists[h][SegmentOf(h, i)] :
              p < q => Newer(OwnRecord(lists[h][SegmentOf(h, i)][q], Release),
                             OwnRecord(lists[h][SegmentOf(h, i)][p], Release))
<1>1. SegmentOf(h, i) \in SegmentIds(h)
  BY DEF SegmentIds
<1> QED BY <1>1 DEF ListsInv, ListsInReadOrder

\* The state the replay keeps is the state a rebuild from scratch gives.
LEMMA StateOnArrival ==
  ASSUME KernelInv, ClockInv, ListsInv, NEW i \in Rank, Arriving(i)
  PROVE  State(i) = OnlineState(i, served, Release)
<1> DEFINE own == {o \in served : Release[o] <= a_us[i]}
<1>1. ASSUME NEW h \in Histories PROVE StatePart(h, i) = RebuiltPart(h, i, own, Release)
  <2> DEFINE id == SegmentOf(h, i)
             done == lists[h][id]
             ext == External[h][id]
             n == VisibleExternals(h, id, a_us[i])
             mine == {o \in own : SegmentOf(h, o) = id}
             all == ExternalsRead(h, i) \cup {OwnRecord(o, Release) : o \in mine}
  <2>1. done \in Seq(Rank) /\ {done[p] : p \in DOMAIN done} = mine
        /\ \A p, q \in DOMAIN done :
             p < q => Newer(OwnRecord(done[q], Release), OwnRecord(done[p], Release))
    BY ListOnArrival, FinishedOnArrival
  <2>2. /\ ext \in Seq(Item) /\ n \in 0 .. Len(ext)
        /\ \A p, q \in 1 .. Len(ext) : p < q => Newer(ext[q], ext[p])
        /\ \A p \in 1 .. Len(ext) : \A o \in Rank : ext[p].row # JobRow(o)
    BY ExternalsInOrder
  <2>3. Mergeable(ext, done)
    <3>1. DOMAIN done = 1 .. Len(done)
      BY <2>1
    <3>2. \A o \in Rank : Release[o] \in Int
      BY ReplayTypes
    <3> HIDE DEF ext, done
    <3> QED BY <2>1, <2>2, <3>1, <3>2 DEF Mergeable
  <2>4. MergedWindow(ext, done, n) = {x.row : x \in Newest(Merged(ext, done, n, Len(done)))}
    <3> HIDE DEF ext, done, n
    <3> QED BY <2>2, <2>3, MergeReadsNewest
  <2>5. Merged(ext, done, n, Len(done)) = all
    <3>1. ExternalsRead(h, i) = {ext[p] : p \in 1 .. n}
      BY DEF ExternalsRead
    <3>2. {OwnRecord(done[p], Release) : p \in 1 .. Len(done)} = {OwnRecord(o, Release) : o \in mine}
      <4>1. DOMAIN done = 1 .. Len(done)
        BY <2>1
      <4> HIDE DEF done, mine
      <4> QED BY <2>1, <4>1
    <3> HIDE DEF ext, done, n, mine
    <3> QED BY <3>1, <3>2 DEF Merged
  <2>6. {JobRow(done[p]) : p \in DOMAIN done} = {JobRow(o) : o \in mine}
    <3> HIDE DEF done, mine
    <3> QED BY <2>1
  <2>7. StatePart(h, i) = [own |-> {JobRow(done[p]) : p \in DOMAIN done},
                           recent |-> MergedWindow(ext, done, n)]
    BY DEF StatePart
  <2>8. RebuiltPart(h, i, own, Release) = [own |-> {JobRow(o) : o \in mine},
                                           recent |-> {x.row : x \in Newest(all)}]
    BY DEF RebuiltPart
  <2> HIDE DEF done, mine, ext, n, all
  <2> QED BY <2>4, <2>5, <2>6, <2>7, <2>8
<1> HIDE DEF own
<1>2. State(i) = [h \in Histories |-> RebuiltPart(h, i, own, Release)]
  BY <1>1 DEF State
<1> QED BY <1>2 DEF OnlineState, Rebuilt, own

\* Python rebuilds it from the two lists of the job alone.
LEMMA RebuiltOnArrival ==
  ASSUME KernelInv, ClockInv, ListsInv, NEW i \in Rank, Arriving(i)
  PROVE  /\ CompletedFor(i) \in SUBSET (Rank \ {i})
         /\ Rebuilt(i, CompletedFor(i), Release) = OnlineState(i, served, Release)
<1> DEFINE own == {o \in served : Release[o] <= a_us[i]}
           mine(h) == {o \in served \ run : SegmentOf(h, o) = SegmentOf(h, i)}
<1>1. own = served \ run /\ i \notin served /\ served \subseteq Rank
  BY FinishedOnArrival, ReplayTypes
<1>2. CompletedFor(i) = UNION {mine(h) : h \in Histories}
  <2>1. \A h \in Histories :
          {lists[h][SegmentOf(h, i)][p] : p \in DOMAIN lists[h][SegmentOf(h, i)]} = mine(h)
    BY ListOnArrival
  <2> QED BY <2>1 DEF CompletedFor
<1>3. CompletedFor(i) \subseteq own
  BY <1>1, <1>2
<1>4. \A h \in Histories : {o \in CompletedFor(i) : SegmentOf(h, o) = SegmentOf(h, i)}
                             = {o \in own : SegmentOf(h, o) = SegmentOf(h, i)}
  BY <1>1, <1>2
<1> HIDE DEF own
<1>5. \A h \in Histories : RebuiltPart(h, i, CompletedFor(i), Release) = RebuiltPart(h, i, own, Release)
  BY <1>4 DEF RebuiltPart
<1>6. Rebuilt(i, CompletedFor(i), Release) = Rebuilt(i, own, Release)
  BY <1>5 DEF Rebuilt
<1>7. CompletedFor(i) \in SUBSET (Rank \ {i})
  BY <1>1, <1>3 DEF own
<1> QED BY <1>6, <1>7 DEF OnlineState, own

---------------------------------------------------------------------------
(* Dispatching under a timeout.                                            *)

\* The fifo index finds the oldest waiting job, as it does under a wrapper.
LEMMA TimeoutHeadIsOldest ==
  ASSUME OnlineInv, theta # NoTimeout, nwait > 0
  PROVE  FifoHead \in Waiting /\ \A q \in Waiting : FifoHead <= q
<1>1. TypeOK /\ QueuesHoldWaiting /\ N \in Nat /\ Rank \subseteq Nat
  BY ReplayTypes DEF OnlineInv, KernelInv, StructureInv
<1>2. Waiting # {} /\ Waiting \in SUBSET Nat
  <2>1. Waiting # {}
    BY <1>1, FS_EmptySet DEF QueuesHoldWaiting
  <2> QED BY <1>1, <2>1 DEF Waiting
<1>3. PICK h \in Waiting : \A q \in Waiting : h <= q
  BY <1>2, NatMin
<1>4. IsFifoHead(h) /\ h \in Rank
  BY <1>1, <1>3 DEF IsFifoHead, OnlineInv, TimeoutInv, Waiting, TypeOK, Rank
<1>5. IsFifoHead(FifoHead) /\ FifoHead \in Rank
  BY <1>4 DEF FifoHead
<1>6. FifoHead \in Waiting
  BY <1>1, <1>5 DEF IsFifoHead, Waiting, TypeOK, Rank
<1>7. FifoHead <= h
  BY <1>1, <1>4, <1>5 DEF IsFifoHead, TypeOK, Rank
<1> QED BY <1>1, <1>3, <1>6, <1>7 DEF Waiting, Rank

LEMMA TimeoutDispatch ==
  ASSUME OnlineInv, theta # NoTimeout, NEW j \in Rank, DispatchTimeout(j)
  PROVE  /\ KernelInv' /\ j \in Waiting /\ Waiting' = Waiting \ {j}
         /\ \A q \in Waiting' : fifoHead' <= q
<1>1. pol.mode = "score" /\ ~guarding /\ StructureInv /\ ScheduleFollowsClock /\ nwait > 0
  BY DEF OnlineInv, TimeoutInv, guarding, KernelInv, DispatchTimeout, DispatchEpoch, CanDispatch
<1>2. FifoHead \in Waiting /\ \A q \in Waiting : FifoHead <= q
  BY <1>1, TimeoutHeadIsOldest
<1>3. fifoHead' = FifoHead /\ leaf' = leaf
  BY DEF DispatchTimeout
<1>4. fifoHead' \in 0 .. next
  BY <1>2, <1>3, ReplayTypes DEF Waiting, Rank, OnlineInv
<1>5. ASSUME NEW forced \in BOOLEAN, Dispatch(j, forced), j \in Waiting, heap' \subseteq heap,
             Waiting \ {j} \subseteq heap'
      PROVE  StructureInv' /\ Waiting' = Waiting \ {j} /\ ScheduleFollowsClock'
  BY <1>1, <1>3, <1>4, <1>5, DispatchStructure, DispatchedJobs
<1>6. j \in Waiting /\ \E forced \in BOOLEAN :
        Dispatch(j, forced) /\ heap' \subseteq heap /\ Waiting \ {j} \subseteq heap'
  <2>1. CASE HeadTimedOut /\ j = FifoHead /\ Dispatch(j, TRUE) /\ UNCHANGED heap
    <3>1. Waiting \ {j} \subseteq heap' /\ heap' \subseteq heap
      BY <1>1, <2>1 DEF StructureInv, QueuesHoldWaiting
    <3> QED BY <1>2, <2>1, <3>1
  <2>2. CASE ~HeadTimedOut /\ IsBaseChoice(j) /\ Dispatch(j, FALSE) /\ heap' = heap \ Popped(j)
    <3>1. j \in Waiting /\ Waiting \ {j} \subseteq heap'
      BY <1>1, <2>2, BaseChoiceWaits
    <3> QED BY <2>2, <3>1
  <2> QED BY <2>1, <2>2 DEF DispatchTimeout
<1>7. StructureInv' /\ Waiting' = Waiting \ {j} /\ ScheduleFollowsClock'
  BY <1>5, <1>6
<1>8. pol' = pol
  BY DEF DispatchTimeout, Dispatch, inputs
<1>9. AccountsAreSums' /\ OvertakersLimited' /\ OvertakingWorkBounded'
  BY <1>1, <1>8 DEF AccountsAreSums, OvertakersLimited, OvertakingWorkBounded, guarding
<1> QED BY <1>2, <1>3, <1>6, <1>7, <1>9 DEF KernelInv

---------------------------------------------------------------------------
(* What a score was computed from stays what it was.                       *)

\* A job's state depends on its arrival and on the outcomes it sees, nothing else.
LEMMA OnlineStateKept ==
  ASSUME NEW i, UNCHANGED a_us,
         {o \in served' : Release'[o] <= a_us[i]} = {o \in served : Release[o] <= a_us[i]},
         \A o \in served : Release'[o] = Release[o]
  PROVE  OnlineState(i, served, Release)' = OnlineState(i, served, Release)
<1> DEFINE own == {o \in served : Release[o] <= a_us[i]}
<1>1. own' = own /\ \A o \in own : OwnRecord(o, Release') = OwnRecord(o, Release)
  BY DEF OwnRecord
<1>2. \A h : ExternalsRead(h, i)' = ExternalsRead(h, i)
  BY DEF ExternalsRead, VisibleExternals, ReadAt
<1>3. \A h : {OwnRecord(o, Release') : o \in {x \in own : SegmentOf(h, x) = SegmentOf(h, i)}}
               = {OwnRecord(o, Release) : o \in {x \in own : SegmentOf(h, x) = SegmentOf(h, i)}}
  BY <1>1
<1> HIDE DEF own
<1>4. ASSUME NEW h PROVE RebuiltPart(h, i, own, Release)' = RebuiltPart(h, i, own, Release)
  BY <1>1, <1>2, <1>3 DEF RebuiltPart
<1>5. Rebuilt(i, own, Release)' = Rebuilt(i, own, Release)
  BY <1>4 DEF Rebuilt
<1> QED BY <1>5 DEF OnlineState, own

LEMMA OriginalKept ==
  ASSUME NEW i, UNCHANGED <<a_us, avail>>
  PROVE  OriginalState(i)' = OriginalState(i)
  BY DEF OriginalState, Rebuilt, RebuiltPart, ExternalsRead, VisibleExternals, ReadAt, OwnRecord

---------------------------------------------------------------------------
(* Every step of the replay keeps its invariant.                           *)

\* A step between arrivals, which no score depends on.
LEMMA ScoresKept ==
  ASSUME OnlineInv, UNCHANGED <<a_us, score, next, avail, decided>>, pending' = Nobody,
         \A i \in Rank : ~Arriving(i), Running' => Running,
         \A i \in Rank : i < next => OnlineState(i, served, Release)' = OnlineState(i, served, Release)
  PROVE  ScoresInv'
<1>1. \A i \in 0 .. next - 1 : i \in Rank /\ i < next
  BY ReplayTypes DEF OnlineInv, Rank
<1>2. ScoresAreOnline'
  <2>1. \A i \in 0 .. next - 1 : score[i] = Predict(i, OnlineState(i, served, Release))
    BY DEF OnlineInv, ScoresInv, ScoresAreOnline
  <2> QED BY <1>1, <2>1 DEF ScoresAreOnline
<1>3. Running' => \A i \in Rank : i >= next' => decided'[i] = 0 /\ score'[i] = Original(i)'
  <2>1. Running => \A i \in Rank : i >= next => decided[i] = 0 /\ score[i] = Original(i)
    BY DEF OnlineInv, ScoresInv
  <2>2. \A i : Original(i)' = Original(i)
    BY OriginalKept DEF Original
  <2> QED BY <2>1, <2>2
<1>4. decided' \in [Rank -> 0 .. 2]
  BY DEF OnlineInv, ScoresInv
<1> QED BY <1>2, <1>3, <1>4 DEF ScoresInv

LEMMA CompleteKeeps ==
  ASSUME OnlineInv, NEW c \in Rank, Complete(c)
  PROVE  OnlineInv'
<1>1. /\ ApplyCompletion(c) /\ pending' = Nobody /\ UNCHANGED <<avail, theta, decided>>
      /\ UNCHANGED <<a_us, s_us, score, pol, t, next, served, start, fifoHead, ndisp, err>>
      /\ run' = run \ {c} /\ Due(c) /\ c \in run /\ c \in served
      /\ lists' = [h \in Histories |-> [lists[h] EXCEPT ![SegmentOf(h, c)] = Insert(@, c)]]
  BY ReplayTypes
      DEF Complete, ApplyCompletion, inputs, queueVars, windowVars, resultVars, replayOnly,
          OnlineInv
<1>2. KernelInv'
  BY <1>1, KernelStep DEF Next, OnlineInv
<1>3. Release' = Release /\ \A o : Done(o)' = Done(o)
  BY <1>1 DEF Release, Done
<1>4. served' \ run' = (served \ run) \cup {c}
  BY <1>1
<1>5. ClockInv'
  BY <1>1, <1>3, <1>4 DEF ClockInv, OnlineInv, Due
<1>6. TimeoutInv'
  <2>1. Waiting' = Waiting
    BY <1>1 DEF Waiting
  <2> QED BY <1>1, <2>1 DEF TimeoutInv, OnlineInv
<1>7. ListsInv'
  <2>1. ASSUME NEW h \in Histories
        PROVE  /\ DOMAIN lists'[h] = SegmentIds(h)
               /\ \A id \in SegmentIds(h) :
                    lists'[h][id] = IF id = SegmentOf(h, c) THEN Insert(lists[h][id], c)
                                                            ELSE lists[h][id]
    BY <1>1 DEF OnlineInv, ListsInv
  <2>2. ASSUME NEW h \in Histories, NEW id \in SegmentIds(h)
        PROVE  /\ lists'[h][id] \in Seq(Rank)
               /\ {lists'[h][id][p] : p \in DOMAIN lists'[h][id]}
                     = {o \in served' \ run' : SegmentOf(h, o) = id}
               /\ InReadOrder(lists'[h][id])
    <3> DEFINE s == lists[h][id]
    <3>1. /\ s \in Seq(Rank) /\ InReadOrder(s)
          /\ {s[p] : p \in DOMAIN s} = {o \in served \ run : SegmentOf(h, o) = id}
      BY DEF OnlineInv, ListsInv, ListsInReadOrder, InReadOrder
    <3>2. CASE id = SegmentOf(h, c)
      <4>1. lists'[h][id] = Insert(s, c)
        BY <2>1, <3>2
      <4>2. \A p \in DOMAIN s : s[p] # c
        BY <1>1, <3>1
      <4>3. \A o \in Rank : Release[o] \in Int
        BY ReplayTypes DEF OnlineInv
      <4>4. /\ Insert(s, c) \in Seq(Rank) /\ InReadOrder(Insert(s, c))
            /\ {Insert(s, c)[p] : p \in DOMAIN Insert(s, c)} = {s[p] : p \in DOMAIN s} \cup {c}
        <5> HIDE DEF s
        <5> QED BY <3>1, <4>2, <4>3, InsertKeepsOrder
      <4>5. {s[p] : p \in DOMAIN s} \cup {c} = {o \in served' \ run' : SegmentOf(h, o) = id}
        BY <1>4, <3>1, <3>2
      <4> HIDE DEF s
      <4> QED BY <4>1, <4>4, <4>5
    <3>3. CASE id # SegmentOf(h, c)
      <4>1. lists'[h][id] = s
        BY <2>1, <3>3
      <4>2. {o \in served \ run : SegmentOf(h, o) = id} = {o \in served' \ run' : SegmentOf(h, o) = id}
        BY <1>4, <3>3
      <4> HIDE DEF s
      <4> QED BY <3>1, <4>1, <4>2
    <3> QED BY <3>2, <3>3
  <2>3. DOMAIN lists' = Histories
    BY <1>1
  <2> QED BY <1>3, <2>1, <2>2, <2>3 DEF ListsInv, ListsInReadOrder, InReadOrder
<1>8. ScoresInv'
  <2>1. \A i \in Rank : ~Arriving(i)
    BY <1>1 DEF Arriving, CompletionDue
  <2>2. \A i : OnlineState(i, served, Release)' = OnlineState(i, served, Release)
    BY <1>1, <1>3, OnlineStateKept
  <2>3. Running' => Running
    BY <1>1 DEF Running
  <2> QED BY <1>1, <2>1, <2>2, <2>3, ScoresKept
<1> QED BY <1>1, <1>2, <1>5, <1>6, <1>7, <1>8 DEF OnlineInv

LEMMA PauseKeeps ==
  ASSUME OnlineInv, Pause
  PROVE  OnlineInv'
<1>1. UNCHANGED <<vars, avail, theta, lists, decided>> /\ pending' = next
  BY DEF Pause, replayOnly
<1>2. KernelInv'
  BY <1>1, KernelStep DEF OnlineInv
<1>3. UNCHANGED <<a_us, s_us, score, pol, t, next, run, served, start, fifoHead, ndisp, err>>
  BY <1>1 DEF vars, inputs, queueVars, windowVars, resultVars
<1>4. Release' = Release /\ (\A o : Done(o)' = Done(o)) /\ Waiting' = Waiting
      /\ (\A i : Arriving(i)' = Arriving(i)) /\ (Running' = Running)
  BY <1>3 DEF Release, Done, Waiting, Arriving, Running, CompletionDue, ArrivalDue, Due
<1>5. ClockInv' /\ TimeoutInv' /\ ListsInv'
  BY <1>1, <1>3, <1>4 DEF OnlineInv, ClockInv, TimeoutInv, ListsInv, ListsInReadOrder
<1>6. \A i : Online(i)' = Online(i) /\ Original(i)' = Original(i)
             /\ OnlineState(i, served, Release)' = OnlineState(i, served, Release)
             /\ OriginalState(i)' = OriginalState(i)
  BY <1>1, <1>3, <1>4, OnlineStateKept, OriginalKept DEF Online, Original
<1>7. /\ next \in Rank /\ Arriving(next) /\ decided[next] = 0
      /\ OnlineState(next, served, Release) # OriginalState(next)
  <2>1. next \in Rank /\ Arriving(next) /\ decided[next] = 0 /\ NeedsScore(next)
    BY ReplayTypes DEF OnlineInv, Pause, AtArrival, Arriving, ArrivalDue, Rank
  <2> QED BY <2>1, StateOnArrival DEF NeedsScore, OnlineInv
<1>8. Running => \A i \in Rank : i >= next => decided[i] = 0 /\ score[i] = Original(i)
  BY <1>7 DEF OnlineInv, ScoresInv, Arriving
<1>9. ScoresAreOnline'
  BY <1>3, <1>6 DEF OnlineInv, ScoresInv, ScoresAreOnline
<1>10. ScoresInv'
  BY <1>1, <1>3, <1>4, <1>6, <1>7, <1>8, <1>9 DEF ScoresInv, OnlineInv
<1> QED BY <1>2, <1>3, <1>5, <1>10 DEF OnlineInv

LEMMA RescoreKeeps ==
  ASSUME OnlineInv, Rescore
  PROVE  OnlineInv'
<1> DEFINE i == pending
<1>1. /\ UNCHANGED <<a_us, s_us, pol, t, next, run, served, start, fifoHead, ndisp, err, avail,
                     theta, lists>>
      /\ UNCHANGED <<queueVars, workVars, countVars, windowVars, resultVars>>
      /\ pending' = Nobody /\ decided' = [decided EXCEPT ![i] = 2]
      /\ score' = [score EXCEPT ![i] = Predict(i, Rebuilt(i, CompletedFor(i), Release))]
  BY DEF Rescore, Resolve, queueVars, windowVars, resultVars, replayOnly
<1>2. i = next /\ i \in Rank /\ Arriving(i)
  <2>1. Arriving(i)
    BY DEF Rescore, OnlineInv, ScoresInv
  <2> QED BY <2>1, ReplayTypes DEF Arriving, ArrivalDue, OnlineInv, Rank
<1>3. /\ CompletedFor(i) \in SUBSET (Rank \ {i})
      /\ Rebuilt(i, CompletedFor(i), Release) = OnlineState(i, served, Release)
  BY <1>2, RebuiltOnArrival DEF OnlineInv
<1>4. Predict(i, Rebuilt(i, CompletedFor(i), Release)) \in Scores
  BY <1>2, <1>3, PredictedScore
<1>5. score \in [Rank -> Scores] /\ score' \in [Rank -> Scores] /\ score'[i] = Online(i)
      /\ \A q \in Rank \ {i} : score'[q] = score[q]
  <2>1. score \in [Rank -> Scores]
    BY DEF OnlineInv, KernelInv, StructureInv, TypeOK, InputsOK
  <2> QED BY <1>1, <1>2, <1>3, <1>4, <2>1 DEF Online
<1>6. KernelInv'
  <2>1. Waiting' = Waiting /\ guarding' = guarding /\ \A q : Overtakers(q)' = Overtakers(q)
    BY <1>1 DEF Waiting, guarding, Overtakers
  <2>2. TypeOK'
    BY <1>1, <1>5
        DEF OnlineInv, KernelInv, StructureInv, TypeOK, InputsOK, TraceOK, queueVars, workVars,
            countVars, windowVars, resultVars
  <2>3. StructureInv'
    BY <1>1, <2>1, <2>2
    DEF OnlineInv, KernelInv, StructureInv, WindowMirrorsQueue, QueuesHoldWaiting,
        AccountsOrderedByRank, BudgetFixedAtArrival, ConstantBudget, queueVars, workVars,
        countVars, windowVars
  <2>4. ScheduleFollowsClock'
    BY <1>1 DEF OnlineInv, KernelInv, ScheduleFollowsClock
  <2>5. AccountsAreSums' /\ OvertakersLimited' /\ OvertakingWorkBounded'
    BY <1>1, <2>1
        DEF OnlineInv, KernelInv, AccountsAreSums, OvertakersLimited, OvertakingWorkBounded,
            workVars, countVars
  <2> QED BY <2>3, <2>4, <2>5 DEF KernelInv
<1>7. /\ Release' = Release /\ (\A o : Done(o)' = Done(o)) /\ Waiting' = Waiting
      /\ (\A q : Arriving(q)' = Arriving(q)) /\ (Running' = Running)
  BY <1>1 DEF Release, Done, Waiting, Arriving, Running, CompletionDue, ArrivalDue, Due
<1>8. ClockInv' /\ TimeoutInv' /\ ListsInv'
  BY <1>1, <1>7 DEF OnlineInv, ClockInv, TimeoutInv, ListsInv, ListsInReadOrder
<1>9. \A q : Online(q)' = Online(q) /\ Original(q)' = Original(q)
             /\ OnlineState(q, served, Release)' = OnlineState(q, served, Release)
  BY <1>1, <1>7, OnlineStateKept, OriginalKept DEF Online, Original
<1>10. ScoresAreOnline'
  <2>1. \A q \in 0 .. next - 1 : q \in Rank \ {i}
    BY <1>2, ReplayTypes DEF Rank, OnlineInv
  <2> HIDE DEF i
  <2> QED BY <1>1, <1>5, <1>9, <2>1 DEF OnlineInv, ScoresInv, ScoresAreOnline
<1>11. decided' \in [Rank -> 0 .. 2] /\ decided'[i] = 2 /\ \A q \in Rank \ {i} : decided'[q] = decided[q]
  BY <1>1, <1>2 DEF OnlineInv, ScoresInv
<1>12. \A q \in Rank \ {i} : q >= next => decided[q] = 0 /\ score[q] = Original(q)
  BY <1>2 DEF OnlineInv, ScoresInv, Arriving
<1>13. ScoresInv'
  <2> HIDE DEF i
  <2> QED BY <1>1, <1>2, <1>5, <1>7, <1>9, <1>10, <1>11, <1>12 DEF ScoresInv
<1> QED BY <1>1, <1>6, <1>8, <1>13 DEF OnlineInv

\* A job that passes has its online score, rescored or not.
LEMMA AdmittedIsOnline ==
  ASSUME OnlineInv, AtArrival, Scored
  PROVE  next \in Rank /\ Arriving(next) /\ score[next] = Online(next)
<1>1. next \in Rank /\ Arriving(next) /\ Running
  BY ReplayTypes DEF OnlineInv, AtArrival, Arriving, ArrivalDue, Rank
<1>2. CASE decided[next] = 2 /\ score[next] = Online(next)
  BY <1>1, <1>2
<1>3. CASE decided[next] = 0 /\ score[next] = Original(next)
  <2>1. State(next) = OriginalState(next)
    BY <1>3 DEF Scored, NeedsScore
  <2>2. State(next) = OnlineState(next, served, Release)
    BY <1>1, StateOnArrival DEF OnlineInv
  <2> QED BY <1>1, <1>3, <2>1, <2>2 DEF Online, Original
<1>4. next >= next
  BY ReplayTypes DEF OnlineInv
<1> QED BY <1>1, <1>2, <1>3, <1>4 DEF OnlineInv, ScoresInv

LEMMA Decided ==
  ASSUME OnlineInv, Decide
  PROVE  decided' \in [Rank -> 0 .. 2] /\ \A q \in Rank \ {next} : decided'[q] = decided[q]
<1>1. decided \in [Rank -> 0 .. 2]
  BY DEF OnlineInv, ScoresInv
<1>2. CASE decided[next] = 0
  <2>1. decided' = [decided EXCEPT ![next] = 1] /\ 1 \in 0 .. 2
    BY <1>2 DEF Decide
  <2> QED BY <1>1, <2>1
<1>3. CASE decided[next] # 0
  BY <1>1, <1>3 DEF Decide
<1> QED BY <1>2, <1>3

LEMMA AdmitKeeps ==
  ASSUME OnlineInv, Admit
  PROVE  OnlineInv'
<1>1. /\ UNCHANGED <<a_us, s_us, score, pol, t, run, served, start, ndisp, err, avail, theta,
                     lists, pending>>
      /\ next' = next + 1 /\ AdmitArrival /\ Decide /\ pending = Nobody /\ a_us[next] <= t
      /\ Scored /\ AtArrival
  BY DEF Admit, AdmitArrival, AtArrival, ArrivalDue, inputs, resultVars, replayOnly
<1>2. KernelInv'
  BY <1>1, KernelStep DEF Next, OnlineInv
<1>3. next \in Rank /\ Arriving(next) /\ score[next] = Online(next)
  BY <1>1, AdmittedIsOnline
<1>4. Release' = Release /\ \A o : Done(o)' = Done(o)
  BY <1>1 DEF Release, Done
<1>5. ClockInv'
  <2>1. next' < N => t' <= a_us'[next']
    <3> SUFFICES ASSUME next + 1 < N PROVE t <= a_us[next + 1]
      BY <1>1
    <3>1. next + 1 \in Rank /\ next \in Nat /\ a_us[next] <= a_us[next + 1] /\ t <= a_us[next]
      BY <1>3, ReplayTypes DEF OnlineInv, Rank, ClockInv
    <3>2. a_us[next] \in Int /\ a_us[next + 1] \in Int /\ t \in Int
      BY <1>3, <3>1, ReplayTypes DEF OnlineInv
    <3> QED BY <3>1, <3>2
  <2> QED BY <1>1, <1>4, <2>1 DEF ClockInv, OnlineInv
<1>6. TimeoutInv'
  <2>1. theta # NoTimeout => pol.mode = "score" /\ fifoHead' = fifoHead
    BY <1>1 DEF OnlineInv, TimeoutInv, AdmitArrival, guarding
  <2>2. Waiting' = Waiting \cup {next}
    BY <1>1, <1>3, ReplayTypes DEF Waiting, OnlineInv, Rank
  <2>3. fifoHead \in 0 .. next
    BY DEF OnlineInv, KernelInv, StructureInv, TypeOK
  <2>4. next \in Nat
    BY ReplayTypes DEF OnlineInv
  <2> QED BY <1>1, <2>1, <2>2, <2>3, <2>4 DEF TimeoutInv, OnlineInv
<1>7. ListsInv'
  BY <1>1, <1>4 DEF OnlineInv, ListsInv, ListsInReadOrder
<1>8. \A q : Online(q)' = Online(q) /\ Original(q)' = Original(q)
             /\ OnlineState(q, served, Release)' = OnlineState(q, served, Release)
  BY <1>1, <1>4, OnlineStateKept, OriginalKept DEF Online, Original
<1>9. ScoresAreOnline'
  <2>1. \A q \in 0 .. next' - 1 : q \in 0 .. next - 1 \/ q = next
    BY <1>1, ReplayTypes DEF OnlineInv
  <2> QED BY <1>1, <1>3, <1>8, <2>1 DEF OnlineInv, ScoresInv, ScoresAreOnline, Online
<1>10. decided' \in [Rank -> 0 .. 2] /\ \A q \in Rank \ {next} : decided'[q] = decided[q]
  BY <1>1, Decided
<1>11. \A q \in Rank : q >= next' => q \in Rank \ {next} /\ q >= next
  BY <1>1, <1>3, ReplayTypes DEF OnlineInv
<1>12. \A q \in Rank \ {next} : q >= next => decided[q] = 0 /\ score[q] = Original(q)
  BY <1>3 DEF OnlineInv, ScoresInv, Arriving
<1>13. ScoresInv'
  BY <1>1, <1>8, <1>9, <1>10, <1>11, <1>12 DEF ScoresInv
<1> QED BY <1>1, <1>2, <1>5, <1>6, <1>7, <1>13 DEF OnlineInv

LEMMA OverflowKeeps ==
  ASSUME OnlineInv, Overflow
  PROVE  OnlineInv'
<1>1. /\ UNCHANGED <<a_us, s_us, score, pol, t, next, run, served, start, ndisp, avail, theta,
                     lists, pending>>
      /\ err' = TRUE /\ WindowOverflow /\ Decide /\ pending = Nobody /\ guarding
  BY DEF Overflow, WindowOverflow, AtArrival, inputs, resultVars, replayOnly
<1>2. KernelInv'
  BY <1>1, KernelStep DEF Next, OnlineInv
<1>3. Release' = Release /\ (\A o : Done(o)' = Done(o)) /\ ~Running'
  BY <1>1 DEF Release, Done, Running
<1>4. ClockInv' /\ TimeoutInv' /\ ListsInv'
  BY <1>1, <1>3 DEF OnlineInv, ClockInv, TimeoutInv, ListsInv, ListsInReadOrder, guarding
<1>5. \A q : OnlineState(q, served, Release)' = OnlineState(q, served, Release)
  BY <1>1, <1>3, OnlineStateKept
<1>6. ScoresAreOnline'
  BY <1>1, <1>5 DEF OnlineInv, ScoresInv, ScoresAreOnline
<1>7. decided' \in [Rank -> 0 .. 2]
  BY <1>1, Decided
<1>8. ScoresInv'
  BY <1>1, <1>3, <1>6, <1>7 DEF ScoresInv
<1> QED BY <1>1, <1>2, <1>4, <1>8 DEF OnlineInv

\* Whichever list it came from, the dispatched job was waiting, and starts now.
LEMMA OnlineDispatch ==
  ASSUME OnlineInv, DispatchOnline
  PROVE  /\ KernelInv' /\ DispatchEpoch /\ pending = Nobody
         /\ \E j \in Rank :
              /\ j \in Waiting /\ Waiting' = Waiting \ {j}
              /\ served' = served \cup {j} /\ run' = run \cup {j}
              /\ start' = [start EXCEPT ![j] = t]
         /\ UNCHANGED <<a_us, s_us, score, pol, t, next, avail, theta, lists, decided, pending>>
         /\ theta # NoTimeout => \A q \in Waiting' : fifoHead' <= q
<1>1. PICK j \in Rank : ChooseOnline(j)
  BY DEF DispatchOnline
<1>2. DispatchEpoch /\ \E forced \in BOOLEAN : Dispatch(j, forced)
  BY <1>1 DEF ChooseOnline, DispatchForced, DispatchBase, DispatchTimeout
<1>3. /\ served' = served \cup {j} /\ run' = run \cup {j} /\ start' = [start EXCEPT ![j] = t]
      /\ UNCHANGED <<a_us, s_us, score, pol, t, next>>
  BY <1>2 DEF Dispatch, MarkServed, inputs
<1>4. /\ KernelInv' /\ j \in Waiting /\ Waiting' = Waiting \ {j}
      /\ theta # NoTimeout => \A q \in Waiting' : fifoHead' <= q
  <2>1. CASE theta = NoTimeout
    <3>1. DispatchForced(j) \/ DispatchBase(j)
      BY <1>1, <2>1 DEF ChooseOnline
    <3>2. KernelInv'
      BY <3>1, KernelStep DEF Next, OnlineInv
    <3> QED BY <2>1, <3>1, <3>2, DispatchForcedStructure, DispatchBaseStructure
        DEF OnlineInv, KernelInv
  <2>2. CASE theta # NoTimeout
    BY <1>1, <2>2, TimeoutDispatch DEF ChooseOnline
  <2> QED BY <2>1, <2>2
<1> QED BY <1>2, <1>3, <1>4 DEF DispatchOnline, replayOnly

LEMMA DispatchKeeps ==
  ASSUME OnlineInv, DispatchOnline
  PROVE  OnlineInv'
<1>1. PICK j \in Rank : /\ j \in Waiting /\ Waiting' = Waiting \ {j}
                        /\ served' = served \cup {j} /\ run' = run \cup {j}
                        /\ start' = [start EXCEPT ![j] = t]
  BY OnlineDispatch
<1>2. /\ KernelInv' /\ DispatchEpoch /\ pending = Nobody
      /\ UNCHANGED <<a_us, s_us, score, pol, t, next, avail, theta, lists, decided, pending>>
      /\ theta # NoTimeout => \A q \in Waiting' : fifoHead' <= q
  BY OnlineDispatch
<1>3. j \notin served /\ served \subseteq Rank /\ run \subseteq served
  BY <1>1, ReplayTypes DEF Waiting, OnlineInv
<1>4. \A o \in Rank \ {j} : Release'[o] = Release[o] /\ Done(o)' = Done(o)
  BY <1>1, <1>2, ReplayTypes DEF Release, Done, OnlineInv
<1>5. Release'[j] > t /\ t \in Int
  <2>1. t \in Int /\ s_us[j] \in 1 .. L /\ L \in Nat /\ start \in [Rank -> Int]
    BY ReplayTypes DEF OnlineInv
  <2> QED BY <1>1, <1>2, <2>1 DEF Release, Done
<1>6. served' \ run' = served \ run
  BY <1>1, <1>3
<1>7. ClockInv'
  BY <1>2, <1>3, <1>4, <1>6 DEF ClockInv, OnlineInv
<1>8. TimeoutInv'
  BY <1>2 DEF TimeoutInv, OnlineInv
<1>9. ListsInv'
  <2>1. ASSUME NEW h \in Histories, NEW id \in SegmentIds(h), NEW p \in DOMAIN lists[h][id]
        PROVE  Release'[lists[h][id][p]] = Release[lists[h][id][p]]
    <3>1. lists[h][id][p] \in served
      BY DEF OnlineInv, ListsInv, ListsInReadOrder
    <3> QED BY <1>3, <1>4, <3>1
  <2>2. ASSUME NEW h \in Histories, NEW id \in SegmentIds(h), NEW p \in DOMAIN lists[h][id]
        PROVE  OwnRecord(lists[h][id][p], Release') = OwnRecord(lists[h][id][p], Release)
    BY <2>1 DEF OwnRecord
  <2> QED BY <1>2, <1>6, <2>2 DEF OnlineInv, ListsInv, ListsInReadOrder
<1>10. ScoresInv'
  <2>1. \A i \in Rank : ~Arriving(i)
    BY <1>2 DEF DispatchEpoch, Arriving
  <2>2. Running' => Running
    BY <1>2 DEF DispatchEpoch
  <2>3. ASSUME NEW i \in Rank, i < next
        PROVE  OnlineState(i, served, Release)' = OnlineState(i, served, Release)
    <3>1. a_us[i] <= t /\ a_us[i] \in Int
      <4>1. i \in 0 .. next - 1
        BY <2>3, ReplayTypes DEF OnlineInv
      <4> QED BY <4>1, ReplayTypes DEF OnlineInv, KernelInv, ScheduleFollowsClock
    <3>2. ~(Release'[j] <= a_us[i])
      <4>1. Release'[j] \in Int
        BY <1>1, <1>2, ReplayTypes DEF OnlineInv, Release, Done
      <4> QED BY <1>5, <3>1, <4>1
    <3>3. {o \in served' : Release'[o] <= a_us[i]} = {o \in served : Release[o] <= a_us[i]}
      BY <1>1, <1>3, <1>4, <3>2
    <3> QED BY <1>2, <1>3, <1>4, <3>3, OnlineStateKept
  <2> QED BY <1>2, <2>1, <2>2, <2>3, ScoresKept
<1> QED BY <1>2, <1>7, <1>8, <1>9, <1>10 DEF OnlineInv

LEMMA AdvanceKeeps ==
  ASSUME OnlineInv, Advance
  PROVE  OnlineInv'
<1>1. /\ UNCHANGED <<a_us, s_us, score, pol, next, run, served, start, fifoHead, ndisp, err,
                     avail, theta,
                     lists, decided, pending>>
      /\ AdvanceClock /\ pending = Nobody /\ ~CompletionDue /\ ~ArrivalDue
      /\ t' \in Instants /\ \A u \in Instants : t' <= u
  BY DEF Advance, AdvanceClock, inputs, queueVars, windowVars, resultVars, replayOnly
<1>2. KernelInv'
  BY <1>1, KernelStep DEF Next, OnlineInv
<1>3. Release' = Release /\ (\A o : Done(o)' = Done(o)) /\ Waiting' = Waiting /\ Running' = Running
  BY <1>1 DEF Release, Done, Waiting, Running
<1>4. t' \in Int /\ t \in Int /\ t <= t'
  <2>1. \A u \in Instants : u \in Int /\ t <= u
    <3>1. \A j \in run : Done(j) \in Int /\ t <= Done(j)
      BY <1>1, ReplayTypes DEF CompletionDue, Due, OnlineInv
    <3>2. \A i \in {next} \cap Rank : a_us[i] \in Int /\ t <= a_us[i]
      BY <1>1, ReplayTypes DEF ArrivalDue, OnlineInv, Rank
    <3> QED BY <3>1, <3>2 DEF Instants
  <2> QED BY <1>1, <2>1, ReplayTypes DEF OnlineInv
<1>5. ClockInv'
  <2>1. next < N => a_us[next] \in Instants
    BY ReplayTypes DEF Instants, OnlineInv, Rank
  <2>2. \A o \in served \ run : Done(o) <= t'
    <3>1. \A o \in served \ run : Done(o) \in Int /\ Done(o) <= t
      BY ReplayTypes DEF OnlineInv, ClockInv
    <3> QED BY <1>4, <3>1
  <2> QED BY <1>1, <1>3, <2>1, <2>2 DEF ClockInv
<1>6. TimeoutInv' /\ ListsInv'
  BY <1>1, <1>3 DEF OnlineInv, TimeoutInv, ListsInv, ListsInReadOrder
<1>7. ScoresInv'
  <2>1. \A i \in Rank : ~Arriving(i)
    BY <1>1 DEF Arriving
  <2>2. \A i : OnlineState(i, served, Release)' = OnlineState(i, served, Release)
    BY <1>1, <1>3, OnlineStateKept
  <2> QED BY <1>1, <1>3, <2>1, <2>2, ScoresKept
<1> QED BY <1>1, <1>2, <1>5, <1>6, <1>7 DEF OnlineInv

LEMMA OnlineStutterKeeps ==
  ASSUME OnlineInv, UNCHANGED onlineVars
  PROVE  OnlineInv'
<1>1. UNCHANGED <<a_us, s_us, score, pol, t, next, run, served, start, fifoHead, ndisp, err,
                  avail, theta,
                  lists, decided, pending, vars>>
  BY DEF onlineVars, vars, inputs, queueVars, windowVars, resultVars
<1>2. KernelInv'
  BY <1>1, KernelStep DEF OnlineInv
<1>3. /\ Release' = Release /\ (\A o : Done(o)' = Done(o)) /\ Waiting' = Waiting
      /\ (\A q : Arriving(q)' = Arriving(q)) /\ (Running' = Running)
  BY <1>1 DEF Release, Done, Waiting, Arriving, Running, CompletionDue, ArrivalDue, Due
<1>4. ClockInv' /\ TimeoutInv' /\ ListsInv'
  BY <1>1, <1>3 DEF OnlineInv, ClockInv, TimeoutInv, ListsInv, ListsInReadOrder
<1>5. \A q : Online(q)' = Online(q) /\ Original(q)' = Original(q)
             /\ OnlineState(q, served, Release)' = OnlineState(q, served, Release)
             /\ OriginalState(q)' = OriginalState(q)
  BY <1>1, <1>3, OnlineStateKept, OriginalKept DEF Online, Original
<1>6. ScoresAreOnline'
  BY <1>1, <1>5 DEF OnlineInv, ScoresInv, ScoresAreOnline
<1>7. ScoresInv'
  BY <1>1, <1>3, <1>5, <1>6 DEF ScoresInv, OnlineInv
<1> QED BY <1>1, <1>2, <1>4, <1>7 DEF OnlineInv

LEMMA InitOnline == OnlineInit => OnlineInv
<1> SUFFICES ASSUME OnlineInit PROVE OnlineInv
  OBVIOUS
<1>1. Init
  BY BaselineType DEF OnlineInit, Init, InputsOK
<1>2. KernelInv
  BY <1>1, InitKernel
<1>3. served = {} /\ run = {} /\ next = 0 /\ t = -1 /\ Waiting = {} /\ N \in Nat
  BY SizeAssumption DEF OnlineInit, Idle, Waiting, Rank, BeforeTime, SizeAssumption
<1>4. ClockInv
  <2>1. next < N => a_us[next] \in Nat
    <3>1. 0 < N => 0 \in Rank
      BY <1>3 DEF Rank
    <3> QED BY <1>3, <3>1, ArrivalAssumption DEF OnlineInit, TraceOK, ArrivalAssumption
  <2> QED BY <1>3, <2>1 DEF ClockInv
<1>5. TimeoutInv
  BY <1>3, TimeoutAssumption DEF OnlineInit, TimeoutInv, TimeoutAssumption
<1>6. ListsInv
  BY <1>3 DEF OnlineInit, ListsInv, ListsInReadOrder
<1>7. ScoresInv
  BY <1>3 DEF OnlineInit, ScoresInv, ScoresAreOnline, Baseline, Original, Nobody
<1> QED BY <1>2, <1>4, <1>5, <1>6, <1>7 DEF OnlineInit, OnlineInv

\* The kernel's invariant with the clock and the timeout, the lists of completed outcomes,
\* and what every score admitted so far was computed from (OnlineInv).
THEOREM OnlineInvariant == OnlineSpec => []OnlineInv
<1>1. ASSUME OnlineInv, [OnlineNext]_onlineVars PROVE OnlineInv'
  BY <1>1, CompleteKeeps, PauseKeeps, RescoreKeeps, AdmitKeeps, OverflowKeeps, DispatchKeeps,
     AdvanceKeeps, OnlineStutterKeeps
      DEF OnlineNext, Ended
<1> QED BY <1>1, InitOnline, PTL DEF OnlineSpec

---------------------------------------------------------------------------
(* What the runs check.                                                    *)

\* The lists hold exactly the finished jobs, in the order the sweep absorbs records,
\* whatever order the heap popped them in (ListsInReadOrder).
THEOREM ListsAreSorted == OnlineSpec => []ListsInReadOrder
<1>1. OnlineInv => ListsInReadOrder
  BY DEF OnlineInv, ListsInv
<1> QED BY <1>1, OnlineInvariant, PTL

\* Every admitted job was queued with the score the finished schedule gives it
\* (ScoresAreOnline), whatever finished since.
THEOREM AdmittedScoresAreOnline == OnlineSpec => []ScoresAreOnline
<1>1. OnlineInv => ScoresAreOnline
  BY DEF OnlineInv, ScoresInv
<1> QED BY <1>1, OnlineInvariant, PTL

\* The loop is left only for a job whose state the replay changed
\* (PausesOnlyForChangedState): the window merged from the ends is the rebuilt one.
THEOREM PausesAreNeeded == OnlineSpec => []PausesOnlyForChangedState
<1>1. OnlineInv => PausesOnlyForChangedState
  BY DEF OnlineInv, ScoresInv, PausesOnlyForChangedState
<1> QED BY <1>1, OnlineInvariant, PTL

\* Neither the pauses nor the timeout take the kernel's promises away: work that passes
\* a waiting job and passes by the skip wrapper stay bounded.
THEOREM OnlinePromises == OnlineSpec => [](OvertakingWorkBounded /\ OvertakersLimited)
<1>1. OnlineInv => OvertakingWorkBounded /\ OvertakersLimited
  BY DEF OnlineInv, KernelInv
<1> QED BY <1>1, OnlineInvariant, PTL

---------------------------------------------------------------------------
(* The replay implements OnlineRule.                                       *)

\* OnlineRule builds on the rule the kernel implements.
LEMMA SameRule ==
  /\ \A c : Rule!Charge(c) <=> OnlineRuleSpec!Charge(c)
  /\ Rule!Arrive <=> OnlineRuleSpec!Arrive
  /\ \A j : Rule!Serve(j) <=> OnlineRuleSpec!Serve(j)
  /\ \A j : Rule!Chosen(j) <=> OnlineRuleSpec!Chosen(j)
  /\ Rule!Tick <=> OnlineRuleSpec!Tick
  /\ Rule!Init <=> OnlineRuleSpec!Init
  /\ Rule!vars = OnlineRuleSpec!vars /\ Rule!Rank = OnlineRuleSpec!Rank
  /\ Rule!CompletionDue = OnlineRuleSpec!CompletionDue /\ Rule!ArrivalDue = OnlineRuleSpec!ArrivalDue
<1> USE DEF Rule!Done, OnlineRuleSpec!Done, Rule!inputs, OnlineRuleSpec!inputs, Rule!Rank,
            OnlineRuleSpec!Rank, Rule!NotStarted, OnlineRuleSpec!NotStarted
<1>1. Rule!CompletionDue = OnlineRuleSpec!CompletionDue /\ Rule!ArrivalDue = OnlineRuleSpec!ArrivalDue
  BY DEF Rule!CompletionDue, OnlineRuleSpec!CompletionDue, Rule!ArrivalDue,
         OnlineRuleSpec!ArrivalDue
<1>2. Rule!AllStarted <=> OnlineRuleSpec!AllStarted
  BY DEF Rule!AllStarted, OnlineRuleSpec!AllStarted
<1>3. Rule!Instants = OnlineRuleSpec!Instants
  BY DEF Rule!Instants, OnlineRuleSpec!Instants
<1>4. \A S : Rule!Cardinality(S) = OnlineRuleSpec!Cardinality(S)
  BY DEF Rule!Cardinality, OnlineRuleSpec!Cardinality
<1>5. Rule!CanDispatch <=> OnlineRuleSpec!CanDispatch
  BY <1>4 DEF Rule!CanDispatch, OnlineRuleSpec!CanDispatch
<1>6. \A c : Rule!Charge(c) <=> OnlineRuleSpec!Charge(c)
  BY <1>2 DEF Rule!Charge, OnlineRuleSpec!Charge
<1>7. Rule!Arrive <=> OnlineRuleSpec!Arrive
  BY <1>1, <1>4 DEF Rule!Arrive, OnlineRuleSpec!Arrive
<1>8. \A j : Rule!Serve(j) <=> OnlineRuleSpec!Serve(j)
  BY <1>1, <1>5 DEF Rule!Serve, OnlineRuleSpec!Serve
<1>9. Rule!Tick <=> OnlineRuleSpec!Tick
  BY <1>1, <1>2, <1>3, <1>5
      DEF Rule!Tick, OnlineRuleSpec!Tick, Rule!account, OnlineRuleSpec!account
<1>10. \A j : Rule!Chosen(j) <=> OnlineRuleSpec!Chosen(j)
  <2>1. \A q : Rule!Spent(q) <=> OnlineRuleSpec!Spent(q)
    BY DEF Rule!Spent, OnlineRuleSpec!Spent
  <2>2. Rule!Fired = OnlineRuleSpec!Fired
    BY <2>1 DEF Rule!Fired, OnlineRuleSpec!Fired
  <2>3. \A q, j : Rule!Before(q, j) <=> OnlineRuleSpec!Before(q, j)
    BY DEF Rule!Before, OnlineRuleSpec!Before
  <2> QED BY <2>2, <2>3 DEF Rule!Chosen, OnlineRuleSpec!Chosen
<1>11. Rule!Init <=> OnlineRuleSpec!Init
  BY DEF Rule!Init, OnlineRuleSpec!Init, Rule!InputsOK, OnlineRuleSpec!InputsOK, Rule!TraceOK,
         OnlineRuleSpec!TraceOK, Rule!BeforeTime, OnlineRuleSpec!BeforeTime
<1>12. Rule!vars = OnlineRuleSpec!vars
  BY DEF Rule!vars, OnlineRuleSpec!vars, Rule!account, OnlineRuleSpec!account
<1> QED BY <1>1, <1>6, <1>7, <1>8, <1>9, <1>10, <1>11, <1>12

\* It reads the same history.
LEMMA SameHistory ==
  /\ \A i, own, release : OnlineRuleSpec!Rebuilt(i, own, release) = Rebuilt(i, own, release)
  /\ OnlineRuleSpec!Logs = Logs /\ OnlineRuleSpec!Baseline = Baseline
<1> USE DEF OnlineRuleSpec!Rank, Rank, OnlineRuleSpec!Histories, Histories,
            OnlineRuleSpec!SegmentOf, SegmentOf
<1>1. \A S : OnlineRuleSpec!Cardinality(S) = Cardinality(S)
  BY DEF OnlineRuleSpec!Cardinality, Cardinality
<1>2. \A x, y : OnlineRuleSpec!Newer(x, y) <=> Newer(x, y)
  BY DEF OnlineRuleSpec!Newer, Newer
<1>3. \A S : OnlineRuleSpec!Newest(S) = Newest(S)
  BY <1>1, <1>2 DEF OnlineRuleSpec!Newest, Newest
<1>4. \A x, now : OnlineRuleSpec!ReadAt(x, now) <=> ReadAt(x, now)
  BY DEF OnlineRuleSpec!ReadAt, ReadAt
<1>5. \A h, i : OnlineRuleSpec!ExternalsRead(h, i) = ExternalsRead(h, i)
  <2>1. \A h, id, now : OnlineRuleSpec!VisibleExternals(h, id, now) = VisibleExternals(h, id, now)
    BY <1>1, <1>4 DEF OnlineRuleSpec!VisibleExternals, VisibleExternals
  <2> QED BY <2>1 DEF OnlineRuleSpec!ExternalsRead, ExternalsRead
<1>6. \A o, release : OnlineRuleSpec!OwnRecord(o, release) = OwnRecord(o, release)
  BY DEF OnlineRuleSpec!OwnRecord, OwnRecord
<1>7. \A h, i, own, release :
        OnlineRuleSpec!RebuiltPart(h, i, own, release) = RebuiltPart(h, i, own, release)
  BY <1>3, <1>5, <1>6, ZenonT(40) DEF OnlineRuleSpec!RebuiltPart, RebuiltPart
<1>8. \A i, own, release : OnlineRuleSpec!Rebuilt(i, own, release) = Rebuilt(i, own, release)
  BY <1>7 DEF OnlineRuleSpec!Rebuilt, Rebuilt
<1>9. OnlineRuleSpec!Baseline = Baseline
  <2>1. \A i : OnlineRuleSpec!OriginalState(i) = OriginalState(i)
    BY <1>8 DEF OnlineRuleSpec!OriginalState, OriginalState
  <2> QED BY <2>1 DEF OnlineRuleSpec!Baseline, Baseline
<1>10. OnlineRuleSpec!Logs = Logs
  BY DEF OnlineRuleSpec!Logs, Logs
<1> QED BY <1>8, <1>9, <1>10

\* The score the rule settles on arrival is the online score.
LEMMA SettledIsOnline ==
  ASSUME OnlineInv, NEW i \in Rank, Arriving(i)
  PROVE  OnlineRuleSpec!ScoreOnArrival(i) = Online(i)
<1>1. OnlineRuleSpec!Retired = served \ run
  <2>1. \A o \in Rank : start[o] # NotStarted <=> o \in served
    BY ReplayTypes
        DEF OnlineInv, KernelInv, ScheduleFollowsClock, StructureInv, TypeOK, InputsOK, TraceOK,
            NotStarted
  <2> QED BY <2>1, ReplayTypes
      DEF OnlineRuleSpec!Retired, OnlineRuleSpec!Rank, Rank, OnlineRuleSpec!NotStarted,
          NotStarted, OnlineInv
<1>2. OnlineRuleSpec!FinishOf = Release
  BY DEF OnlineRuleSpec!FinishOf, OnlineRuleSpec!Rank, Rank, OnlineRuleSpec!Done, Done, Release
<1>3. {o \in served : Release[o] <= a_us[i]} = served \ run
  BY FinishedOnArrival DEF OnlineInv
<1> QED BY <1>1, <1>2, <1>3, SameHistory DEF OnlineRuleSpec!ScoreOnArrival, Online, OnlineState

LEMMA RescoreIsSettle ==
  ASSUME OnlineInv, Rescore
  PROVE  OnlineRuleSpec!Settle /\ UNCHANGED <<avail, theta>>
<1>1. pending = next /\ next \in Rank /\ Arriving(next)
  <2>1. Arriving(pending)
    BY DEF Rescore, OnlineInv, ScoresInv
  <2> QED BY <2>1, ReplayTypes DEF Arriving, ArrivalDue, OnlineInv, Rank
<1>2. ~OnlineRuleSpec!CompletionDue /\ OnlineRuleSpec!ArrivalDue
  BY <1>1, SameGuards, SameRule DEF Arriving, OnlineInv, KernelInv
<1>3. score' = [score EXCEPT ![next] = OnlineRuleSpec!ScoreOnArrival(next)]
  BY <1>1, RebuiltOnArrival, SettledIsOnline DEF Rescore, Online, OnlineInv
<1>4. /\ UNCHANGED <<a_us, s_us, pol, t, next, run, start, dispatchIndex, ndisp, served,
                     completedWork,
                     fenWork, dispatchedRanks, fenCount, ahead, avail, theta>>
  BY DEF Rescore, workVars, countVars, windowVars, resultVars, replayOnly
<1>5. Waiting' = Waiting
  BY <1>4 DEF Waiting
<1> QED BY <1>2, <1>3, <1>4, <1>5 DEF OnlineRuleSpec!Settle, OnlineRuleSpec!account

LEMMA AdmitIsArrive ==
  ASSUME OnlineInv, Admit
  PROVE  OnlineRuleSpec!ArriveScored /\ UNCHANGED <<avail, theta>>
<1>1. Rule!Arrive
  BY AdmissionIsArrival DEF Admit, OnlineInv, KernelInv
<1>2. score[next] = OnlineRuleSpec!ScoreOnArrival(next)
  BY AdmittedIsOnline, SettledIsOnline DEF Admit
<1> QED BY <1>1, <1>2, SameRule DEF OnlineRuleSpec!ArriveScored, Admit, replayOnly

LEMMA TimeoutIsChosen ==
  ASSUME OnlineInv, theta # NoTimeout, NEW j \in Rank, DispatchTimeout(j)
  PROVE  OnlineRuleSpec!ChosenByTimeout(j)
<1>1. FifoHead \in Waiting /\ (\A q \in Waiting : FifoHead <= q) /\ j \in Waiting
      /\ pol.mode # "fcfs" /\ StructureInv
  BY TimeoutHeadIsOldest, TimeoutDispatch
  DEF DispatchTimeout, DispatchEpoch, CanDispatch, OnlineInv, KernelInv
<1>2. \A q \in Waiting : q \in Rank /\ a_us[q] \in Int /\ t \in Int /\ theta \in Int
                         /\ a_us[FifoHead] \in Int /\ a_us[FifoHead] <= a_us[q]
  BY <1>1, ReplayTypes DEF Waiting, OnlineInv, TimeoutInv
<1>3. OnlineRuleSpec!TimedOut = {q \in Waiting : t - a_us[q] >= theta}
  BY DEF OnlineRuleSpec!TimedOut
<1>4. CASE HeadTimedOut /\ j = FifoHead
  BY <1>1, <1>3, <1>4 DEF HeadTimedOut, OnlineRuleSpec!ChosenByTimeout
<1>5. CASE ~HeadTimedOut /\ IsBaseChoice(j)
  <2>1. OnlineRuleSpec!TimedOut = {}
    BY <1>2, <1>3, <1>5 DEF HeadTimedOut
  <2>2. \A q \in Waiting \ {j} : Before(j, q)
    BY <1>1, <1>5 DEF IsBaseChoice, StructureInv, QueuesHoldWaiting, Waiting
  <2> QED BY <1>1, <2>1, <2>2 DEF OnlineRuleSpec!ChosenByTimeout, OnlineRuleSpec!Before, Before
<1> QED BY <1>4, <1>5 DEF DispatchTimeout

LEMMA DispatchIsChoice ==
  ASSUME OnlineInv, DispatchOnline
  PROVE  (\E j \in Rank : OnlineRuleSpec!Choose(j) /\ OnlineRuleSpec!Serve(j)) /\ UNCHANGED <<avail, theta>>
<1>1. PICK j \in Rank : ChooseOnline(j)
  BY DEF DispatchOnline
<1>2. StructureInv /\ ScheduleFollowsClock /\ OnlineRuleSpec!NoTimeout = NoTimeout
  BY DEF OnlineInv, KernelInv, OnlineRuleSpec!NoTimeout, NoTimeout
<1>3. CASE theta = NoTimeout
  <2>1. DispatchForced(j) \/ DispatchBase(j)
    BY <1>1, <1>3 DEF ChooseOnline
  <2>2. Rule!Chosen(j) /\ Waiting' = Waiting \ {j}
    BY <1>2, <2>1, ForcedIsChosen, BaseIsChosen, DispatchForcedStructure, DispatchBaseStructure
  <2>3. Rule!Serve(j)
    BY <1>2, <2>1, <2>2, DispatchIsServe DEF DispatchForced, DispatchBase
  <2>4. OnlineRuleSpec!Choose(j)
    BY <1>2, <1>3, <2>2, SameRule DEF OnlineRuleSpec!Choose
  <2> QED BY <2>3, <2>4, SameRule DEF DispatchOnline, replayOnly
<1>4. CASE theta # NoTimeout
  <2>1. DispatchTimeout(j)
    BY <1>1, <1>4 DEF ChooseOnline
  <2>2. Waiting' = Waiting \ {j} /\ OnlineRuleSpec!ChosenByTimeout(j)
    BY <1>4, <2>1, TimeoutDispatch, TimeoutIsChosen
  <2>3. Rule!Serve(j)
    BY <1>2, <2>1, <2>2, DispatchIsServe DEF DispatchTimeout
  <2>4. OnlineRuleSpec!Choose(j)
    BY <1>2, <1>4, <2>2 DEF OnlineRuleSpec!Choose
  <2> QED BY <2>3, <2>4, SameRule DEF DispatchOnline, replayOnly
<1> QED BY <1>3, <1>4

\* Pauses, errors and the end are not seen by the rule.
LEMMA OnlineHiddenStep ==
  ASSUME OnlineInv, Pause \/ Overflow \/ Ended \/ UNCHANGED onlineVars
  PROVE  UNCHANGED OnlineRuleSpec!onlineVars
<1>1. (WindowOverflow \/ UNCHANGED vars) /\ UNCHANGED <<avail, theta>>
  BY DEF Pause, Overflow, Ended, onlineVars, replayOnly
<1>2. UNCHANGED Rule!vars
  BY <1>1, HiddenStep DEF OnlineInv, KernelInv
<1>3. UNCHANGED OnlineRuleSpec!vars
  BY <1>2
      DEF Rule!vars, OnlineRuleSpec!vars, Rule!account, OnlineRuleSpec!account, Rule!inputs,
          OnlineRuleSpec!inputs
<1> QED BY <1>1, <1>3 DEF OnlineRuleSpec!onlineVars

\* Every run of the replay with pauses is a run of the rule where scores are settled on
\* arrival (RefinesOnlineRule): what lists, signatures, pauses, the incremental window
\* and the resumed loop compute is what the definitions say.
THEOREM ReplayImplementsRule == OnlineSpec => RefinesOnlineRule
<1>1. OnlineInit => OnlineRuleSpec!OnlineInit
  <2> SUFFICES ASSUME OnlineInit PROVE OnlineRuleSpec!OnlineInit
    OBVIOUS
  <2>1. Init
    BY BaselineType DEF OnlineInit, Init, InputsOK
  <2>2. OnlineRuleSpec!Init
    BY <2>1, InitIsInit, SameRule
  <2> QED BY <2>2, SameHistory DEF OnlineRuleSpec!OnlineInit, OnlineInit
<1>2. ASSUME OnlineInv, [OnlineNext]_onlineVars
      PROVE  [OnlineRuleSpec!OnlineNext]_(OnlineRuleSpec!onlineVars)
  <2> USE DEF OnlineRuleSpec!OnlineNext
  <2>0. StructureInv /\ ScheduleFollowsClock /\ OnlineRuleSpec!Rank = Rank
    BY <1>2, SameGuards, SameRule DEF OnlineInv, KernelInv
  <2>1. ASSUME NEW c \in Rank, Complete(c) PROVE OnlineRuleSpec!OnlineNext
    <3>1. Rule!Charge(c) /\ UNCHANGED <<avail, theta>>
      BY <2>0, <2>1, CompletionIsCharge DEF Complete, replayOnly
    <3> QED BY <2>0, <3>1, SameRule
  <2>2. CASE Rescore
    BY <1>2, <2>2, RescoreIsSettle
  <2>3. CASE Admit
    BY <1>2, <2>3, AdmitIsArrive
  <2>4. CASE DispatchOnline
    BY <1>2, <2>0, <2>4, DispatchIsChoice
  <2>5. CASE Advance
    <3>1. Rule!Tick /\ UNCHANGED <<avail, theta>>
      BY <2>0, <2>5, ClockIsTick DEF Advance, replayOnly
    <3> QED BY <3>1, SameRule
  <2>6. CASE Pause \/ Overflow \/ Ended \/ UNCHANGED onlineVars
    BY <1>2, <2>6, OnlineHiddenStep
  <2> QED BY <1>2, <2>1, <2>2, <2>3, <2>4, <2>5, <2>6 DEF OnlineNext
<1> QED BY <1>1, <1>2, OnlineInvariant, PTL
    DEF OnlineSpec, RefinesOnlineRule, OnlineRuleSpec!OnlineSpec
=============================================================================
