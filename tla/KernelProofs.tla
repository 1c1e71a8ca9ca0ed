---------------------------- MODULE KernelProofs ----------------------------
(***************************************************************************)
(* Proofs, for every trace, policy, number of servers and window, of what  *)
(* KernelProperties.tla states.                                            *)
(*                                                                         *)
(* The structures mirror the queue: StructureInv is inductive.             *)
(*                                                                         *)
(* The kernel implements the rule of sim/reference.py, Spec => Rule!Spec:  *)
(* the heaps, the prefix sums, the sliding window, the clipping of the     *)
(* budget and the head shortcut of the cap change no decision.             *)
(*                                                                         *)
(* The accounts are the work they stand for, and the work and the jobs     *)
(* that pass a waiting job stay below what the policy promises: KernelInv. *)
(*                                                                         *)
(* No server is idle while a job waits, at any moment of a run, and what   *)
(* has passed a job is what its budget allowed: ScheduleInv.  A finished   *)
(* run is so one of the schedules of ScheduleTheorems.tla, and the bounds  *)
(* of sim/bounds.py against first come first served follow.                *)
(*                                                                         *)
(* Given the trace and the policy, who starts next, and when, follows from *)
(* the scores of the jobs that have arrived: a schedule is determined, and *)
(* up to an instant by the scores of those that arrive before it.          *)
(***************************************************************************)
EXTENDS PerJobBounds, WorkTheorems

\* The inputs have the types the kernel computes with.
LEMMA InputTypes ==
  ASSUME InputsOK
  PROVE  /\ a_us \in [Rank -> Int] /\ s_us \in [Rank -> 1 .. L]
         /\ score \in [Rank -> Int] /\ pol \in PolicyType
         /\ N \in Nat /\ N > 0 /\ L \in Nat
<1>1. N \in Nat /\ N > 0 /\ L \in Nat
  BY SizeAssumption DEF SizeAssumption
<1>2. a_us \in [Rank -> Int]
  BY ArrivalAssumption DEF InputsOK, TraceOK, ArrivalAssumption
<1>3. s_us \in [Rank -> 1 .. L]
  BY ServiceAssumption DEF InputsOK, TraceOK, ServiceAssumption
<1>4. score \in [Rank -> Int]
  BY ScoreAssumption DEF InputsOK, TraceOK, ScoreAssumption
<1>5. pol \in PolicyType
  BY PolicyAssumption DEF InputsOK, TraceOK, PolicyAssumption
<1> QED BY <1>1, <1>2, <1>3, <1>4, <1>5

\* The queue is a finite set of ranks, and empty when the counter says so.
LEMMA WaitingFinite ==
  ASSUME TypeOK
  PROVE  Waiting \subseteq Rank /\ IsFiniteSet(Waiting)
<1>1. IsFiniteSet(Rank)
  BY FS_Interval, SizeAssumption DEF Rank, SizeAssumption
<1> QED BY <1>1, FS_Subset DEF Waiting

\* The first unserved rank at or after the fifo index exists while a job waits and
\* is the oldest waiting job.
LEMMA HeadIsOldest ==
  ASSUME TypeOK, QueuesHoldWaiting, pol.mode # "score", nwait > 0
  PROVE  /\ IsFifoHead(FifoHead) /\ FifoHead \in Waiting
         /\ \A q \in Waiting : FifoHead <= q
<1>1. Waiting # {} /\ Waiting \in SUBSET Nat
  <2>1. Waiting # {}
    BY FS_EmptySet DEF QueuesHoldWaiting
  <2> QED BY <2>1, SizeAssumption DEF Waiting, Rank, SizeAssumption
<1>2. PICK h \in Waiting : \A q \in Waiting : h <= q
  BY <1>1, NatMin
<1>3. IsFifoHead(h) /\ h \in Rank
  BY <1>2, SizeAssumption
      DEF IsFifoHead, QueuesHoldWaiting, Waiting, TypeOK, Rank, SizeAssumption
<1>4. IsFifoHead(FifoHead) /\ FifoHead \in Rank
  BY <1>3 DEF FifoHead
<1>5. FifoHead \in Waiting
  BY <1>4 DEF IsFifoHead, Waiting, TypeOK, Rank
<1>6. FifoHead <= h
  BY <1>3, <1>4, SizeAssumption DEF IsFifoHead, TypeOK, Rank, SizeAssumption
<1> QED BY <1>2, <1>4, <1>5, <1>6, SizeAssumption DEF Waiting, Rank, SizeAssumption

---------------------------------------------------------------------------
(* StructureInv holds initially and every action preserves it.             *)

LEMMA InitStructure == Init => StructureInv
<1> SUFFICES ASSUME Init PROVE StructureInv
  OBVIOUS
<1> USE SizeAssumption DEF Init, Idle, SizeAssumption
<1>1. Waiting = {}
  BY DEF Waiting
<1>2. TypeOK
  <2>1. served \subseteq 0 .. next - 1 /\ run \subseteq served /\ heap \subseteq 0 .. next - 1
    OBVIOUS
  <2>2. DOMAIN leaf = {}
    OBVIOUS
  <2>3. /\ start \in [Rank -> Int] /\ dispatchIndex \in [Rank -> Int]
        /\ fenWork \in [Rank -> Int] /\ fenCount \in [Rank -> Int]
        /\ zs \in [Rank -> Int] /\ ahead \in [Rank -> Int]
    BY DEF NotStarted
  <2>0. err \in BOOLEAN
    OBVIOUS
  <2>4. /\ t \in Int /\ next \in 0 .. N /\ fifoHead \in 0 .. next
        /\ completedWork \in Int /\ dispatchedRanks \in Int /\ base \in Int
    BY DEF BeforeTime
  <2>5. {ndisp, nwait, nforced, qwTotal, qwForced, nrebuild, maxSpan} \subseteq Int
    OBVIOUS
  <2> QED BY <2>0, <2>1, <2>2, <2>3, <2>4, <2>5 DEF TypeOK
<1>3. WindowMirrorsQueue
  BY <1>1 DEF WindowMirrorsQueue
<1>4. QueuesHoldWaiting
  BY <1>1, FS_EmptySet DEF QueuesHoldWaiting
<1>5. AccountsOrderedByRank
  BY DEF AccountsOrderedByRank, Rank
<1>6. BudgetFixedAtArrival
  BY <1>1 DEF BudgetFixedAtArrival
<1> QED BY <1>2, <1>3, <1>4, <1>5, <1>6 DEF StructureInv

\* A suffix add keeps a function's domain and the integers integers.
LEMMA AddSuffixType ==
  ASSUME NEW f, NEW from \in Int, NEW v \in Int,
         DOMAIN f \subseteq Int, \A y \in DOMAIN f : f[y] \in Int
  PROVE  /\ DOMAIN AddSuffix(f, from, v) = DOMAIN f
         /\ \A y \in DOMAIN f : /\ AddSuffix(f, from, v)[y] \in Int
                                /\ AddSuffix(f, from, v)[y] =
                                     IF y >= from THEN f[y] + v ELSE f[y]
  BY DEF AddSuffix

LEMMA CompletionStructure ==
  ASSUME StructureInv, NEW c \in Rank, ApplyCompletion(c)
  PROVE  StructureInv'
<1> USE DEF StructureInv
<1>1. InputsOK /\ s_us[c] \in 1 .. L /\ L \in Nat /\ pol.ed \in Nat \ {0} /\ N \in Nat
  BY InputTypes DEF TypeOK, PolicyType
<1>2. c \in 0 .. next - 1 /\ c \in served /\ next \in 0 .. N /\ base \in Int /\ c \in Int
  BY <1>1 DEF ApplyCompletion, TypeOK, Rank
<1>3. Waiting' = Waiting /\ pol' = pol /\ s_us' = s_us /\ a_us' = a_us /\ guarding' = guarding
  BY DEF ApplyCompletion, Waiting, inputs, guarding
<1>4. CASE ~guarding
  <2>1. UNCHANGED <<completedWork, fenWork, leaf, dispatchedRanks, fenCount>>
    BY <1>4 DEF ApplyCompletion, workVars, countVars
  <2>2. TypeOK'
    BY <2>1 DEF ApplyCompletion, TypeOK, InputsOK, TraceOK, inputs, queueVars, resultVars
  <2>3. QueuesHoldWaiting'
    BY <1>3 DEF ApplyCompletion, QueuesHoldWaiting, queueVars
  <2>4. AccountsOrderedByRank'
    BY <2>1 DEF ApplyCompletion, AccountsOrderedByRank
  <2> QED BY <1>3, <1>4, <2>2, <2>3, <2>4 DEF WindowMirrorsQueue, BudgetFixedAtArrival
<1>5. CASE guarding
  <2> DEFINE w == s_us[c]
             x == pol.ed * w
  <2>1. w \in Nat /\ x \in Int /\ -x \in Int
    BY <1>1
  <2> HIDE DEF w, x
  <2>2. /\ completedWork' = completedWork + w
        /\ fenWork' = AddSuffix(fenWork, c, w)
        /\ leaf' = AddSuffix(leaf, c - base, -x)
    <3>1. -x = - pol.ed * s_us[c]
      BY <1>1 DEF x, w
    <3> QED BY <1>5, <3>1 DEF ApplyCompletion, ChargedLeaf, w
  <2>3. UNCHANGED <<t, next, served, start, base, zs, err, ahead, dispatchedRanks, fenCount>>
    BY DEF ApplyCompletion, resultVars, countVars
  <2>4. /\ fenWork' \in [Rank -> Int]
        /\ \A q \in Rank : fenWork'[q] = IF q >= c THEN fenWork[q] + w ELSE fenWork[q]
    <3>1. fenWork \in [Rank -> Int] /\ \A q \in Rank : q \in Int
      BY <1>1 DEF TypeOK, Rank
    <3>2. fenWork' = [y \in Rank |-> IF y >= c THEN fenWork[y] + w ELSE fenWork[y]]
      BY <2>2, <3>1 DEF AddSuffix
    <3> QED BY <2>1, <3>1, <3>2
  <2>5. /\ DOMAIN leaf' = DOMAIN leaf
        /\ \A y \in DOMAIN leaf :
             /\ leaf'[y] \in Int
             /\ leaf'[y] = IF y >= c - base THEN leaf[y] - x ELSE leaf[y]
    BY <1>2, <2>1, <2>2, AddSuffixType DEF TypeOK
  <2>6. TypeOK'
    BY <1>1, <2>1, <2>2, <2>4, <2>5
    DEF ApplyCompletion, TypeOK, InputsOK, TraceOK, inputs, queueVars, resultVars, countVars
  <2>7. QueuesHoldWaiting'
    BY <1>3 DEF ApplyCompletion, QueuesHoldWaiting, queueVars
  <2>8. WindowMirrorsQueue'
    <3>1. \A q \in Waiting : leaf'[q - base] = zs[q] - pol.ed * fenWork'[q]
      <4> SUFFICES ASSUME NEW q \in Waiting PROVE leaf'[q - base] = zs[q] - pol.ed * fenWork'[q]
        OBVIOUS
      <4>1. q \in Rank /\ q \in Int /\ zs[q] \in Int /\ fenWork[q] \in Int
        BY <1>1 DEF Waiting, Rank, TypeOK
      <4>2. leaf[q - base] = zs[q] - pol.ed * fenWork[q] /\ q - base \in DOMAIN leaf
        BY <1>5 DEF WindowMirrorsQueue
      <4>3. pol.ed * (fenWork[q] + w) = pol.ed * fenWork[q] + x
        BY <1>1, <2>1, <4>1 DEF x
      <4> QED BY <1>1, <1>2, <2>1, <2>4, <2>5, <4>1, <4>2, <4>3
    <3> QED BY <1>3, <1>5, <2>3, <2>5, <3>1 DEF WindowMirrorsQueue
  <2>9. AccountsOrderedByRank'
    <3> SUFFICES ASSUME NEW q \in Rank
                 PROVE  /\ \A p \in Rank : p <= q => /\ fenWork'[p] <= fenWork'[q]
                                                     /\ fenCount'[p] <= fenCount'[q]
                        /\ q >= next' => /\ fenWork'[q] = completedWork'
                                         /\ fenCount'[q] = dispatchedRanks'
      BY DEF AccountsOrderedByRank
    <3>1. q \in Int /\ fenWork[q] \in Int
      BY <1>1 DEF TypeOK, Rank
    <3>2. ASSUME NEW p \in Rank, p <= q PROVE fenWork'[p] <= fenWork'[q]
      <4>1. p \in Int /\ fenWork[p] \in Int /\ fenWork[p] <= fenWork[q]
        <5>1. fenWork[p] <= fenWork[q]
          BY <3>2 DEF AccountsOrderedByRank
        <5> QED BY <1>1, <5>1 DEF TypeOK, Rank
      <4> QED BY <1>2, <2>1, <2>4, <3>1, <3>2, <4>1
    <3>3. q >= next => fenWork'[q] = completedWork'
      BY <1>2, <2>1, <2>2, <2>4, <3>1 DEF AccountsOrderedByRank
    <3> QED BY <2>3, <3>2, <3>3 DEF AccountsOrderedByRank
  <2>10. BudgetFixedAtArrival'
    BY <1>3, <2>3 DEF BudgetFixedAtArrival, ConstantBudget
  <2> QED BY <2>6, <2>7, <2>8, <2>9, <2>10
<1> QED BY <1>4, <1>5

\* Once room is made for the next rank, the window mirrors the queue from its
\* (possibly new) base and the new rank fits behind it.
LEMMA RoomMade ==
  ASSUME StructureInv, guarding, next \in Rank, next - WindowBase(next) < Mslots
  PROVE  /\ WindowBase(next) \in Int /\ next - WindowBase(next) \in 0 .. Mslots - 1
         /\ DOMAIN WindowLeaf(next) = {q - WindowBase(next) : q \in Waiting}
         /\ \A q \in Waiting :
              /\ q - WindowBase(next) \in 0 .. Mslots - 1
              /\ WindowLeaf(next)[q - WindowBase(next)] = zs[q] - pol.ed * fenWork[q]
<1> USE DEF StructureInv
<1>1. N \in Nat /\ Mslots \in Nat \ {0} /\ base \in Int /\ next \in 0 .. N /\ nwait \in Int
  BY SizeAssumption, MslotsAssumption DEF SizeAssumption, MslotsAssumption, TypeOK
<1>2. Waiting \subseteq 0 .. next - 1 /\ \A q \in Waiting : q \in Int
  BY <1>1 DEF Waiting, Rank
<1>3. CASE nwait = 0
  <2>1. Waiting = {}
    BY <1>3, WaitingFinite, FS_EmptySet DEF QueuesHoldWaiting
  <2>2. WindowBase(next) = next /\ WindowLeaf(next) = leaf
    BY <1>3 DEF WindowBase, WindowLeaf, MustSlide
  <2>3. DOMAIN leaf = {}
    BY <2>1 DEF WindowMirrorsQueue
  <2> QED BY <1>1, <2>1, <2>2, <2>3
<1>4. CASE MustSlide(next)
  <2>1. FifoHead \in Waiting /\ \A q \in Waiting : FifoHead <= q
    BY <1>4, HeadIsOldest DEF MustSlide, guarding
  <2>2. /\ WindowBase(next) = FifoHead
        /\ WindowLeaf(next) = [p \in {q - FifoHead : q \in Waiting} |->
                                 zs[p + FifoHead] - pol.ed * fenWork[p + FifoHead]]
    BY <1>4 DEF WindowBase, WindowLeaf, MustSlide
  <2>3. \A q \in Waiting : (q - FifoHead) + FifoHead = q /\ q - FifoHead \in 0 .. Mslots - 1
    BY <1>1, <1>2, <2>1, <2>2
  <2>4. ASSUME NEW q \in Waiting
        PROVE  WindowLeaf(next)[q - FifoHead] = zs[q] - pol.ed * fenWork[q]
    BY <2>2, <2>3
  <2>5. DOMAIN WindowLeaf(next) = {q - FifoHead : q \in Waiting}
    BY <2>2
  <2>6. FifoHead \in Int /\ next - FifoHead \in 0 .. Mslots - 1
    BY <1>1, <1>2, <2>1, <2>2
  <2>7. WindowBase(next) = FifoHead
    BY <2>2
  <2>8. \A q \in Waiting : /\ q - FifoHead \in 0 .. Mslots - 1
                           /\ WindowLeaf(next)[q - FifoHead] = zs[q] - pol.ed * fenWork[q]
    BY <2>3, <2>4
  <2> QED BY <2>5, <2>6, <2>7, <2>8
<1>5. CASE nwait # 0 /\ ~MustSlide(next)
  <2>1. WindowBase(next) = base /\ WindowLeaf(next) = leaf
    BY <1>5 DEF WindowBase, WindowLeaf
  <2>2. Waiting # {}
    BY <1>5, FS_EmptySet DEF QueuesHoldWaiting
  <2>3. /\ DOMAIN leaf = {q - base : q \in Waiting}
        /\ \A q \in Waiting : /\ q - base \in 0 .. Mslots - 1
                              /\ leaf[q - base] = zs[q] - pol.ed * fenWork[q]
    BY DEF WindowMirrorsQueue
  <2>4. next - base \in 0 .. Mslots - 1
    <3>1. PICK q \in Waiting : TRUE
      BY <2>2
    <3>2. q - base \in 0 .. Mslots - 1
      BY <2>3
    <3>3. q \in Int /\ q < next
      BY <1>1, <1>2
    <3>4. next - base < Mslots
      BY <2>1
    <3> QED BY <1>1, <3>2, <3>3, <3>4
  <2> QED BY <1>1, <2>1, <2>3, <2>4
<1> QED BY <1>3, <1>4, <1>5

LEMMA PutType ==
  ASSUME NEW f, NEW x, NEW v
  PROVE  /\ DOMAIN Put(f, x, v) = DOMAIN f \cup {x}
         /\ Put(f, x, v)[x] = v
         /\ \A y \in DOMAIN f \ {x} : Put(f, x, v)[y] = f[y]
  BY DEF Put

LEMMA AdmitStructure ==
  ASSUME StructureInv, AdmitArrival
  PROVE  StructureInv'
<1> USE DEF StructureInv
<1>1. /\ InputsOK /\ a_us \in [Rank -> Int] /\ pol \in PolicyType /\ N \in Nat
      /\ Mslots \in Nat
  BY InputTypes, MslotsAssumption DEF TypeOK, MslotsAssumption
<1>2. next \in Rank /\ next \in 0 .. N - 1 /\ next \in Int /\ next' = next + 1
  BY <1>1 DEF AdmitArrival, ArrivalDue, TypeOK, Rank
<1>3. UNCHANGED <<inputs, t, run, served, workVars, countVars, resultVars, err, guarding>>
  BY DEF AdmitArrival, guarding, inputs
<1>4. Waiting' = Waiting \cup {next} /\ next \notin Waiting
  BY <1>1, <1>2, <1>3 DEF Waiting, TypeOK, Rank
<1>5. \A q \in Waiting : q \in Rank /\ q < next /\ q # next
  BY <1>2 DEF Waiting, Rank
<1>6. QueuesHoldWaiting' /\ fifoHead' \in 0 .. next'
  <2>1. nwait' = Cardinality(Waiting')
    BY <1>4, WaitingFinite, FS_AddElement DEF QueuesHoldWaiting, AdmitArrival
  <2>2. pol.mode # "fcfs" => Waiting' \subseteq heap'
    BY <1>4 DEF QueuesHoldWaiting, AdmitArrival
  <2>3. CASE guarding /\ MustSlide(next)
    <3>1. fifoHead' = FifoHead
      BY <2>3 DEF AdmitArrival, RegisterInWindow
    <3>2. FifoHead \in Waiting /\ \A q \in Waiting : FifoHead <= q
      BY <2>3, HeadIsOldest DEF MustSlide, guarding
    <3> QED BY <1>2, <1>3, <1>4, <1>5, <2>1, <2>2, <3>1, <3>2
        DEF QueuesHoldWaiting, inputs, Rank
  <2>4. CASE ~(guarding /\ MustSlide(next))
    <3>1. fifoHead' = fifoHead
      BY <2>4 DEF AdmitArrival, RegisterInWindow
    <3> QED BY <1>2, <1>3, <1>4, <1>5, <2>1, <2>2, <3>1
        DEF QueuesHoldWaiting, inputs, Rank, TypeOK
  <2> QED BY <2>3, <2>4
<1>7. AccountsOrderedByRank'
  BY <1>1, <1>2, <1>3 DEF AccountsOrderedByRank, workVars, countVars, Rank
<1>8. heap' \subseteq 0 .. next' - 1 /\ served' \subseteq 0 .. next' - 1 /\ next' \in 0 .. N
  <2>1. heap' \subseteq heap \cup {next} /\ served' = served
    BY <1>3 DEF AdmitArrival
  <2>2. heap \subseteq 0 .. next - 1 /\ served \subseteq 0 .. next - 1
    BY DEF TypeOK
  <2> QED BY <1>1, <1>2, <2>1, <2>2
<1>9. CASE ~guarding
  <2>1. UNCHANGED <<zs, leaf, base, nrebuild, maxSpan>> /\ ahead' \in [Rank -> Int]
    BY <1>9 DEF AdmitArrival, TypeOK
  <2>2. TypeOK'
    BY <1>3, <1>6, <1>8, <2>1
        DEF TypeOK, AdmitArrival, InputsOK, TraceOK, inputs, workVars, countVars, resultVars
  <2> QED BY <1>3, <1>6, <1>7, <1>9, <2>2 DEF WindowMirrorsQueue, BudgetFixedAtArrival
<1>10. CASE guarding
  <2> DEFINE nb == WindowBase(next)
             wl == WindowLeaf(next)
             z  == pol.en * a_us[next] - pol.ed * ConstantBudget(nwait)
             v  == z - pol.ed * fenWork[next]
  <2>1. next - nb < Mslots
    BY <1>10 DEF AdmitArrival
  <2>2. /\ nb \in Int /\ next - nb \in 0 .. Mslots - 1
        /\ DOMAIN wl = {q - nb : q \in Waiting}
        /\ \A q \in Waiting : /\ q - nb \in 0 .. Mslots - 1
                              /\ wl[q - nb] = zs[q] - pol.ed * fenWork[q]
    BY <1>2, <1>10, <2>1, RoomMade
  <2>3. ConstantBudget(nwait) \in Int
    BY <1>1 DEF ConstantBudget, TypeOK, PolicyType
  <2>4. z \in Int /\ v \in Int
    BY <1>1, <1>2, <2>3 DEF TypeOK, PolicyType
  <2> HIDE DEF nb, wl, z, v
  <2>5. /\ zs' = [zs EXCEPT ![next] = z] /\ ahead' = [ahead EXCEPT ![next] = nwait]
        /\ leaf' = Put(wl, next - nb, v)
        /\ base' = nb
    BY <1>10 DEF AdmitArrival, RegisterInWindow, nb, wl, z, v
  <2>6. {nrebuild', maxSpan'} \subseteq Int
    BY <1>2, <1>10, <2>2 DEF AdmitArrival, RegisterInWindow, TypeOK, nb
  <2>7. zs' \in [Rank -> Int] /\ zs'[next] = z /\ ahead' \in [Rank -> Int]
        /\ ahead'[next] = nwait
        /\ \A q \in Waiting : zs'[q] = zs[q] /\ ahead'[q] = ahead[q]
    BY <1>2, <1>5, <2>4, <2>5 DEF TypeOK
  <2>8. /\ DOMAIN leaf' = {q - nb : q \in Waiting'}
        /\ leaf'[next - nb] = v
        /\ \A q \in Waiting : leaf'[q - nb] = zs[q] - pol.ed * fenWork[q]
    <3>1. DOMAIN leaf' = DOMAIN wl \cup {next - nb}
      BY <2>5, PutType
    <3>2. \A q \in Waiting : q - nb # next - nb /\ q - nb \in DOMAIN wl
      BY <1>2, <1>5, <2>2 DEF Rank
    <3>3. leaf'[next - nb] = v /\ \A y \in DOMAIN wl \ {next - nb} : leaf'[y] = wl[y]
      <4>1. /\ Put(wl, next - nb, v)[next - nb] = v
            /\ \A y \in DOMAIN wl \ {next - nb} : Put(wl, next - nb, v)[y] = wl[y]
        BY DEF Put
      <4> QED BY <2>5, <4>1, Zenon
    <3>4. DOMAIN leaf' = {q - nb : q \in Waiting'}
      BY <1>4, <2>2, <3>1
    <3>5. \A q \in Waiting : leaf'[q - nb] = zs[q] - pol.ed * fenWork[q]
      BY <2>2, <3>2, <3>3
    <3> QED BY <3>3, <3>4, <3>5
  <2>9. WindowMirrorsQueue'
    BY <1>3, <1>4, <2>2, <2>5, <2>7, <2>8 DEF WindowMirrorsQueue, inputs, workVars, v
  <2>10. DOMAIN leaf' \subseteq Int /\ \A y \in DOMAIN leaf' : leaf'[y] \in Int
    <3>1. \A q \in Waiting : zs[q] - pol.ed * fenWork[q] \in Int
      BY <1>1, <1>5 DEF TypeOK, PolicyType
    <3> QED BY <1>4, <2>2, <2>4, <2>8, <3>1
  <2>11. TypeOK'
    BY <1>3, <1>6, <1>8, <2>2, <2>5, <2>6, <2>7, <2>10
    DEF TypeOK, AdmitArrival, InputsOK, TraceOK, inputs, workVars, countVars, resultVars
  <2>12. BudgetFixedAtArrival'
    <3>1. UNCHANGED <<pol, a_us>> /\ \A w : ConstantBudget(w)' = ConstantBudget(w)
      BY <1>3 DEF inputs, ConstantBudget
    <3> QED BY <1>3, <1>4, <1>10, <2>7, <3>1 DEF BudgetFixedAtArrival, ConstantBudget, z
  <2> QED BY <1>6, <1>7, <2>9, <2>11, <2>12
<1> QED BY <1>9, <1>10

LEMMA OverflowStructure ==
  ASSUME StructureInv, WindowOverflow
  PROVE  StructureInv' /\ MustSlide(next)
<1> USE DEF StructureInv
<1>1. N \in Nat /\ Mslots \in Nat \ {0} /\ next \in 0 .. N /\ nwait \in Int /\ base \in Int
  BY SizeAssumption, MslotsAssumption DEF SizeAssumption, MslotsAssumption, TypeOK
<1>2. MustSlide(next)
  <2>1. next - WindowBase(next) >= Mslots
    BY DEF WindowOverflow
  <2>2. CASE nwait = 0
    <3>1. WindowBase(next) = next
      BY <2>2 DEF WindowBase
    <3> QED BY <1>1, <2>1, <3>1
  <2>3. CASE nwait # 0 /\ ~MustSlide(next)
    <3>1. WindowBase(next) = base
      BY <2>3 DEF WindowBase
    <3>2. nwait > 0
      BY <2>3, WaitingFinite, FS_CardinalityType, <1>1 DEF QueuesHoldWaiting
    <3>3. ~(next - base >= Mslots)
      BY <2>3, <3>2 DEF MustSlide
    <3> QED BY <2>1, <3>1, <3>3
  <2> QED BY <2>2, <2>3
<1>3. FifoHead \in Waiting /\ \A q \in Waiting : FifoHead <= q
  BY <1>2, HeadIsOldest DEF WindowOverflow, MustSlide, guarding
<1>4. UNCHANGED <<inputs, t, next, run, served, nwait, heap, workVars, countVars, resultVars,
                  zs, leaf, base, nrebuild, maxSpan, ahead>> /\ fifoHead' = FifoHead /\ err' = TRUE
  BY DEF WindowOverflow
<1>5. Waiting' = Waiting /\ guarding' = guarding
  BY <1>4 DEF Waiting, guarding, inputs
<1>6. fifoHead' \in 0 .. next' /\ err' \in BOOLEAN
  BY <1>1, <1>3, <1>4 DEF Waiting, Rank
<1>7. TypeOK'
  BY <1>4, <1>6 DEF TypeOK, InputsOK, TraceOK, inputs, workVars, countVars, resultVars
<1>8. QueuesHoldWaiting'
  BY <1>3, <1>4, <1>5 DEF QueuesHoldWaiting, inputs
<1> QED
  BY <1>2, <1>4, <1>5, <1>7, <1>8
  DEF WindowMirrorsQueue, AccountsOrderedByRank, BudgetFixedAtArrival, ConstantBudget,
      inputs, workVars, countVars

\* Handing out a waiting job keeps the structures, whichever rule picked it, if the
\* heap loses no other waiting job, the fifo index stays at or before every waiting
\* job, and the job's leaf is cleared.
LEMMA DispatchStructure ==
  ASSUME StructureInv, NEW j \in Rank, NEW forced \in BOOLEAN,
         j \in Waiting, Dispatch(j, forced),
         heap' \subseteq heap, pol.mode # "fcfs" => Waiting \ {j} \subseteq heap',
         fifoHead' \in 0 .. next, pol.mode # "score" => \A q \in Waiting \ {j} : fifoHead' <= q,
         leaf' = IF guarding THEN Drop(leaf, j - base) ELSE leaf
  PROVE  StructureInv' /\ Waiting' = Waiting \ {j}
<1> USE DEF StructureInv
<1>1. N \in Nat /\ next \in 0 .. N /\ j \in Int /\ nwait \in Int /\ base \in Int
  BY SizeAssumption DEF SizeAssumption, TypeOK, Rank
<1>2. /\ UNCHANGED <<inputs, t, next, workVars, zs, base, nrebuild, maxSpan, err, ahead>>
      /\ served' = served \cup {j} /\ run' = run \cup {j} /\ nwait' = nwait - 1
  BY DEF Dispatch, MarkServed
<1>3. Waiting' = Waiting \ {j} /\ guarding' = guarding
  BY <1>2 DEF Waiting, guarding, inputs
<1>4. \A q \in Waiting : q \in Int /\ q < next
  BY <1>1 DEF Waiting, Rank
<1>5. /\ fenCount' \in [Rank -> Int] /\ dispatchedRanks' \in Int
      /\ \/ UNCHANGED countVars
         \/ /\ dispatchedRanks' = dispatchedRanks + 1
            /\ \A q \in Rank : fenCount'[q] = IF q >= j THEN fenCount[q] + 1 ELSE fenCount[q]
  <2>1. fenCount \in [Rank -> Int] /\ dispatchedRanks \in Int /\ \A q \in Rank : q \in Int
    BY <1>1 DEF TypeOK, Rank
  <2>2. CASE pol.mode = "skip"
    <3>1. dispatchedRanks' = dispatchedRanks + 1 /\ fenCount' = AddSuffix(fenCount, j, 1)
      BY <2>2 DEF Dispatch
    <3>2. fenCount' = [y \in Rank |-> IF y >= j THEN fenCount[y] + 1 ELSE fenCount[y]]
      BY <2>1, <3>1 DEF AddSuffix
    <3>3. \A q \in Rank : fenCount'[q] = IF q >= j THEN fenCount[q] + 1 ELSE fenCount[q]
      BY <3>2
    <3>4. fenCount' \in [Rank -> Int]
      BY <2>1, <3>2
    <3> QED BY <2>1, <3>1, <3>3, <3>4
  <2>3. CASE pol.mode # "skip"
    <3>1. UNCHANGED countVars
      BY <2>3 DEF Dispatch
    <3> QED BY <2>1, <3>1 DEF countVars
  <2> QED BY <2>2, <2>3
<1>6. QueuesHoldWaiting'
  <2>1. nwait' = Cardinality(Waiting')
    BY <1>2, <1>3, WaitingFinite, FS_RemoveElement DEF QueuesHoldWaiting
  <2> QED BY <1>2, <1>3, <2>1 DEF QueuesHoldWaiting, inputs
<1>7. AccountsOrderedByRank'
  <2>1. CASE UNCHANGED countVars
    BY <1>2, <2>1 DEF AccountsOrderedByRank, workVars, countVars
  <2>2. CASE /\ dispatchedRanks' = dispatchedRanks + 1
             /\ \A q \in Rank : fenCount'[q] = IF q >= j THEN fenCount[q] + 1 ELSE fenCount[q]
    <3>1. ASSUME NEW p \in Rank, NEW q \in Rank, p <= q PROVE fenCount'[p] <= fenCount'[q]
      <4>1. /\ p \in Int /\ q \in Int /\ fenCount[p] \in Int /\ fenCount[q] \in Int
            /\ fenCount[p] <= fenCount[q]
        BY <1>1, <3>1 DEF TypeOK, Rank, AccountsOrderedByRank
      <4> QED BY <1>1, <2>2, <3>1, <4>1
    <3>2. ASSUME NEW q \in Rank, q >= next PROVE fenCount'[q] = dispatchedRanks'
      <4>1. q \in Int /\ fenCount[q] = dispatchedRanks /\ q >= j
        BY <1>1, <1>4, <3>2 DEF TypeOK, Rank, AccountsOrderedByRank
      <4> QED BY <2>2, <4>1
    <3> QED BY <1>2, <3>1, <3>2 DEF AccountsOrderedByRank, workVars
  <2> QED BY <1>5, <2>1, <2>2
<1>8. WindowMirrorsQueue'
  <2>1. SUFFICES ASSUME guarding PROVE WindowMirrorsQueue'
    BY <1>3 DEF WindowMirrorsQueue
  <2>2. DOMAIN leaf' = DOMAIN leaf \ {j - base} /\ \A p \in DOMAIN leaf' : leaf'[p] = leaf[p]
    BY <2>1 DEF Drop
  <2>3. DOMAIN leaf = {q - base : q \in Waiting}
    BY <2>1 DEF WindowMirrorsQueue
  <2>4. \A q \in Waiting : q # j => q - base # j - base
    BY <1>1, <1>4
  <2>5. DOMAIN leaf' = {q - base : q \in Waiting'}
    BY <1>3, <2>2, <2>3, <2>4
  <2> QED BY <1>2, <1>3, <2>1, <2>2, <2>5 DEF WindowMirrorsQueue, inputs, workVars
<1>9. DOMAIN leaf' \subseteq DOMAIN leaf /\ \A p \in DOMAIN leaf' : leaf'[p] = leaf[p]
  BY DEF Drop
<1>10. /\ start' \in [Rank -> Int] /\ dispatchIndex' \in [Rank -> Int]
       /\ {ndisp', nforced', qwTotal', qwForced'} \subseteq Int
  BY <1>1 DEF Dispatch, TypeOK
<1>11. served' \subseteq 0 .. next - 1 /\ run' \subseteq served' /\ heap' \subseteq 0 .. next - 1
  <2>1. /\ served \subseteq 0 .. next - 1 /\ run \subseteq served
        /\ heap \subseteq 0 .. next - 1
    BY DEF TypeOK
  <2>2. j \in 0 .. next - 1
    BY <1>1, <1>4 DEF Rank
  <2> QED BY <1>2, <2>1, <2>2
<1>12. TypeOK'
  BY <1>1, <1>2, <1>5, <1>9, <1>10, <1>11 DEF TypeOK, InputsOK, TraceOK, inputs, workVars
<1>13. BudgetFixedAtArrival'
  BY <1>2, <1>3 DEF BudgetFixedAtArrival, ConstantBudget, inputs
<1> QED BY <1>3, <1>6, <1>7, <1>8, <1>12, <1>13

\* The member the guard fires is a waiting job.
LEMMA FiredMemberWaits ==
  ASSUME StructureInv, guarding, nwait > 0, NEW j \in Rank, IsFiredMember(j)
  PROVE  j \in Waiting
<1>1. CASE HeadAtCap
  BY <1>1, HeadIsOldest DEF IsFiredMember, StructureInv, guarding
<1>2. CASE ~HeadAtCap
  <2>1. j - base \in DOMAIN leaf
    BY <1>2 DEF IsFiredMember, FiredPositions, AtLeast
  <2>2. PICK q \in Waiting : j - base = q - base
    BY <2>1 DEF StructureInv, WindowMirrorsQueue
  <2>3. q \in Int /\ j \in Int /\ base \in Int
    BY SizeAssumption DEF Waiting, Rank, StructureInv, TypeOK, SizeAssumption
  <2> QED BY <2>2, <2>3
<1> QED BY <1>1, <1>2

LEMMA DispatchHeadStructure ==
  ASSUME StructureInv, NEW j \in Rank, DispatchHead(j)
  PROVE  StructureInv' /\ j \in Waiting /\ Waiting' = Waiting \ {j}
<1>1. /\ IsFifoHead(j) /\ pol.mode = "fcfs" /\ fifoHead' = j + 1 /\ Dispatch(j, TRUE)
      /\ UNCHANGED <<heap, leaf>> /\ ~guarding
  BY DEF DispatchHead, guarding
<1>2. N \in Nat /\ next \in 0 .. N /\ fifoHead \in 0 .. next
  BY SizeAssumption DEF SizeAssumption, StructureInv, TypeOK
<1>3. j \in Waiting /\ fifoHead' \in 0 .. next
  BY <1>1, <1>2 DEF IsFifoHead, Waiting, Rank
<1>4. \A q \in Waiting \ {j} : fifoHead' <= q
  BY <1>1, <1>2 DEF IsFifoHead, Waiting, Rank, StructureInv, QueuesHoldWaiting
<1> QED BY <1>1, <1>3, <1>4, DispatchStructure

LEMMA DispatchForcedStructure ==
  ASSUME StructureInv, NEW j \in Rank, DispatchForced(j)
  PROVE  StructureInv' /\ j \in Waiting /\ Waiting' = Waiting \ {j}
<1>1. /\ pol.mode \notin {"score", "fcfs"} /\ nwait > 0 /\ fifoHead' = FifoHead
      /\ Dispatch(j, TRUE) /\ heap' = heap
      /\ leaf' = IF guarding THEN Drop(leaf, j - base) ELSE leaf
      /\ (guarding /\ IsFiredMember(j)) \/ j = FifoHead
  BY DEF DispatchForced, DispatchEpoch, CanDispatch, guarding
<1>2. FifoHead \in Waiting /\ \A q \in Waiting : FifoHead <= q
  BY <1>1, HeadIsOldest DEF StructureInv
<1>3. j \in Waiting
  BY <1>1, <1>2, FiredMemberWaits
<1>4. fifoHead' \in 0 .. next
  BY <1>1, <1>2, SizeAssumption DEF Waiting, Rank, SizeAssumption, StructureInv, TypeOK
<1>5. Waiting \ {j} \subseteq heap'
  BY <1>1 DEF StructureInv, QueuesHoldWaiting
<1> QED BY <1>1, <1>2, <1>3, <1>4, <1>5, DispatchStructure

\* The base choice waits, and popping the heap up to it loses no other waiting job.
LEMMA BaseChoiceWaits ==
  ASSUME StructureInv, NEW j \in Rank, IsBaseChoice(j), pol.mode # "fcfs"
  PROVE  j \in Waiting /\ Waiting \ {j} \subseteq heap \ Popped(j)
<1>1. j \in Waiting
  BY DEF IsBaseChoice, Waiting, StructureInv, TypeOK, Rank
<1>2. ASSUME NEW q \in Waiting \ {j} PROVE q \in heap \ Popped(j)
  <2>1. q \in heap \ (served \cup {j})
    BY DEF Waiting, StructureInv, QueuesHoldWaiting
  <2>2. Before(j, q)
    BY <2>1 DEF IsBaseChoice
  <2>3. score[q] \in Int /\ score[j] \in Int /\ q \in Int /\ j \in Int
    <3>1. score \in [Rank -> Int] /\ N \in Nat
      BY InputTypes DEF StructureInv, TypeOK
    <3>2. q \in Rank
      BY DEF Waiting
    <3> QED BY <3>1, <3>2 DEF Rank
  <2>4. ~Before(q, j)
    BY <2>2, <2>3 DEF Before
  <2> QED BY <2>1, <2>4 DEF Popped
<1> QED BY <1>1, <1>2

LEMMA DispatchBaseStructure ==
  ASSUME StructureInv, NEW j \in Rank, DispatchBase(j)
  PROVE  StructureInv' /\ j \in Waiting /\ Waiting' = Waiting \ {j}
<1>1. /\ pol.mode # "fcfs" /\ nwait > 0 /\ IsBaseChoice(j) /\ Dispatch(j, FALSE)
      /\ heap' = heap \ Popped(j)
      /\ fifoHead' = IF pol.mode = "score" THEN fifoHead ELSE FifoHead
      /\ leaf' = IF guarding THEN Drop(leaf, j - base) ELSE leaf
  BY DEF DispatchBase, DispatchEpoch, CanDispatch, guarding
<1>2. j \in Waiting
  BY <1>1, BaseChoiceWaits
<1>3. fifoHead' \in 0 .. next /\ (pol.mode # "score" => \A q \in Waiting : fifoHead' <= q)
  <2>1. CASE pol.mode = "score"
    BY <1>1, <2>1 DEF StructureInv, TypeOK
  <2>2. CASE pol.mode # "score"
    <3>1. FifoHead \in Waiting /\ \A q \in Waiting : FifoHead <= q
      BY <1>1, <2>2, HeadIsOldest DEF StructureInv
    <3> QED BY <1>1, <2>2, <3>1, SizeAssumption
        DEF Waiting, Rank, SizeAssumption, StructureInv, TypeOK
  <2> QED BY <2>1, <2>2
<1>4. Waiting \ {j} \subseteq heap'
  BY <1>1, BaseChoiceWaits
<1> QED BY <1>1, <1>2, <1>3, <1>4, DispatchStructure

LEMMA ClockStructure ==
  ASSUME StructureInv, AdvanceClock
  PROVE  StructureInv' /\ Waiting' = Waiting
<1>1. t' \in Int
  <2>1. N \in Nat /\ next \in Int /\ a_us \in [Rank -> Int] /\ s_us \in [Rank -> 1 .. L]
        /\ start \in [Rank -> Int] /\ L \in Nat /\ run \subseteq Rank
    BY InputTypes DEF StructureInv, TypeOK, Rank
  <2>2. Instants \subseteq Int
    BY <2>1 DEF Instants, Done
  <2> QED BY <2>2 DEF AdvanceClock
<1>2. UNCHANGED <<inputs, next, run, served, queueVars, workVars, countVars, windowVars,
                  resultVars>>
  BY DEF AdvanceClock
<1>3. Waiting' = Waiting /\ guarding' = guarding
  BY <1>2 DEF Waiting, guarding, inputs
<1>4. TypeOK'
  BY <1>1, <1>2
      DEF StructureInv, TypeOK, InputsOK, TraceOK, inputs, queueVars, workVars, countVars,
          windowVars, resultVars
<1> QED BY <1>2, <1>3, <1>4
    DEF StructureInv, WindowMirrorsQueue, QueuesHoldWaiting, AccountsOrderedByRank,
        BudgetFixedAtArrival, ConstantBudget, inputs, queueVars, workVars, countVars, windowVars

LEMMA StutterStructure ==
  ASSUME StructureInv, UNCHANGED vars
  PROVE  StructureInv' /\ Waiting' = Waiting
<1>1. Waiting' = Waiting /\ guarding' = guarding
  BY DEF Waiting, guarding, inputs, vars
<1>2. TypeOK'
  BY DEF StructureInv, TypeOK, InputsOK, TraceOK, inputs, queueVars, workVars, countVars,
         windowVars, resultVars, vars
<1> QED BY <1>1, <1>2
    DEF StructureInv, WindowMirrorsQueue, QueuesHoldWaiting, AccountsOrderedByRank,
        BudgetFixedAtArrival, ConstantBudget, inputs, queueVars, workVars, countVars,
        windowVars, vars

---------------------------------------------------------------------------
(* The invariants.                                                         *)

\* Every step keeps the structures consistent.
LEMMA StructureStep ==
  ASSUME StructureInv, [Next]_vars
  PROVE  StructureInv'
<1>1. CASE \E c \in Rank : ApplyCompletion(c)
  BY <1>1, CompletionStructure
<1>2. CASE AdmitArrival
  BY <1>2, AdmitStructure
<1>3. CASE WindowOverflow
  BY <1>3, OverflowStructure
<1>4. CASE \E j \in Rank : DispatchHead(j)
  BY <1>4, DispatchHeadStructure
<1>5. CASE \E j \in Rank : DispatchForced(j)
  BY <1>5, DispatchForcedStructure
<1>6. CASE \E j \in Rank : DispatchBase(j)
  BY <1>6, DispatchBaseStructure
<1>7. CASE AdvanceClock
  BY <1>7, ClockStructure
<1>8. CASE Finished \/ UNCHANGED vars
  BY <1>8, StutterStructure DEF Finished
<1> QED BY <1>1, <1>2, <1>3, <1>4, <1>5, <1>6, <1>7, <1>8 DEF Next

\* The structures of the kernel stay consistent in every reachable state.
THEOREM StructureInvariant == Spec => []StructureInv
  BY StructureStep, InitStructure, PTL DEF Spec

\* Type correctness of the kernel.
THEOREM TypeCorrect == Spec => []TypeOK
  BY StructureInvariant, PTL DEF StructureInv

\* The window of the segment tree mirrors the queue (WindowMirrorsQueue).
THEOREM WindowCorrect == Spec => []WindowMirrorsQueue
  BY StructureInvariant, PTL DEF StructureInv

\* Lazy deletion loses no waiting job (QueuesHoldWaiting).
THEOREM QueuesCorrect == Spec => []QueuesHoldWaiting
  BY StructureInvariant, PTL DEF StructureInv

\* A run is given up only when the live ranks do not fit (OverflowOnlyWhenSpanTooWide).
THEOREM OverflowCorrect == Spec => []OverflowOnlyWhenSpanTooWide
<1>1. Init => OverflowOnlyWhenSpanTooWide
  BY DEF Init, Idle, OverflowOnlyWhenSpanTooWide
<1>2. ASSUME StructureInv, OverflowOnlyWhenSpanTooWide, [Next]_vars
      PROVE  OverflowOnlyWhenSpanTooWide'
  <2>1. CASE WindowOverflow
    <3>1. MustSlide(next) /\ guarding /\ next - WindowBase(next) >= Mslots
          /\ UNCHANGED <<next, served, pol>>
      BY <1>2, <2>1, OverflowStructure DEF WindowOverflow, inputs
    <3>2. WindowBase(next) = FifoHead
      BY <3>1 DEF WindowBase, MustSlide
    <3>3. FifoHead \in Waiting
      BY <1>2, <3>1, HeadIsOldest DEF MustSlide, guarding, StructureInv
    <3>4. Waiting' = Waiting /\ guarding'
      BY <3>1 DEF Waiting, guarding
    <3> QED BY <3>1, <3>2, <3>3, <3>4 DEF OverflowOnlyWhenSpanTooWide
  <2>2. CASE Finished \/ UNCHANGED vars
    BY <1>2, <2>2
        DEF Finished, vars, windowVars, inputs, OverflowOnlyWhenSpanTooWide, Waiting, guarding
  <2>3. CASE ~err /\ err' = err
    BY <2>3 DEF OverflowOnlyWhenSpanTooWide
  <2> QED
    BY <1>2, <2>1, <2>2, <2>3
    DEF Next, ApplyCompletion, AdmitArrival, DispatchHead, DispatchForced, DispatchBase,
        AdvanceClock, DispatchEpoch, Dispatch, Running, windowVars
<1> QED BY <1>1, <1>2, StructureInvariant, PTL DEF Spec

---------------------------------------------------------------------------
(* The schedule, and the rule.                                             *)

LEMMA DispatchedJobs ==
  ASSUME StructureInv, NEW j \in Rank, NEW forced \in BOOLEAN, Dispatch(j, forced), j \in Waiting,
         ScheduleFollowsClock
  PROVE  ScheduleFollowsClock'
<1>1. /\ UNCHANGED <<a_us, t, next>> /\ served' = served \cup {j} /\ ndisp' = ndisp + 1
      /\ start' = [start EXCEPT ![j] = t] /\ start \in [Rank -> Int]
  BY DEF Dispatch, MarkServed, inputs, StructureInv, TypeOK
<1>2. j \notin served /\ j \in 0 .. next - 1 /\ N \in Nat
  BY SizeAssumption DEF Waiting, Rank, SizeAssumption, StructureInv, TypeOK
<1>3. IsFiniteSet(served)
  <2>1. next - 1 \in Int /\ served \subseteq 0 .. next - 1
    BY <1>2, SizeAssumption DEF SizeAssumption, StructureInv, TypeOK
  <2>2. IsFiniteSet(0 .. next - 1)
    BY <2>1, FS_Interval
  <2> QED BY <2>1, <2>2, FS_Subset
<1>4. ndisp' = Cardinality(served')
  BY <1>1, <1>2, <1>3, FS_AddElement DEF ScheduleFollowsClock
<1>5. \A i \in Rank : IF i \in served' THEN start'[i] >= a_us[i] ELSE start'[i] = NotStarted
  BY <1>1, <1>2 DEF ScheduleFollowsClock
<1> QED BY <1>1, <1>4, <1>5 DEF ScheduleFollowsClock

LEMMA ScheduleStep ==
  ASSUME StructureInv, ScheduleFollowsClock, [Next]_vars
  PROVE  ScheduleFollowsClock'
<1>0. /\ N \in Nat /\ next \in 0 .. N /\ t \in Int /\ a_us \in [Rank -> Int]
      /\ s_us \in [Rank -> Int] /\ start \in [Rank -> Int] /\ run \subseteq Rank
  <2>1. N \in Nat /\ L \in Nat /\ a_us \in [Rank -> Int] /\ s_us \in [Rank -> 1 .. L]
    BY InputTypes DEF StructureInv, TypeOK
  <2> QED BY <2>1 DEF StructureInv, TypeOK, Rank
<1>1. ASSUME NEW c \in Rank, ApplyCompletion(c) PROVE ScheduleFollowsClock'
  BY <1>1 DEF ApplyCompletion, ScheduleFollowsClock, inputs, resultVars
<1>2. CASE AdmitArrival
  <2>1. next' = next + 1 /\ a_us[next] <= t /\ UNCHANGED <<a_us, t, served, start, ndisp>>
    BY <1>2 DEF AdmitArrival, ArrivalDue, inputs, resultVars
  <2> QED BY <1>0, <2>1 DEF ScheduleFollowsClock
<1>3. CASE WindowOverflow
  BY <1>3 DEF WindowOverflow, ScheduleFollowsClock, inputs, resultVars
<1>4. ASSUME NEW j \in Rank, DispatchHead(j) PROVE ScheduleFollowsClock'
  BY <1>4, DispatchHeadStructure, DispatchedJobs DEF DispatchHead
<1>5. ASSUME NEW j \in Rank, DispatchForced(j) PROVE ScheduleFollowsClock'
  BY <1>5, DispatchForcedStructure, DispatchedJobs DEF DispatchForced
<1>6. ASSUME NEW j \in Rank, DispatchBase(j) PROVE ScheduleFollowsClock'
  BY <1>6, DispatchBaseStructure, DispatchedJobs DEF DispatchBase
<1>7. CASE AdvanceClock
  <2>1. UNCHANGED <<a_us, next, served, start, ndisp>>
    BY <1>7 DEF AdvanceClock, inputs, resultVars
  <2>2. t' \in Int /\ t <= t'
    <3>1. \A u \in Instants : u \in Int /\ t <= u
      <4>1. \A j \in run : Done(j) \in Int /\ t <= Done(j)
        BY <1>0, <1>7 DEF AdvanceClock, CompletionDue, Due, Done
      <4>2. \A i \in {next} \cap Rank : a_us[i] \in Int /\ t <= a_us[i]
        BY <1>0, <1>7 DEF AdvanceClock, ArrivalDue, Rank
      <4> QED BY <4>1, <4>2 DEF Instants
    <3> QED BY <1>7, <3>1 DEF AdvanceClock
  <2>3. \A q \in 0 .. next - 1 : a_us[q] <= t'
    <3>1. \A q \in 0 .. next - 1 : a_us[q] \in Int /\ a_us[q] <= t
      BY <1>0 DEF ScheduleFollowsClock, Rank
    <3> QED BY <1>0, <2>2, <3>1
  <2> QED BY <2>1, <2>3 DEF ScheduleFollowsClock
<1>8. CASE Finished \/ UNCHANGED vars
  BY <1>8 DEF Finished, ScheduleFollowsClock, vars, inputs, resultVars
<1> QED BY <1>1, <1>2, <1>3, <1>4, <1>5, <1>6, <1>7, <1>8 DEF Next

\* A job starts once and never before it arrives (ScheduleFollowsClock).
THEOREM ScheduleCorrect == Spec => []ScheduleFollowsClock
<1>1. Init => ScheduleFollowsClock
  BY FS_EmptySet, SizeAssumption DEF Init, Idle, ScheduleFollowsClock, SizeAssumption, Rank
<1>2. StructureInv /\ ScheduleFollowsClock /\ [Next]_vars => ScheduleFollowsClock'
  BY ScheduleStep
<1> QED BY <1>1, <1>2, StructureInvariant, PTL DEF Spec

---------------------------------------------------------------------------
(* Each action of the kernel is an action of the rule, or changes nothing  *)
(* that the rule sees.                                                     *)

\* The rule counts as the kernel does.
LEMMA SameCardinality ==
  ASSUME NEW S
  PROVE  Rule!Cardinality(S) = Cardinality(S)
  BY DEF Rule!Cardinality, Cardinality

\* The guards of the loop are those of the rule.
LEMMA SameGuards ==
  ASSUME StructureInv
  PROVE  /\ Rule!Rank = Rank /\ Rule!inputs = inputs /\ Rule!InputsOK = InputsOK
         /\ Rule!CompletionDue = CompletionDue
         /\ Rule!ArrivalDue = ArrivalDue
         /\ Rule!CanDispatch <=> CanDispatch
         /\ Rule!Instants = Instants
<1>1. Rule!Rank = Rank /\ Rule!inputs = inputs /\ Rule!InputsOK = InputsOK
  BY DEF Rule!Rank, Rank, Rule!inputs, inputs, Rule!InputsOK, Rule!TraceOK, InputsOK, TraceOK
<1>2. Rule!CompletionDue = CompletionDue /\ Rule!ArrivalDue = ArrivalDue /\ Rule!Instants = Instants
  BY <1>1
      DEF Rule!CompletionDue, CompletionDue, Due, Rule!Done, Done, Rule!ArrivalDue, ArrivalDue,
          Rule!Instants, Instants
<1>3. nwait > 0 <=> Waiting # {}
  BY WaitingFinite, FS_EmptySet, FS_CardinalityType DEF StructureInv, QueuesHoldWaiting
<1>4. Rule!CanDispatch <=> CanDispatch
  BY <1>3, SameCardinality DEF Rule!CanDispatch, CanDispatch
<1> QED BY <1>1, <1>2, <1>4

\* While the loop runs, some job has not been started.
LEMMA LoopHasWork ==
  ASSUME StructureInv, ScheduleFollowsClock, Running
  PROVE  ~Rule!AllStarted
<1>1. N \in Nat /\ ndisp < N /\ served \subseteq Rank
  <2>1. next \in 0 .. N /\ served \subseteq 0 .. next - 1
    BY DEF StructureInv, TypeOK
  <2>2. N \in Nat /\ ndisp < N
    BY SizeAssumption DEF SizeAssumption, Running
  <2> QED BY <2>1, <2>2 DEF Rank
<1>2. Cardinality(Rank) = N
  BY <1>1, FS_Interval DEF Rank
<1>3. PICK j \in Rank : j \notin served
  BY <1>1, <1>2 DEF ScheduleFollowsClock
<1> QED BY <1>3
    DEF Rule!AllStarted, Rule!Rank, Rank, Rule!NotStarted, NotStarted, ScheduleFollowsClock

LEMMA CompletionIsCharge ==
  ASSUME StructureInv, ScheduleFollowsClock, NEW c \in Rank, ApplyCompletion(c)
  PROVE  Rule!Charge(c)
<1>1. UNCHANGED <<inputs, t, next, Waiting, served, start, dispatchIndex, ndisp, dispatchedRanks,
                  fenCount, ahead, guarding>>
  BY DEF ApplyCompletion, Waiting, inputs, resultVars, countVars, guarding
<1>2. ~Rule!AllStarted
  BY LoopHasWork DEF ApplyCompletion
<1>3. c \in run /\ Rule!Done(c) <= t /\ run' = run \ {c}
  BY DEF ApplyCompletion, Due, Done, Rule!Done
<1>4. /\ N \in Nat /\ s_us[c] \in Int /\ completedWork \in Int /\ fenWork \in [Rank -> Int]
      /\ c \in Int /\ \A q \in Waiting : q \in Rank /\ q \in Int /\ q # c
  <2>1. N \in Nat /\ L \in Nat /\ s_us \in [Rank -> 1 .. L]
    BY InputTypes DEF StructureInv, TypeOK
  <2>2. /\ completedWork \in Int /\ fenWork \in [Rank -> Int] /\ run \subseteq served
    BY DEF StructureInv, TypeOK
  <2>3. \A q \in Waiting : q \in Rank /\ q # c
    BY <1>3, <2>2 DEF Waiting
  <2>4. \A q \in Rank : q \in Int
    BY <2>1 DEF Rank
  <2> QED BY <2>1, <2>2, <2>3, <2>4
<1> DEFINE over == [q \in Waiting |-> completedWork - fenWork[q]]
<1>5. over' = IF pol.mode = "guard"
                THEN [q \in Waiting |-> IF q < c THEN over[q] + s_us[c] ELSE over[q]]
                ELSE over
  <2>1. CASE guarding
    <3>1. /\ completedWork' = completedWork + s_us[c]
          /\ fenWork' = [q \in Rank |-> IF q >= c THEN fenWork[q] + s_us[c] ELSE fenWork[q]]
      BY <1>4, <2>1 DEF ApplyCompletion, AddSuffix
    <3>2. \A q \in Waiting : completedWork' - fenWork'[q]
                               = IF q < c THEN over[q] + s_us[c] ELSE over[q]
      BY <1>4, <3>1
    <3> QED BY <1>1, <2>1, <3>2 DEF guarding
  <2>2. CASE ~guarding
    BY <1>1, <2>2 DEF ApplyCompletion, workVars, guarding
  <2> QED BY <2>1, <2>2
<1> QED BY <1>1, <1>2, <1>3, <1>5 DEF Rule!Charge, Rule!inputs, inputs

LEMMA AdmissionIsArrival ==
  ASSUME StructureInv, AdmitArrival
  PROVE  Rule!Arrive
<1>1. ~Rule!CompletionDue /\ Rule!ArrivalDue
  BY SameGuards DEF AdmitArrival
<1>2. UNCHANGED <<inputs, t, run, served, start, dispatchIndex, ndisp, completedWork, fenWork,
                  dispatchedRanks, fenCount>> /\ next' = next + 1
  BY DEF AdmitArrival, workVars, countVars, resultVars, inputs
<1>3. /\ N \in Nat /\ next \in Rank /\ next \in 0 .. N /\ ahead \in [Rank -> Int]
      /\ completedWork \in Int /\ fenWork \in [Rank -> Int]
      /\ dispatchedRanks \in Int /\ fenCount \in [Rank -> Int]
  <2>1. N \in Nat /\ next \in 0 .. N /\ next < N
    BY SizeAssumption DEF SizeAssumption, StructureInv, TypeOK, AdmitArrival, ArrivalDue
  <2>2. next \in Rank
    BY <2>1 DEF Rank
  <2> QED BY <2>1, <2>2 DEF StructureInv, TypeOK
<1>4. Waiting' = Waiting \cup {next} /\ \A q \in Waiting : q \in Rank /\ q # next
  BY <1>2, <1>3 DEF Waiting, StructureInv, TypeOK, Rank
<1>5. fenWork[next] = completedWork /\ fenCount[next] = dispatchedRanks
  BY <1>3 DEF StructureInv, AccountsOrderedByRank
<1>6. ahead' = [ahead EXCEPT ![next] = nwait] /\ nwait = Cardinality(Waiting)
  BY DEF AdmitArrival, RegisterInWindow, StructureInv, QueuesHoldWaiting
<1> DEFINE over == [q \in Waiting |-> completedWork - fenWork[q]]
           passes == [q \in Waiting |-> dispatchedRanks - fenCount[q]]
           before == [q \in Waiting |-> ahead[q]]
<1>7. over' = [q \in Waiting' |-> IF q = next THEN 0 ELSE over[q]]
  BY <1>2, <1>3, <1>4, <1>5
<1>8. passes' = [q \in Waiting' |-> IF q = next THEN 0 ELSE passes[q]]
  BY <1>2, <1>3, <1>4, <1>5
<1>9. before' = [q \in Waiting' |-> IF q = next THEN Cardinality(Waiting) ELSE before[q]]
  BY <1>3, <1>4, <1>6
<1> QED BY <1>1, <1>2, <1>4, <1>7, <1>8, <1>9, SameCardinality
    DEF Rule!Arrive, Rule!inputs, inputs

\* However the job was chosen, handing it out is what the rule does with it.
LEMMA DispatchIsServe ==
  ASSUME StructureInv, NEW j \in Rank, NEW forced \in BOOLEAN, DispatchEpoch, Dispatch(j, forced),
         Waiting' = Waiting \ {j}
  PROVE  Rule!Serve(j)
<1>1. ~Rule!CompletionDue /\ ~Rule!ArrivalDue /\ Rule!CanDispatch
  BY SameGuards DEF DispatchEpoch
<1>2. /\ UNCHANGED <<inputs, t, next, completedWork, fenWork, ahead>>
      /\ run' = run \cup {j} /\ start' = [start EXCEPT ![j] = t] /\ ndisp' = ndisp + 1
      /\ dispatchIndex' = [dispatchIndex EXCEPT ![j] = ndisp]
  BY DEF Dispatch, workVars, inputs
<1>3. /\ j \in Int /\ dispatchedRanks \in Int /\ fenCount \in [Rank -> Int]
      /\ \A q \in Waiting : q \in Rank /\ q \in Int
  <2>1. \A q \in Rank : q \in Int
    BY SizeAssumption DEF SizeAssumption, Rank
  <2> QED BY <2>1 DEF StructureInv, TypeOK, Waiting
<1> DEFINE over == [q \in Waiting |-> completedWork - fenWork[q]]
           passes == [q \in Waiting |-> dispatchedRanks - fenCount[q]]
           before == [q \in Waiting |-> ahead[q]]
<1>4. over' = [q \in Waiting' |-> over[q]]
  BY <1>2
<1>5. before' = [q \in Waiting' |-> before[q]]
  BY <1>2
<1>6. passes' = [q \in Waiting' |-> IF pol.mode = "skip" /\ q < j THEN passes[q] + 1
                                                                 ELSE passes[q]]
  <2>1. CASE pol.mode = "skip"
    <3>1. /\ dispatchedRanks' = dispatchedRanks + 1
          /\ fenCount' = [q \in Rank |-> IF q >= j THEN fenCount[q] + 1 ELSE fenCount[q]]
      BY <1>3, <2>1 DEF Dispatch, AddSuffix
    <3>2. \A q \in Waiting' : dispatchedRanks' - fenCount'[q]
                                = IF q < j THEN passes[q] + 1 ELSE passes[q]
      BY <1>3, <3>1
    <3> QED BY <2>1, <3>2
  <2>2. CASE pol.mode # "skip"
    <3>1. UNCHANGED <<dispatchedRanks, fenCount>>
      BY <2>2 DEF Dispatch, countVars
    <3> QED BY <2>2, <3>1
  <2> QED BY <2>1, <2>2
<1> QED BY <1>1, <1>2, <1>4, <1>5, <1>6 DEF Rule!Serve, Rule!inputs, inputs

\* So it is the rule's dispatch of a job the rule chooses.
LEMMA DispatchIsDispatch ==
  ASSUME StructureInv, NEW j \in Rank, NEW forced \in BOOLEAN, DispatchEpoch, Dispatch(j, forced),
         Waiting' = Waiting \ {j}, Rule!Chosen(j)
  PROVE  Rule!Dispatch(j)
  BY DispatchIsServe DEF Rule!Dispatch

---------------------------------------------------------------------------
(* The job the kernel picks is the one the rule picks.                     *)

\* The accounts of a waiting job, as the rule sees them, never exceed the head's.
LEMMA HeadIsChargedMost ==
  ASSUME StructureInv, pol.mode # "score", nwait > 0, NEW q \in Waiting
  PROVE  /\ FifoHead \in Waiting /\ FifoHead <= q
         /\ completedWork - fenWork[q] <= completedWork - fenWork[FifoHead]
         /\ dispatchedRanks - fenCount[q] <= dispatchedRanks - fenCount[FifoHead]
<1>1. FifoHead \in Waiting /\ FifoHead <= q
  BY HeadIsOldest DEF StructureInv
<1>2. FifoHead \in Rank /\ q \in Rank
  BY <1>1 DEF Waiting
<1>3. fenWork[FifoHead] <= fenWork[q] /\ fenCount[FifoHead] <= fenCount[q]
  BY <1>1, <1>2 DEF StructureInv, AccountsOrderedByRank
<1>4. /\ completedWork \in Int /\ fenWork[q] \in Int /\ fenWork[FifoHead] \in Int
      /\ dispatchedRanks \in Int /\ fenCount[q] \in Int /\ fenCount[FifoHead] \in Int
  BY <1>2 DEF StructureInv, TypeOK
<1> QED BY <1>1, <1>3, <1>4

\* While the head has not reached the cap, a leaf reaches the threshold exactly when
\* its job's budget is spent: clipping the constant part changes nothing.
LEMMA LeafTestIsSpent ==
  ASSUME StructureInv, ScheduleFollowsClock, guarding, nwait > 0, ~HeadAtCap, NEW q \in Waiting
  PROVE  Rule!Spent(q) <=> q - base \in FiredPositions
<1> DEFINE over == completedWork - fenWork[q]
           raw  == pol.b0 + pol.gam * ahead[q]
           cb   == ConstantBudget(ahead[q])
           age  == t - a_us[q]
           en   == pol.en
           ed   == pol.ed
<1>1. /\ pol \in PolicyType /\ q \in Rank /\ q \in 0 .. next - 1
      /\ completedWork \in Int /\ fenWork[q] \in Int /\ ahead[q] \in Int
      /\ t \in Int /\ a_us[q] \in Int
  <2>1. pol \in PolicyType /\ a_us \in [Rank -> Int] /\ N \in Nat
    BY InputTypes DEF StructureInv, TypeOK
  <2>2. q \in Rank /\ q < next
    BY DEF Waiting
  <2> QED BY <2>1, <2>2 DEF StructureInv, TypeOK, Rank
<1>2. /\ en \in Nat /\ ed \in Nat \ {0} /\ pol.bmax \in Nat /\ pol.b0 \in Nat
      /\ pol.gam \in Nat /\ raw \in Int /\ cb \in Int
  BY <1>1 DEF PolicyType, ConstantBudget
<1>3. age \in Nat
  BY <1>1 DEF ScheduleFollowsClock
<1>4. over \in Int /\ (pol.bmax > 0 => over < pol.bmax)
  <2>1. guarding => pol.mode # "score"
    BY DEF guarding
  <2>2. FifoHead \in Rank /\ over <= completedWork - fenWork[FifoHead]
    BY <2>1, HeadIsChargedMost DEF Waiting
  <2>3. completedWork - fenWork[FifoHead] \in Int
    BY <2>2 DEF StructureInv, TypeOK
  <2> QED BY <1>1, <1>2, <2>2, <2>3 DEF HeadAtCap
<1>5. q - base \in FiredPositions <=> ed * over >= ed * cb + en * age
  <2>1. q - base \in DOMAIN leaf /\ leaf[q - base] = zs[q] - ed * fenWork[q]
    BY DEF StructureInv, WindowMirrorsQueue
  <2>2. zs[q] = en * a_us[q] - ed * cb
    BY DEF StructureInv, BudgetFixedAtArrival
  <2>3. /\ ed * over = ed * completedWork - ed * fenWork[q]
        /\ en * age = en * t - en * a_us[q]
    BY <1>1, <1>2, Distribute
  <2>4. /\ ed * completedWork \in Int /\ ed * fenWork[q] \in Int /\ ed * cb \in Int
        /\ en * t \in Int /\ en * a_us[q] \in Int
    BY <1>1, <1>2
  <2>5. q - base \in FiredPositions <=> leaf[q - base] >= en * t - ed * completedWork
    BY <2>1 DEF FiredPositions, AtLeast, Threshold
  <2> HIDE DEF over, cb, age, en, ed
  <2> QED BY <2>1, <2>2, <2>3, <2>4, <2>5
<1>6. Rule!Spent(q) <=> ed * over >= ed * raw + en * age
  <2>1. Rule!Spent(q) <=> \/ pol.bmax > 0 /\ over >= pol.bmax
                          \/ ed * over >= ed * raw + en * age
    BY DEF Rule!Spent
  <2> QED BY <1>2, <1>4, <2>1
<1>7. CASE cb = raw
  BY <1>5, <1>6, <1>7
<1>8. CASE cb # raw
  <2>1. pol.bmax > 0 /\ cb = pol.bmax /\ cb < raw /\ over < cb
    BY <1>2, <1>4, <1>8 DEF ConstantBudget
  <2>2. en * age \in Nat /\ ed * over < ed * cb /\ ed * cb < ed * raw
    BY <1>2, <1>3, <1>4, <2>1, NaturalProduct, ScaleStrictly
  <2>3. ed * over \in Int /\ ed * cb \in Int /\ ed * raw \in Int
    BY <1>2, <1>4
  <2> HIDE DEF over, raw, cb, age, en, ed
  <2> QED BY <1>5, <1>6, <2>2, <2>3
<1> QED BY <1>7, <1>8

LEMMA HeadIsChosen ==
  ASSUME StructureInv, NEW j \in Rank, DispatchHead(j)
  PROVE  Rule!Chosen(j)
<1>1. pol.mode = "fcfs" /\ IsFifoHead(j) /\ j \in Waiting
  BY DispatchHeadStructure DEF DispatchHead
<1>2. \A q \in Waiting : j <= q
  BY <1>1, SizeAssumption
  DEF IsFifoHead, Waiting, Rank, StructureInv, QueuesHoldWaiting, TypeOK, SizeAssumption
<1>3. Rule!Fired = Waiting
  BY <1>1 DEF Rule!Fired
<1> QED BY <1>1, <1>2, <1>3 DEF Rule!Chosen

\* What the guard fires, as the rule defines it.
LEMMA FiredIsSpent ==
  ASSUME StructureInv, ScheduleFollowsClock, guarding, nwait > 0, ~HeadAtCap
  PROVE  Rule!Fired = {q \in Waiting : q - base \in FiredPositions}
<1>1. Rule!Fired = {q \in Waiting : Rule!Spent(q)}
  BY DEF Rule!Fired, guarding
<1> QED BY <1>1, LeafTestIsSpent

LEMMA FiredMemberIsChosen ==
  ASSUME StructureInv, ScheduleFollowsClock, guarding, nwait > 0, NEW j \in Rank, IsFiredMember(j)
  PROVE  Rule!Chosen(j)
<1>1. j \in Waiting
  BY FiredMemberWaits
<1>2. CASE HeadAtCap
  <2>1. j = FifoHead /\ pol.bmax > 0 /\ completedWork - fenWork[j] >= pol.bmax
    BY <1>2 DEF IsFiredMember, HeadAtCap
  <2>2. Rule!Spent(j)
    BY <1>1, <2>1 DEF Rule!Spent
  <2>3. \A q \in Waiting : j <= q
    BY <2>1, HeadIsChargedMost DEF guarding
  <2>4. Rule!Fired \subseteq Waiting /\ j \in Rule!Fired
    BY <1>1, <2>2 DEF Rule!Fired, guarding
  <2> QED BY <1>1, <2>3, <2>4 DEF Rule!Chosen
<1>3. CASE ~HeadAtCap
  <2>1. j - base \in FiredPositions /\ \A p \in FiredPositions : j - base <= p
    BY <1>3 DEF IsFiredMember
  <2>2. Rule!Fired = {q \in Waiting : q - base \in FiredPositions}
    BY <1>3, FiredIsSpent
  <2>3. j \in Int /\ base \in Int /\ \A q \in Waiting : q \in Int
    BY SizeAssumption DEF SizeAssumption, Waiting, Rank, StructureInv, TypeOK
  <2> QED BY <1>1, <2>1, <2>2, <2>3 DEF Rule!Chosen
<1> QED BY <1>2, <1>3

LEMMA HeadPassedIsChosen ==
  ASSUME StructureInv, pol.mode = "skip", nwait > 0
  PROVE  /\ HeadPassed => Rule!Chosen(FifoHead)
         /\ ~HeadPassed => Rule!Fired = {}
<1>1. Rule!Fired = {q \in Waiting : dispatchedRanks - fenCount[q] >= pol.ncap}
  BY DEF Rule!Fired
<1>2. FifoHead \in Waiting /\ \A q \in Waiting : FifoHead <= q
  BY HeadIsOldest DEF StructureInv
<1>3. ASSUME HeadPassed PROVE Rule!Chosen(FifoHead)
  BY <1>1, <1>2, <1>3 DEF HeadPassed, Rule!Chosen
<1>4. ASSUME ~HeadPassed, NEW q \in Waiting PROVE ~(dispatchedRanks - fenCount[q] >= pol.ncap)
  <2>1. dispatchedRanks - fenCount[q] <= dispatchedRanks - fenCount[FifoHead]
    BY HeadIsChargedMost
  <2>2. /\ dispatchedRanks - fenCount[q] \in Int /\ dispatchedRanks - fenCount[FifoHead] \in Int
        /\ pol.ncap \in Int
    <3>1. pol \in PolicyType
      BY InputTypes DEF StructureInv, TypeOK
    <3> QED BY <1>2, <3>1 DEF PolicyType, StructureInv, TypeOK, Waiting
  <2> QED BY <1>4, <2>1, <2>2 DEF HeadPassed
<1> QED BY <1>1, <1>3, <1>4

LEMMA ForcedIsChosen ==
  ASSUME StructureInv, ScheduleFollowsClock, NEW j \in Rank, DispatchForced(j)
  PROVE  Rule!Chosen(j)
<1>1. nwait > 0
  BY DEF DispatchForced, DispatchEpoch, CanDispatch
<1>2. CASE guarding /\ IsFiredMember(j)
  BY <1>1, <1>2, FiredMemberIsChosen
<1>3. CASE pol.mode = "skip" /\ HeadPassed /\ j = FifoHead
  BY <1>1, <1>3, HeadPassedIsChosen
<1> QED BY <1>2, <1>3 DEF DispatchForced

LEMMA BaseIsChosen ==
  ASSUME StructureInv, ScheduleFollowsClock, NEW j \in Rank, DispatchBase(j)
  PROVE  Rule!Chosen(j)
<1>1. nwait > 0 /\ IsBaseChoice(j) /\ j \in Waiting
  BY DispatchBaseStructure DEF DispatchBase, DispatchEpoch, CanDispatch
<1>2. \A q \in Waiting \ {j} : Before(j, q)
  <2>1. Waiting \ {j} \subseteq heap \ (served \cup {j})
    BY DEF DispatchBase, DispatchEpoch, StructureInv, QueuesHoldWaiting, Waiting, guarding
  <2> QED BY <1>1, <2>1 DEF IsBaseChoice
<1>3. Rule!Fired = {}
  <2>1. CASE pol.mode = "score"
    BY <2>1 DEF Rule!Fired
  <2>2. CASE guarding /\ NoFiredMember
    BY <1>1, <2>2, FiredIsSpent DEF NoFiredMember
  <2>3. CASE pol.mode = "skip" /\ ~HeadPassed
    BY <1>1, <2>3, HeadPassedIsChosen
  <2> QED BY <2>1, <2>2, <2>3 DEF DispatchBase
<1> QED BY <1>1, <1>2, <1>3 DEF Rule!Chosen, Rule!Before, Before

LEMMA ClockIsTick ==
  ASSUME StructureInv, ScheduleFollowsClock, AdvanceClock
  PROVE  Rule!Tick
<1>1. UNCHANGED <<inputs, next, run, served, Waiting, start, dispatchIndex, ndisp, completedWork,
                  fenWork, dispatchedRanks, fenCount, ahead>>
  BY ClockStructure DEF AdvanceClock, workVars, countVars, windowVars, resultVars
<1>2. /\ ~Rule!CompletionDue /\ ~Rule!ArrivalDue /\ ~Rule!CanDispatch /\ ~Rule!AllStarted
      /\ t' \in Rule!Instants /\ \A u \in Rule!Instants : t' <= u
  BY SameGuards, LoopHasWork DEF AdvanceClock
<1> QED BY <1>1, <1>2 DEF Rule!Tick, Rule!inputs, inputs, Rule!account

\* Steps the rule does not see.
LEMMA HiddenStep ==
  ASSUME StructureInv, WindowOverflow \/ Finished \/ UNCHANGED vars
  PROVE  UNCHANGED Rule!vars
<1>1. UNCHANGED <<inputs, t, next, run, served, Waiting, start, dispatchIndex, ndisp,
                  completedWork, fenWork, dispatchedRanks, fenCount, ahead>>
  BY DEF WindowOverflow, Finished, vars, workVars, countVars, windowVars, resultVars, Waiting,
         inputs
<1> QED BY <1>1 DEF Rule!vars, Rule!inputs, inputs, Rule!account

LEMMA InitIsInit == Init => Rule!Init
<1> SUFFICES ASSUME Init PROVE Rule!Init
  OBVIOUS
<1>1. Waiting = {}
  BY DEF Init, Idle, Waiting, Rank
<1>2. Rule!InputsOK /\ Rule!Rank = Rank
  BY DEF Init, Rule!InputsOK, Rule!TraceOK, InputsOK, TraceOK, Rule!Rank, Rank
<1> QED BY <1>1, <1>2
    DEF Init, Idle, Rule!Init, Rule!BeforeTime, BeforeTime, Rule!NotStarted, NotStarted

\* Every run of the kernel is a run of the rule of sim/reference.py: the same jobs are
\* started at the same instants in the same order (RefinesGuardRule).
THEOREM KernelImplementsRule == Spec => RefinesGuardRule
<1>1. ASSUME StructureInv, ScheduleFollowsClock, [Next]_vars PROVE [Rule!Next]_(Rule!vars)
  <2>1. ASSUME NEW c \in Rank, ApplyCompletion(c) PROVE Rule!Next
    BY <1>1, <2>1, CompletionIsCharge, SameGuards DEF Rule!Next
  <2>2. CASE AdmitArrival
    BY <1>1, <2>2, AdmissionIsArrival DEF Rule!Next
  <2>3. ASSUME NEW j \in Rank, DispatchHead(j) PROVE Rule!Next
    <3>1. Rule!Chosen(j) /\ Waiting' = Waiting \ {j}
      BY <1>1, <2>3, HeadIsChosen, DispatchHeadStructure
    <3>2. Rule!Dispatch(j)
      BY <1>1, <2>3, <3>1, DispatchIsDispatch DEF DispatchHead
    <3> QED BY <1>1, <3>2, SameGuards DEF Rule!Next
  <2>4. ASSUME NEW j \in Rank, DispatchForced(j) PROVE Rule!Next
    <3>1. Rule!Chosen(j) /\ Waiting' = Waiting \ {j}
      BY <1>1, <2>4, ForcedIsChosen, DispatchForcedStructure
    <3>2. Rule!Dispatch(j)
      BY <1>1, <2>4, <3>1, DispatchIsDispatch DEF DispatchForced
    <3> QED BY <1>1, <3>2, SameGuards DEF Rule!Next
  <2>5. ASSUME NEW j \in Rank, DispatchBase(j) PROVE Rule!Next
    <3>1. Rule!Chosen(j) /\ Waiting' = Waiting \ {j}
      BY <1>1, <2>5, BaseIsChosen, DispatchBaseStructure
    <3>2. Rule!Dispatch(j)
      BY <1>1, <2>5, <3>1, DispatchIsDispatch DEF DispatchBase
    <3> QED BY <1>1, <3>2, SameGuards DEF Rule!Next
  <2>6. CASE AdvanceClock
    BY <1>1, <2>6, ClockIsTick DEF Rule!Next
  <2>7. CASE WindowOverflow \/ Finished \/ UNCHANGED vars
    BY <1>1, <2>7, HiddenStep
  <2> QED BY <1>1, <2>1, <2>2, <2>3, <2>4, <2>5, <2>6, <2>7 DEF Next
<1> QED BY <1>1, InitIsInit, StructureInvariant, ScheduleCorrect, PTL
    DEF Spec, RefinesGuardRule, Rule!Spec

---------------------------------------------------------------------------
(* What else the runs check.                                               *)

\* kernel.py:22-24: at a constant budget the head decides (HeadDecidesAtConstantBudget).
THEOREM HeadDecides == Spec => []HeadDecidesAtConstantBudget
<1>1. ASSUME StructureInv, ScheduleFollowsClock PROVE HeadDecidesAtConstantBudget
  <2> SUFFICES ASSUME guarding, pol.en = 0, pol.gam = 0, nwait > 0, ~HeadAtCap,
                      FiredPositions # {}
               PROVE  FifoHead - base \in FiredPositions
    BY <1>1 DEF HeadDecidesAtConstantBudget
  <2>1. PICK p \in FiredPositions : TRUE
    OBVIOUS
  <2>2. PICK q \in Waiting : q - base \in FiredPositions
    BY <1>1, <2>1 DEF FiredPositions, AtLeast, StructureInv, WindowMirrorsQueue
  <2>3. /\ FifoHead \in Waiting
        /\ completedWork - fenWork[q] <= completedWork - fenWork[FifoHead]
    BY <1>1, <2>2, HeadIsChargedMost DEF guarding
  <2>4. Rule!Spent(q)
    BY <1>1, <2>2, LeafTestIsSpent
  <2>5. Rule!Spent(FifoHead)
    <3> DEFINE o1 == completedWork - fenWork[q]
               o2 == completedWork - fenWork[FifoHead]
    <3>1. /\ o1 \in Int /\ o2 \in Int /\ pol.ed \in Nat \ {0} /\ pol.b0 \in Nat
          /\ pol.bmax \in Nat /\ ahead[q] \in Int /\ ahead[FifoHead] \in Int /\ t \in Int
          /\ a_us[q] \in Int /\ a_us[FifoHead] \in Int
      <4>1. pol \in PolicyType /\ a_us \in [Rank -> Int]
        BY <1>1, InputTypes DEF StructureInv, TypeOK
      <4> QED BY <1>1, <2>2, <2>3, <4>1 DEF PolicyType, StructureInv, TypeOK, Waiting
    <3>2. pol.gam * ahead[q] = 0 /\ pol.gam * ahead[FifoHead] = 0
          /\ pol.en * (t - a_us[q]) = 0 /\ pol.en * (t - a_us[FifoHead]) = 0
      BY <3>1
    <3>3. \/ pol.bmax > 0 /\ o1 >= pol.bmax
          \/ pol.ed * o1 >= pol.ed * pol.b0
      BY <2>2, <2>4, <3>1, <3>2 DEF Rule!Spent
    <3>4. pol.ed * o1 \in Int /\ pol.ed * o2 \in Int /\ pol.ed * pol.b0 \in Int
          /\ pol.ed * o1 <= pol.ed * o2
      <4>1. o1 = o2 \/ o1 < o2
        BY <2>3, <3>1
      <4>2. o1 < o2 => pol.ed * o1 < pol.ed * o2
        BY <3>1, ScaleStrictly
      <4>3. pol.ed * o1 \in Int /\ pol.ed * o2 \in Int /\ pol.ed * pol.b0 \in Int
        BY <3>1
      <4> HIDE DEF o1, o2
      <4> QED BY <4>1, <4>2, <4>3
    <3>5. \/ pol.bmax > 0 /\ o2 >= pol.bmax
          \/ pol.ed * o2 >= pol.ed * pol.b0
      BY <2>3, <3>1, <3>3, <3>4
    <3> QED BY <2>3, <3>1, <3>2, <3>5 DEF Rule!Spent
  <2> QED BY <1>1, <2>3, <2>5, LeafTestIsSpent
<1> QED BY <1>1, StructureInvariant, ScheduleCorrect, PTL

---------------------------------------------------------------------------
(* How much may pass a waiting job.                                        *)

\* The finite sets of ranks the accounts sum over, and their costs.
LEMMA AccountTypes ==
  ASSUME StructureInv
  PROVE  /\ N \in Nat /\ L \in Nat /\ K \in Nat /\ Rank \subseteq Int /\ IsFiniteSet(Rank)
         /\ served \subseteq Rank /\ run \subseteq served /\ pol \in PolicyType
         /\ \A j \in Rank : s_us[j] \in Nat /\ s_us[j] <= L
         /\ completedWork \in Int /\ fenWork \in [Rank -> Int]
         /\ dispatchedRanks \in Int /\ fenCount \in [Rank -> Int]
         /\ \A S \in SUBSET Rank : IsFiniteSet(S) /\ Cardinality(S) \in Nat
<1>1. /\ N \in Nat /\ L \in Nat /\ K \in Nat /\ s_us \in [Rank -> 1 .. L] /\ pol \in PolicyType
  BY InputTypes, SizeAssumption DEF SizeAssumption, StructureInv, TypeOK
<1>2. Rank \subseteq Int /\ IsFiniteSet(Rank)
  BY <1>1, FS_Interval DEF Rank
<1>3. \A S \in SUBSET Rank : IsFiniteSet(S) /\ Cardinality(S) \in Nat
  BY <1>2, FS_Subset, FS_CardinalityType
<1>4. served \subseteq Rank
  BY <1>1 DEF Rank, StructureInv, TypeOK
<1> QED BY <1>1, <1>2, <1>3, <1>4 DEF StructureInv, TypeOK

\* What is charged against q, and what has passed it, in terms of jobs.
LEMMA ChargedAgainst ==
  ASSUME StructureInv, AccountsAreSums, NEW q \in Rank
  PROVE  /\ guarding => WorkOf({j \in served \ run : j > q}, s_us) = completedWork - fenWork[q]
         /\ pol.mode = "skip" => Cardinality(Overtakers(q)) = dispatchedRanks - fenCount[q]
<1>1. ASSUME guarding
      PROVE  WorkOf({j \in served \ run : j > q}, s_us) = completedWork - fenWork[q]
  <2> DEFINE A == {j \in served \ run : j <= q}
             B == {j \in served \ run : j > q}
  <2>1. /\ A \cup B = served \ run /\ A \cap B = {} /\ A \in SUBSET Rank /\ B \in SUBSET Rank
        /\ \A j \in A \cup B : s_us[j] \in Nat
    BY AccountTypes
  <2>2. IsFiniteSet(A) /\ IsFiniteSet(B)
    BY <2>1, AccountTypes
  <2>3. WorkOf(A \cup B, s_us) = WorkOf(A, s_us) + WorkOf(B, s_us)
    BY <2>1, <2>2, WorkSplit
  <2>4. WorkOf(A, s_us) \in Nat /\ WorkOf(B, s_us) \in Nat
    BY <2>1, <2>2, WorkType
  <2>5. completedWork = WorkOf(A \cup B, s_us) /\ fenWork[q] = WorkOf(A, s_us)
    BY <1>1, <2>1 DEF AccountsAreSums
  <2> QED BY <2>3, <2>4, <2>5
<1>2. ASSUME pol.mode = "skip"
      PROVE  Cardinality(Overtakers(q)) = dispatchedRanks - fenCount[q]
  <2> DEFINE A == {j \in served : j <= q}
             B == {j \in served : j > q}
  <2>1. A \cup B = served /\ A \cap B = {} /\ A \in SUBSET Rank /\ B \in SUBSET Rank
    BY AccountTypes
  <2>2. IsFiniteSet(A) /\ IsFiniteSet(B) /\ Cardinality(A) \in Nat /\ Cardinality(B) \in Nat
    BY <2>1, AccountTypes
  <2>3. Cardinality(A \cup B) = Cardinality(A) + Cardinality(B)
    <3>1. Cardinality(A \cap B) = 0
      BY <2>1, FS_EmptySet
    <3>2. Cardinality(A \cup B) = Cardinality(A) + Cardinality(B) - Cardinality(A \cap B)
      BY <2>2, FS_Union
    <3> HIDE DEF A, B
    <3> QED BY <2>2, <3>1, <3>2
  <2>4. dispatchedRanks = Cardinality(A \cup B) /\ fenCount[q] = Cardinality(A)
    BY <1>2, <2>1 DEF AccountsAreSums
  <2> QED BY <2>2, <2>3, <2>4 DEF Overtakers
<1> QED BY <1>1, <1>2

\* The state of a job that the kernel hands out, whichever way it chose it.
LEMMA DispatchedJob ==
  ASSUME StructureInv, ScheduleFollowsClock,
         \E j \in Rank : DispatchHead(j) \/ DispatchForced(j) \/ DispatchBase(j)
  PROVE  \E j \in Rank :
           /\ Rule!Chosen(j) /\ j \in Waiting /\ Waiting' = Waiting \ {j} /\ CanDispatch
           /\ served' = served \cup {j} /\ run' = run \cup {j} /\ ndisp' = ndisp + 1
           /\ start' = [start EXCEPT ![j] = t]
           /\ dispatchIndex' = [dispatchIndex EXCEPT ![j] = ndisp]
           /\ UNCHANGED <<inputs, t, next, completedWork, fenWork>>
           /\ IF pol.mode = "skip"
                THEN /\ dispatchedRanks' = dispatchedRanks + 1
                     /\ fenCount' = AddSuffix(fenCount, j, 1)
                ELSE UNCHANGED <<dispatchedRanks, fenCount>>
<1>1. PICK j \in Rank : DispatchHead(j) \/ DispatchForced(j) \/ DispatchBase(j)
  OBVIOUS
<1>2. Rule!Chosen(j)
  BY <1>1, HeadIsChosen, ForcedIsChosen, BaseIsChosen
<1>3. j \in Waiting /\ Waiting' = Waiting \ {j}
  BY <1>1, DispatchHeadStructure, DispatchForcedStructure, DispatchBaseStructure
<1>4. PICK forced \in BOOLEAN : Dispatch(j, forced) /\ CanDispatch
  BY <1>1 DEF DispatchHead, DispatchForced, DispatchBase, DispatchEpoch
<1> QED BY <1>2, <1>3, <1>4 DEF Dispatch, MarkServed, workVars, countVars

\* A completion charges the job that completed, to the total and to the suffix.
LEMMA CompletionAccounts ==
  ASSUME StructureInv, AccountsAreSums, NEW c \in Rank, ApplyCompletion(c)
  PROVE  AccountsAreSums'
<1>1. /\ c \in run /\ run' = run \ {c} /\ UNCHANGED <<served, s_us, pol, dispatchedRanks, fenCount>>
  BY DEF ApplyCompletion, inputs, countVars
<1>2. ASSUME guarding'
      PROVE  /\ completedWork' = WorkOf(served' \ run', s_us')
             /\ \A q \in Rank : fenWork'[q] = WorkOf({j \in served' \ run' : j <= q}, s_us')
  <2>1. guarding
    BY <1>1, <1>2 DEF guarding
  <2>2. /\ completedWork' = completedWork + s_us[c]
        /\ fenWork' = [q \in Rank |-> IF q >= c THEN fenWork[q] + s_us[c] ELSE fenWork[q]]
    BY <2>1, AccountTypes DEF ApplyCompletion, AddSuffix
  <2>3. completedWork' = WorkOf(served' \ run', s_us')
    <3>1. served' \ run' = (served \ run) \cup {c} /\ c \notin served \ run
      BY <1>1, AccountTypes
    <3>2. IsFiniteSet(served \ run) /\ \A j \in (served \ run) \cup {c} : s_us[j] \in Nat
      BY AccountTypes
    <3>3. WorkOf((served \ run) \cup {c}, s_us) = WorkOf(served \ run, s_us) + s_us[c]
      BY <3>1, <3>2, WorkAddJob
    <3> QED BY <1>1, <2>1, <2>2, <3>1, <3>3 DEF AccountsAreSums
  <2>4. ASSUME NEW q \in Rank PROVE fenWork'[q] = WorkOf({j \in served' \ run' : j <= q}, s_us')
    <3> DEFINE A == {j \in served \ run : j <= q}
               B == {j \in served' \ run' : j <= q}
    <3>1. fenWork[q] = WorkOf(A, s_us)
      BY <2>1 DEF AccountsAreSums
    <3>2. c \in Int /\ q \in Int /\ c \in served /\ \A j \in served : j \in Int
      BY <1>1, AccountTypes
    <3>3. CASE q >= c
      <4>1. B = A \cup {c} /\ c \notin A
        BY <1>1, <3>2, <3>3
      <4>2. IsFiniteSet(A) /\ \A j \in A \cup {c} : s_us[j] \in Nat
        <5>1. A \in SUBSET Rank /\ A \cup {c} \subseteq Rank
          BY AccountTypes
        <5> QED BY <5>1, AccountTypes
      <4>3. WorkOf(A \cup {c}, s_us) = WorkOf(A, s_us) + s_us[c]
        BY <4>1, <4>2, WorkAddJob
      <4> QED BY <1>1, <2>2, <3>1, <3>3, <4>1, <4>3
    <3>4. CASE ~(q >= c)
      <4>1. B = A
        BY <1>1, <3>2, <3>4
      <4> QED BY <1>1, <2>2, <3>1, <3>4, <4>1
    <3> QED BY <3>3, <3>4
  <2> QED BY <2>3, <2>4
<1>3. ASSUME pol'.mode = "skip"
      PROVE  /\ dispatchedRanks' = Cardinality(served')
             /\ \A q \in Rank : fenCount'[q] = Cardinality({j \in served' : j <= q})
  BY <1>1, <1>3 DEF AccountsAreSums
<1> QED BY <1>2, <1>3 DEF AccountsAreSums

\* A dispatch completes nothing, and counts the job it hands out.
LEMMA DispatchAccounts ==
  ASSUME StructureInv, ScheduleFollowsClock, AccountsAreSums,
         \E j \in Rank : DispatchHead(j) \/ DispatchForced(j) \/ DispatchBase(j)
  PROVE  AccountsAreSums'
<1>1. PICK j \in Rank :
           /\ j \in Waiting /\ served' = served \cup {j} /\ run' = run \cup {j}
           /\ UNCHANGED <<inputs, completedWork, fenWork>>
           /\ IF pol.mode = "skip"
                THEN /\ dispatchedRanks' = dispatchedRanks + 1
                     /\ fenCount' = AddSuffix(fenCount, j, 1)
                ELSE UNCHANGED <<dispatchedRanks, fenCount>>
  BY DispatchedJob
<1>2. j \notin served /\ UNCHANGED <<pol, s_us, guarding>>
  BY <1>1 DEF Waiting, inputs, guarding
<1>3. ASSUME guarding'
      PROVE  /\ completedWork' = WorkOf(served' \ run', s_us')
             /\ \A q \in Rank : fenWork'[q] = WorkOf({i \in served' \ run' : i <= q}, s_us')
  <2>1. served' \ run' = served \ run
    BY <1>1, <1>2, AccountTypes
  <2> QED BY <1>1, <1>2, <1>3, <2>1 DEF AccountsAreSums
<1>4. ASSUME pol'.mode = "skip"
      PROVE  /\ dispatchedRanks' = Cardinality(served')
             /\ \A q \in Rank : fenCount'[q] = Cardinality({i \in served' : i <= q})
  <2>1. /\ dispatchedRanks' = dispatchedRanks + 1
        /\ fenCount' = [q \in Rank |-> IF q >= j THEN fenCount[q] + 1 ELSE fenCount[q]]
    BY <1>1, <1>2, <1>4, AccountTypes DEF AddSuffix
  <2>2. dispatchedRanks' = Cardinality(served')
    <3>1. IsFiniteSet(served)
      BY AccountTypes
    <3> QED BY <1>1, <1>2, <1>4, <2>1, <3>1, FS_AddElement DEF AccountsAreSums
  <2>3. ASSUME NEW q \in Rank PROVE fenCount'[q] = Cardinality({i \in served' : i <= q})
    <3> DEFINE A == {i \in served : i <= q}
               B == {i \in served' : i <= q}
    <3>1. fenCount[q] = Cardinality(A)
      BY <1>2, <1>4 DEF AccountsAreSums
    <3>2. CASE q >= j
      <4>1. B = A \cup {j} /\ j \notin A
        BY <1>1, <1>2, <3>2
      <4>2. A \in SUBSET Rank
        BY AccountTypes
      <4>3. IsFiniteSet(A)
        BY <4>2, AccountTypes
      <4>4. Cardinality(A \cup {j}) = Cardinality(A) + 1
        BY <4>1, <4>3, FS_AddElement
      <4> QED BY <2>1, <3>1, <3>2, <4>1, <4>4
    <3>3. CASE ~(q >= j)
      <4>1. B = A
        BY <1>1, <1>2, <3>3, AccountTypes
      <4> QED BY <2>1, <3>1, <3>3, <4>1
    <3> QED BY <3>2, <3>3
  <2> QED BY <2>2, <2>3
<1> QED BY <1>3, <1>4 DEF AccountsAreSums

LEMMA AccountsStep ==
  ASSUME StructureInv, ScheduleFollowsClock, AccountsAreSums, [Next]_vars
  PROVE  AccountsAreSums'
<1>1. ASSUME NEW c \in Rank, ApplyCompletion(c) PROVE AccountsAreSums'
  BY <1>1, CompletionAccounts
<1>2. ASSUME NEW j \in Rank, DispatchHead(j) \/ DispatchForced(j) \/ DispatchBase(j)
      PROVE  AccountsAreSums'
  BY <1>2, DispatchAccounts
<1>3. CASE AdmitArrival \/ WindowOverflow \/ AdvanceClock \/ Finished \/ UNCHANGED vars
  <2>1. UNCHANGED <<served, run, s_us, pol, completedWork, fenWork, dispatchedRanks, fenCount>>
    BY <1>3
        DEF AdmitArrival, WindowOverflow, AdvanceClock, Finished, vars, inputs, workVars,
            countVars, windowVars, resultVars
  <2> QED BY <2>1 DEF AccountsAreSums, guarding
<1> QED BY <1>1, <1>2, <1>3 DEF Next

\* A job that is handed out passes only jobs whose account still allows it.
LEMMA PassedJobAllows ==
  ASSUME StructureInv, AccountsAreSums, NEW j \in Waiting, Rule!Chosen(j), NEW q \in Waiting, q < j
  PROVE  /\ guarding /\ pol.bmax > 0 =>
              WorkOf({i \in served \ run : i > q}, s_us) < pol.bmax
         /\ pol.mode = "skip" => Cardinality(Overtakers(q)) < pol.ncap
<1>1. q \notin Rule!Fired /\ q \in Rank
  BY AccountTypes DEF Rule!Chosen, Waiting
<1>2. /\ completedWork - fenWork[q] \in Int /\ dispatchedRanks - fenCount[q] \in Int
      /\ pol.bmax \in Int /\ pol.ncap \in Int
  BY <1>1, AccountTypes DEF PolicyType
<1>3. guarding /\ pol.bmax > 0 => ~(completedWork - fenWork[q] >= pol.bmax)
  BY <1>1 DEF Rule!Fired, Rule!Spent, guarding
<1>4. pol.mode = "skip" => ~(dispatchedRanks - fenCount[q] >= pol.ncap)
  BY <1>1 DEF Rule!Fired
<1> QED BY <1>1, <1>2, <1>3, <1>4, ChargedAgainst

\* One more overtaker adds at most what K jobs in flight can add to the charge.
LEMMA InFlightWork ==
  ASSUME StructureInv, NEW j \in Waiting, NEW q \in Rank, j > q, CanDispatch
  PROVE  WorkOf(Overtakers(q) \cup {j}, s_us)
           <= WorkOf({i \in served \ run : i > q}, s_us) + K * L
<1> DEFINE A == {i \in served \ run : i > q}
           B == {i \in run : i > q} \cup {j}
<1>1. /\ Overtakers(q) \cup {j} = A \cup B /\ A \cap B = {} /\ A \in SUBSET Rank
      /\ B \in SUBSET Rank /\ B \subseteq run \cup {j}
  BY AccountTypes DEF Overtakers, Waiting
<1>2. IsFiniteSet(A) /\ IsFiniteSet(B) /\ Cardinality(B) \in Nat /\ IsFiniteSet(run)
      /\ Cardinality(run) \in Nat
  BY <1>1, AccountTypes
<1>3. Cardinality(B) <= K
  <2>1. IsFiniteSet(run \cup {j}) /\ Cardinality(run \cup {j}) <= Cardinality(run) + 1
    <3>1. IsFiniteSet(run) /\ Cardinality(run) \in Nat
      BY <1>2
    <3>2. /\ IsFiniteSet(run \cup {j})
          /\ Cardinality(run \cup {j}) =
               IF j \in run THEN Cardinality(run) ELSE Cardinality(run) + 1
      BY <3>1, FS_AddElement
    <3> QED BY <3>1, <3>2
  <2>2. Cardinality(B) <= Cardinality(run \cup {j})
    BY <1>1, <2>1, FS_Subset
  <2>3. Cardinality(run \cup {j}) \in Nat
    BY <2>1, FS_CardinalityType
  <2> QED BY <1>2, <2>1, <2>2, <2>3, AccountTypes DEF CanDispatch
<1>4. WorkOf(B, s_us) <= K * L
  <2>1. WorkOf(B, s_us) <= Cardinality(B) * L
    <3>1. \A i \in B : s_us[i] \in Nat /\ s_us[i] <= L
      BY <1>1, AccountTypes
    <3> QED BY <1>2, <3>1, WorkLimit, AccountTypes
  <2>2. WorkOf(B, s_us) \in Nat
    BY <1>1, <1>2, WorkType, AccountTypes
  <2> HIDE DEF B
  <2>3. Cardinality(B) * L <= K * L
    BY <1>2, <1>3, AccountTypes, ScaleWeakly
  <2>4. Cardinality(B) * L \in Int /\ K * L \in Int
    BY <1>2, AccountTypes
  <2> QED BY <2>1, <2>2, <2>3, <2>4
<1>5. WorkOf(A \cup B, s_us) = WorkOf(A, s_us) + WorkOf(B, s_us)
  <2>1. \A i \in A \cup B : s_us[i] \in Nat
    BY <1>1, AccountTypes
  <2> QED BY <1>1, <1>2, <2>1, WorkSplit
<1>6. WorkOf(A, s_us) \in Nat /\ WorkOf(B, s_us) \in Nat /\ K * L \in Int
  BY <1>1, <1>2, WorkType, AccountTypes
<1> HIDE DEF A, B
<1>7. WorkOf(A \cup B, s_us) <= WorkOf(A, s_us) + K * L
  BY <1>4, <1>5, <1>6
<1> QED BY <1>1, <1>7 DEF A, B

LEMMA DispatchOvertakes ==
  ASSUME StructureInv, ScheduleFollowsClock, AccountsAreSums, OvertakersLimited,
         OvertakingWorkBounded,
         \E j \in Rank : DispatchHead(j) \/ DispatchForced(j) \/ DispatchBase(j)
  PROVE  OvertakersLimited' /\ OvertakingWorkBounded'
<1>1. PICK j \in Rank :
           /\ Rule!Chosen(j) /\ j \in Waiting /\ Waiting' = Waiting \ {j} /\ CanDispatch
           /\ served' = served \cup {j} /\ UNCHANGED inputs
  BY DispatchedJob
<1>2. j \notin served /\ UNCHANGED <<pol, s_us, guarding>>
  BY <1>1 DEF Waiting, inputs, guarding
<1>3. ASSUME NEW q \in Waiting'
      PROVE  /\ q \in Waiting /\ q \in Rank /\ q \in Int /\ j \in Int /\ q # j
             /\ q < j => Overtakers(q)' = Overtakers(q) \cup {j}
             /\ ~(q < j) => Overtakers(q)' = Overtakers(q)
  <2>1. q \in Waiting /\ q \in Rank /\ q \in Int /\ j \in Int /\ q # j
    BY <1>1, <1>3, AccountTypes DEF Waiting
  <2> QED BY <1>1, <2>1 DEF Overtakers
<1>4. ASSUME pol'.mode = "skip", NEW q \in Waiting'
      PROVE  Cardinality(Overtakers(q)') <= pol'.ncap
  <2>1. /\ Cardinality(Overtakers(q)) <= pol.ncap /\ q \in Rank /\ pol.ncap \in Int
    BY <1>2, <1>3, <1>4, AccountTypes DEF OvertakersLimited, PolicyType
  <2>2. CASE q < j
    <3>1. Cardinality(Overtakers(q)) < pol.ncap
      BY <1>1, <1>2, <1>3, <1>4, <2>2, PassedJobAllows
    <3>2. Overtakers(q) \in SUBSET Rank /\ j \notin Overtakers(q)
      BY <1>2, AccountTypes DEF Overtakers
    <3>3. IsFiniteSet(Overtakers(q)) /\ Cardinality(Overtakers(q)) \in Nat
      BY <3>2, AccountTypes
    <3>4. Cardinality(Overtakers(q) \cup {j}) = Cardinality(Overtakers(q)) + 1
      BY <3>2, <3>3, FS_AddElement
    <3> QED BY <1>2, <1>3, <2>1, <2>2, <3>1, <3>3, <3>4
  <2>3. CASE ~(q < j)
    BY <1>2, <1>3, <2>1, <2>3
  <2> QED BY <2>2, <2>3
<1>5. ASSUME guarding', pol'.bmax > 0, NEW q \in Waiting'
      PROVE  WorkOf(Overtakers(q)', s_us') < pol'.bmax + K * L
  <2>1. WorkOf(Overtakers(q), s_us) < pol.bmax + K * L
    BY <1>2, <1>3, <1>5 DEF OvertakingWorkBounded
  <2>2. CASE q < j
    <3> DEFINE charged == WorkOf({i \in served \ run : i > q}, s_us)
               passed  == WorkOf(Overtakers(q) \cup {j}, s_us)
               flight  == K * L
    <3>1. charged < pol.bmax
      BY <1>1, <1>2, <1>3, <1>5, <2>2, PassedJobAllows
    <3>2. passed <= charged + flight
      <4>1. j > q
        BY <1>3, <2>2
      <4> QED BY <1>1, <1>3, <4>1, InFlightWork
    <3>3. charged \in Int /\ pol.bmax \in Int /\ flight \in Int
      <4>1. charged = completedWork - fenWork[q]
        BY <1>2, <1>3, <1>5, ChargedAgainst
      <4> QED BY <1>3, <4>1, AccountTypes DEF PolicyType
    <3>4. passed \in Int
      <4> DEFINE S == Overtakers(q) \cup {j}
      <4>1. S \in SUBSET Rank
        BY AccountTypes DEF Overtakers
      <4>2. IsFiniteSet(S) /\ \A i \in S : s_us[i] \in Nat
        BY <4>1, AccountTypes
      <4> QED BY <4>2, WorkType
    <3>5. passed < pol.bmax + flight
      <4> HIDE DEF charged, passed, flight
      <4> QED BY <3>1, <3>2, <3>3, <3>4
    <3> QED BY <1>2, <1>3, <2>2, <3>5
  <2>3. CASE ~(q < j)
    BY <1>2, <1>3, <2>1, <2>3
  <2> QED BY <2>2, <2>3
<1> QED BY <1>4, <1>5 DEF OvertakersLimited, OvertakingWorkBounded

\* Nobody has passed a job that arrives.
LEMMA ArrivalOvertaken ==
  ASSUME StructureInv, OvertakersLimited, OvertakingWorkBounded, AdmitArrival
  PROVE  OvertakersLimited' /\ OvertakingWorkBounded'
<1>1. /\ UNCHANGED <<served, pol, s_us, guarding>> /\ next \in Rank
      /\ Waiting' \subseteq Waiting \cup {next} /\ served \subseteq 0 .. next - 1
  <2>1. next \in Rank /\ next' = next + 1 /\ served' = served
    BY SizeAssumption
    DEF AdmitArrival, ArrivalDue, StructureInv, TypeOK, Rank, SizeAssumption
  <2>2. Waiting' \subseteq Waiting \cup {next}
    BY <2>1, AccountTypes DEF Waiting
  <2> QED BY <2>1, <2>2 DEF AdmitArrival, inputs, guarding, StructureInv, TypeOK
<1>2. ASSUME NEW q \in Waiting', q = next
      PROVE  Overtakers(q)' = {}
  <2>1. q \in Int /\ \A j \in served : j < q
    BY <1>1, <1>2, AccountTypes
  <2>2. \A j \in served : j \in Int /\ ~(j > q)
    BY <2>1, AccountTypes
  <2> QED BY <1>1, <2>2 DEF Overtakers
<1>3. ASSUME NEW q \in Waiting', q # next
      PROVE  q \in Waiting /\ Overtakers(q)' = Overtakers(q)
  BY <1>1, <1>3 DEF Overtakers
<1>4. /\ Cardinality({}) = 0 /\ WorkOf({}, s_us) = 0
      /\ 0 <= pol.ncap
      /\ pol.bmax > 0 => 0 < pol.bmax + K * L
  <2>1. pol.ncap \in Nat /\ pol.bmax \in Nat /\ K * L \in Nat
    BY AccountTypes, NaturalProduct DEF PolicyType
  <2>2. Cardinality({}) = 0 /\ WorkOf({}, s_us) = 0
    BY FS_EmptySet, WorkEmpty
  <2> QED BY <2>1, <2>2
<1>5. ASSUME pol'.mode = "skip", NEW q \in Waiting'
      PROVE  Cardinality(Overtakers(q)') <= pol'.ncap
  BY <1>1, <1>2, <1>3, <1>4, <1>5 DEF OvertakersLimited
<1>6. ASSUME guarding', pol'.bmax > 0, NEW q \in Waiting'
      PROVE  WorkOf(Overtakers(q)', s_us') < pol'.bmax + K * L
  BY <1>1, <1>2, <1>3, <1>4, <1>6 DEF OvertakingWorkBounded
<1> QED BY <1>5, <1>6 DEF OvertakersLimited, OvertakingWorkBounded

LEMMA OvertakingStep ==
  ASSUME KernelInv, [Next]_vars
  PROVE  OvertakersLimited' /\ OvertakingWorkBounded'
<1> USE DEF KernelInv
<1>1. ASSUME NEW j \in Rank, DispatchHead(j) \/ DispatchForced(j) \/ DispatchBase(j)
      PROVE  OvertakersLimited' /\ OvertakingWorkBounded'
  BY <1>1, DispatchOvertakes
<1>2. CASE AdmitArrival
  BY <1>2, ArrivalOvertaken
<1>3. ASSUME (\E c \in Rank : ApplyCompletion(c)) \/ WindowOverflow \/ AdvanceClock \/ Finished
             \/ UNCHANGED vars
      PROVE  OvertakersLimited' /\ OvertakingWorkBounded'
  <2>1. UNCHANGED <<served, next, s_us, pol>>
    BY <1>3 DEF ApplyCompletion, WindowOverflow, AdvanceClock, Finished, vars, inputs
  <2>2. Waiting' = Waiting /\ (\A q : Overtakers(q)' = Overtakers(q)) /\ guarding' = guarding
    BY <2>1 DEF Waiting, Overtakers, guarding
  <2> QED BY <2>1, <2>2 DEF OvertakersLimited, OvertakingWorkBounded
<1> QED BY <1>1, <1>2, <1>3 DEF Next

LEMMA InitKernel == Init => KernelInv
<1> SUFFICES ASSUME Init PROVE KernelInv
  OBVIOUS
<1>1. /\ Waiting = {} /\ served = {} /\ run = {}
      /\ completedWork = 0 /\ fenWork = [q \in Rank |-> 0]
      /\ dispatchedRanks = 0 /\ fenCount = [q \in Rank |-> 0]
  BY DEF Init, Idle, Waiting, Rank
<1>2. AccountsAreSums
  <2>1. \A q \in Rank : {j \in served \ run : j <= q} = {} /\ {j \in served : j <= q} = {}
    BY <1>1
  <2> QED BY <1>1, <2>1, WorkEmpty, FS_EmptySet DEF AccountsAreSums
<1>3. ScheduleFollowsClock
  BY FS_EmptySet, SizeAssumption DEF Init, Idle, ScheduleFollowsClock, SizeAssumption, Rank
<1> QED BY <1>1, <1>2, <1>3, InitStructure
    DEF KernelInv, OvertakersLimited, OvertakingWorkBounded

\* Every step of the kernel keeps its invariant.
LEMMA KernelStep ==
  ASSUME KernelInv, [Next]_vars
  PROVE  KernelInv'
<1>1. StructureInv' /\ ScheduleFollowsClock' /\ AccountsAreSums'
  BY StructureStep, ScheduleStep, AccountsStep DEF KernelInv
<1>2. OvertakersLimited' /\ OvertakingWorkBounded'
  BY OvertakingStep
<1> QED BY <1>1, <1>2 DEF KernelInv

\* The whole inductive invariant (KernelInv): the structures mirror the queue, the
\* schedule follows the clock, and the accounts are the work and the jobs they stand for.
THEOREM KernelInvariant == Spec => []KernelInv
  BY KernelStep, InitKernel, PTL DEF Spec

\* The promise of a capped budget (OvertakingWorkBounded): whatever the trace, the
\* scores and the interleaving of completions, the work that passes a waiting job stays
\* below the cap plus what K servers can hold.
THEOREM OvertakingIsBounded == Spec => []OvertakingWorkBounded
  BY KernelInvariant, PTL DEF KernelInv

\* The promise of the skip wrapper (OvertakersLimited): at most ncap jobs pass anybody.
THEOREM PassesAreLimited == Spec => []OvertakersLimited
  BY KernelInvariant, PTL DEF KernelInv

LEMMA TraceTypes ==
  ASSUME TraceOK
  PROVE  /\ N \in Nat /\ N > 0 /\ K \in Nat /\ K > 0 /\ L \in Nat
         /\ Rank \subseteq Nat /\ IsFiniteSet(Rank) /\ Cardinality(Rank) = N
         /\ a_us \in [Rank -> Nat] /\ s_us \in [Rank -> 1 .. L]
         /\ \A S \in SUBSET Rank :
              /\ IsFiniteSet(S) /\ Cardinality(S) \in Nat
              /\ IsFiniteSet(Units(S, s_us)) /\ WorkOf(S, s_us) \in Nat
<1>1. N \in Nat /\ N > 0 /\ K \in Nat /\ K > 0 /\ L \in Nat
  BY SizeAssumption DEF SizeAssumption
<1>2. Rank \subseteq Nat /\ IsFiniteSet(Rank) /\ Cardinality(Rank) = N
  BY <1>1, FS_Interval DEF Rank
<1>3. a_us \in [Rank -> Nat] /\ s_us \in [Rank -> 1 .. L]
  <2>1. a_us \in [Rank -> Nat]
    BY ArrivalAssumption DEF TraceOK, ArrivalAssumption
  <2>2. s_us \in [Rank -> 1 .. L]
    BY ServiceAssumption DEF TraceOK, ServiceAssumption
  <2> QED BY <2>1, <2>2
<1>4. ASSUME NEW S \in SUBSET Rank
      PROVE  /\ IsFiniteSet(S) /\ Cardinality(S) \in Nat
             /\ IsFiniteSet(Units(S, s_us)) /\ WorkOf(S, s_us) \in Nat
  <2>1. IsFiniteSet(S) /\ Cardinality(S) \in Nat
    BY <1>2, FS_Subset, FS_CardinalityType
  <2>2. \A j \in S : s_us[j] \in Nat
    BY <1>1, <1>3
  <2> QED BY <2>1, <2>2, UnitsFinite, WorkType
<1> QED BY <1>1, <1>2, <1>3, <1>4

---------------------------------------------------------------------------
(* The schedule that the kernel makes, at any moment of a run.             *)

\* The jobs that hold a server at instant u.
ExecutingNow(u) == {j \in served : start[j] <= u /\ u < Done(j)}

\* At every instant the clock has passed, at most K jobs held a server, and exactly K
\* while some job waited.
NoServerIdle ==
  /\ \A o \in served : start[o] <= t
  /\ \A o \in served \ run : Done(o) <= t
  /\ next < N => t <= a_us[next]
  /\ Cardinality(run) <= K
  /\ \A u \in Nat : u < t => Cardinality(ExecutingNow(u)) <= K
  /\ \A q \in 0 .. next - 1, u \in Nat :
       a_us[q] <= u /\ u < t /\ (q \in served => u < start[q]) =>
         Cardinality(ExecutingNow(u)) = K

\* Jobs start in the order of their dispatch.
StartsInOrder ==
  /\ \A j \in served : dispatchIndex[j] \in 0 .. ndisp - 1
  /\ \A i, j \in served : i # j => dispatchIndex[i] # dispatchIndex[j]
  /\ \A i, j \in served : dispatchIndex[i] < dispatchIndex[j] => start[i] <= start[j]

\* The jobs that passed q so far, and how long q has waited.
Passers(q) == {j \in served : j > q /\ (q \in served => dispatchIndex[j] < dispatchIndex[q])}
Age(q) == (IF q \in served THEN start[q] ELSE t) - a_us[q]

\* The policies that let nobody pass.
InOrder ==
  \/ pol.mode = "fcfs"
  \/ pol.mode = "skip" /\ pol.ncap = 0
  \/ guarding /\ pol.b0 = 0 /\ pol.en = 0 /\ pol.gam = 0

\* What passed a job is what its budget allowed, and K jobs more; it stays so after the
\* job has started.
PassesAllowed ==
  \A q \in 0 .. next - 1 :
    /\ guarding /\ pol.bmax > 0 => WorkOf(Passers(q), s_us) < pol.bmax + K * L
    /\ guarding /\ pol.gam = 0 =>
         pol.ed * WorkOf(Passers(q), s_us) <= pol.ed * (pol.b0 + K * L) + pol.en * Age(q)
    /\ pol.mode = "skip" => Cardinality(Passers(q)) <= pol.ncap
    /\ InOrder => Passers(q) = {}

LEMMA RunTypes ==
  ASSUME StructureInv, ScheduleFollowsClock
  PROVE  /\ TraceOK /\ N \in Nat /\ K \in Nat /\ K > 0 /\ L \in Nat /\ Rank \subseteq Nat
         /\ next \in 0 .. N /\ t \in Int /\ ndisp \in Nat
         /\ served \subseteq 0 .. next - 1 /\ served \subseteq Rank /\ 0 .. next - 1 \subseteq Rank
         /\ run \subseteq served /\ IsFiniteSet(run) /\ Cardinality(run) \in Nat
         /\ a_us \in [Rank -> Nat] /\ s_us \in [Rank -> 1 .. L]
         /\ start \in [Rank -> Int] /\ dispatchIndex \in [Rank -> Int]
         /\ \A j \in Rank : /\ a_us[j] \in Nat /\ s_us[j] \in Nat /\ start[j] \in Int
                            /\ dispatchIndex[j] \in Int /\ Done(j) \in Int
<1>1. TraceOK
  BY DEF StructureInv, TypeOK, InputsOK
<1>2. /\ N \in Nat /\ K \in Nat /\ K > 0 /\ L \in Nat /\ Rank \subseteq Nat
      /\ a_us \in [Rank -> Nat] /\ s_us \in [Rank -> 1 .. L]
  BY <1>1, TraceTypes
<1>3. /\ next \in 0 .. N /\ t \in Int /\ served \subseteq 0 .. next - 1 /\ run \subseteq served
      /\ start \in [Rank -> Int] /\ dispatchIndex \in [Rank -> Int]
  BY DEF StructureInv, TypeOK
<1>4. 0 .. next - 1 \subseteq Rank /\ served \subseteq Rank
  BY <1>2, <1>3 DEF Rank
<1>5. IsFiniteSet(run) /\ Cardinality(run) \in Nat
  BY <1>1, <1>3, <1>4, TraceTypes
<1>6. ndisp \in Nat
  BY <1>1, <1>4, TraceTypes DEF ScheduleFollowsClock
<1>7. \A j \in Rank : /\ a_us[j] \in Nat /\ s_us[j] \in Nat /\ start[j] \in Int
                      /\ dispatchIndex[j] \in Int /\ Done(j) \in Int
  BY <1>2, <1>3 DEF Done
<1> QED BY <1>1, <1>2, <1>3, <1>4, <1>5, <1>6, <1>7

---------------------------------------------------------------------------
(* No server idle: one lemma for each way the schedule changes.            *)

LEMMA DispatchKeepsBusy ==
  ASSUME StructureInv, ScheduleFollowsClock, NoServerIdle,
         \E j \in Rank : DispatchHead(j) \/ DispatchForced(j) \/ DispatchBase(j)
  PROVE  NoServerIdle'
<1>1. PICK j \in Rank :
           /\ j \in Waiting /\ CanDispatch
           /\ served' = served \cup {j} /\ run' = run \cup {j}
           /\ start' = [start EXCEPT ![j] = t] /\ UNCHANGED <<inputs, t, next>>
  BY DispatchedJob
<1>2. /\ UNCHANGED <<a_us, s_us, t, next>> /\ j \notin served /\ start'[j] = t
      /\ \A o \in served : o # j /\ start'[o] = start[o] /\ Done(o)' = Done(o)
  BY <1>1, RunTypes DEF inputs, Waiting, Done
<1>3. \A o \in served' : start'[o] <= t'
  BY <1>1, <1>2, RunTypes DEF NoServerIdle
<1>4. \A o \in served' \ run' : Done(o)' <= t'
  <2>1. \A o \in served' \ run' : o \in served \ run
    BY <1>1
  <2> QED BY <1>2, <2>1 DEF NoServerIdle
<1>5. Cardinality(run') <= K
  <2>1. Cardinality(run) < K /\ Cardinality(run) \in Nat /\ IsFiniteSet(run)
    BY <1>1, RunTypes DEF CanDispatch
  <2>2. Cardinality(run') = IF j \in run THEN Cardinality(run) ELSE Cardinality(run) + 1
    BY <1>1, <2>1, FS_AddElement
  <2> QED BY <2>1, <2>2, RunTypes
<1>6. ASSUME NEW u \in Nat, u < t' PROVE ExecutingNow(u)' = ExecutingNow(u)
  <2>1. ~(start'[j] <= u)
    BY <1>2, <1>6, RunTypes
  <2> QED BY <1>1, <1>2, <2>1 DEF ExecutingNow
<1>7. \A q \in Rank : (q \in served' => q \in served \/ start'[q] = t)
                     /\ (q \in served => q \in served' /\ start'[q] = start[q])
  BY <1>1, <1>2
<1>8. ASSUME NEW q \in 0 .. next' - 1, NEW u \in Nat, a_us'[q] <= u, u < t',
             q \in served' => u < start'[q]
      PROVE  Cardinality(ExecutingNow(u)') = K
  <2>1. q \in 0 .. next - 1 /\ a_us[q] <= u /\ u < t /\ (q \in served => u < start[q])
    BY <1>2, <1>7, <1>8, RunTypes
  <2> QED BY <1>2, <1>6, <2>1 DEF NoServerIdle
<1>9. \A u \in Nat : u < t' => Cardinality(ExecutingNow(u)') <= K
  BY <1>2, <1>6 DEF NoServerIdle
<1>10. next' < N => t' <= a_us'[next']
  BY <1>2 DEF NoServerIdle
<1> QED BY <1>3, <1>4, <1>5, <1>8, <1>9, <1>10 DEF NoServerIdle

LEMMA ClockKeepsBusy ==
  ASSUME StructureInv, ScheduleFollowsClock, NoServerIdle, AdvanceClock
  PROVE  NoServerIdle'
<1>1. /\ UNCHANGED <<a_us, s_us, next, served, run, start>> /\ ~CompletionDue /\ ~ArrivalDue
      /\ ~CanDispatch /\ t' \in Instants /\ \A u \in Instants : t' <= u
  BY DEF AdvanceClock, inputs, resultVars
<1>2. \A j \in run : t < Done(j) /\ t' <= Done(j)
  BY <1>1, RunTypes DEF CompletionDue, Due, Instants
<1>3. next < N => t < a_us[next] /\ t' <= a_us[next]
  <2> SUFFICES ASSUME next < N PROVE t < a_us[next] /\ t' <= a_us[next]
    OBVIOUS
  <2>1. next \in Rank
    BY RunTypes DEF Rank
  <2> QED BY <1>1, <2>1, RunTypes DEF ArrivalDue, Instants
<1>4. t' \in Int /\ t < t'
  <2>1. CASE \E j \in run : t' = Done(j)
    BY <1>2, <2>1, RunTypes
  <2>2. CASE \E i \in {next} \cap Rank : t' = a_us[i]
    BY <1>3, <2>2, RunTypes DEF Rank
  <2> QED BY <1>1, <2>1, <2>2 DEF Instants
<1>5. \A u : ExecutingNow(u)' = ExecutingNow(u)
  BY <1>1 DEF ExecutingNow, Done
<1>6. ASSUME NEW u \in Nat, u < t', ~(u < t) PROVE ExecutingNow(u) = run
  <2>1. \A j \in run : j \in served /\ start[j] <= u /\ u < Done(j)
    <3> TAKE j \in run
    <3>1. j \in served /\ j \in Rank /\ start[j] <= t /\ t' <= Done(j)
      BY <1>2, RunTypes DEF NoServerIdle
    <3> QED BY <1>4, <1>6, <3>1, RunTypes
  <2>2. \A j \in served \ run : ~(u < Done(j))
    <3> TAKE j \in served \ run
    <3>1. j \in Rank /\ Done(j) <= t
      BY RunTypes DEF NoServerIdle
    <3> QED BY <1>6, <3>1, RunTypes
  <2> QED BY <2>1, <2>2 DEF ExecutingNow
<1>7. ASSUME NEW u \in Nat, u < t' PROVE Cardinality(ExecutingNow(u)) <= K
  BY <1>6, <1>7 DEF NoServerIdle
<1>8. ASSUME NEW q \in 0 .. next - 1, NEW u \in Nat, a_us[q] <= u, u < t',
             q \in served => u < start[q]
      PROVE  Cardinality(ExecutingNow(u)) = K
  <2>1. CASE u < t
    BY <1>8, <2>1 DEF NoServerIdle
  <2>2. CASE ~(u < t)
    <3>1. q \in Rank /\ q < next
      BY RunTypes
    <3>2. q \notin served
      <4> SUFFICES ASSUME q \in served PROVE FALSE
        OBVIOUS
      <4>1. u < start[q] /\ start[q] <= t
        BY <1>8 DEF NoServerIdle
      <4> QED BY <2>2, <3>1, <4>1, RunTypes
    <3>3. Waiting # {} /\ Waiting \in SUBSET Rank
      BY <3>1, <3>2 DEF Waiting
    <3>4. IsFiniteSet(Waiting) /\ nwait = Cardinality(Waiting) /\ nwait \in Nat
      BY <3>3, RunTypes, TraceTypes DEF StructureInv, QueuesHoldWaiting
    <3>5. nwait > 0
      BY <3>3, <3>4, FS_EmptySet
    <3>6. Cardinality(run) = K
      BY <1>1, <3>5, RunTypes, SMTT(30) DEF CanDispatch, NoServerIdle
    <3> QED BY <1>6, <1>8, <2>2, <3>6
  <2> QED BY <2>1, <2>2
<1>9. \A o \in served : start[o] <= t'
  <2> TAKE o \in served
  <2>1. o \in Rank /\ start[o] <= t
    BY RunTypes DEF NoServerIdle
  <2> QED BY <1>4, <2>1, RunTypes
<1>10. \A o \in served \ run : Done(o) <= t'
  <2> TAKE o \in served \ run
  <2>1. o \in Rank /\ Done(o) <= t
    BY RunTypes DEF NoServerIdle
  <2> QED BY <1>4, <2>1, RunTypes
<1>11. \A o : Done(o)' = Done(o)
  BY <1>1 DEF Done
<1>12. Cardinality(run) <= K
  BY DEF NoServerIdle
<1> QED BY <1>1, <1>3, <1>5, <1>7, <1>8, <1>9, <1>10, <1>11, <1>12 DEF NoServerIdle

LEMMA ArrivalKeepsBusy ==
  ASSUME StructureInv, ScheduleFollowsClock, NoServerIdle, AdmitArrival
  PROVE  NoServerIdle' /\ next \in Rank /\ t = a_us[next] /\ next' = next + 1
<1>1. /\ UNCHANGED <<a_us, s_us, t, served, run, start>> /\ next' = next + 1
      /\ next < N /\ a_us[next] <= t
  BY DEF AdmitArrival, ArrivalDue, inputs, resultVars
<1>2. next \in Rank /\ t = a_us[next]
  <2>1. next \in Rank /\ t <= a_us[next]
    BY <1>1, RunTypes DEF NoServerIdle, Rank
  <2> QED BY <1>1, <2>1, RunTypes
<1>3. next' < N => t <= a_us[next']
  <2> SUFFICES ASSUME next + 1 < N PROVE t <= a_us[next + 1]
    BY <1>1
  <2>1. next + 1 \in Rank /\ next <= next + 1
    BY <1>2, RunTypes DEF Rank
  <2> QED BY <1>2, <2>1, RunTypes DEF TraceOK
<1>4. \A u : ExecutingNow(u)' = ExecutingNow(u)
  BY <1>1 DEF ExecutingNow, Done
<1>5. ASSUME NEW q \in 0 .. next' - 1, NEW u \in Nat, a_us[q] <= u, u < t,
             q \in served => u < start[q]
      PROVE  Cardinality(ExecutingNow(u)) = K
  <2>1. q # next
    BY <1>2, <1>5, RunTypes
  <2>2. q \in 0 .. next - 1
    BY <1>1, <2>1, RunTypes
  <2> QED BY <1>5, <2>2 DEF NoServerIdle
<1>6. \A o : Done(o)' = Done(o)
  BY <1>1 DEF Done
<1>7. NoServerIdle'
  BY <1>1, <1>3, <1>4, <1>5, <1>6 DEF NoServerIdle
<1> QED BY <1>1, <1>2, <1>7

LEMMA BusyStep ==
  ASSUME StructureInv, ScheduleFollowsClock, NoServerIdle, [Next]_vars
  PROVE  NoServerIdle'
<1>1. ASSUME NEW j \in Rank, DispatchHead(j) \/ DispatchForced(j) \/ DispatchBase(j)
      PROVE  NoServerIdle'
  BY <1>1, DispatchKeepsBusy
<1>2. ASSUME NEW c \in Rank, ApplyCompletion(c) PROVE NoServerIdle'
  <2>1. /\ UNCHANGED <<a_us, s_us, t, next, served, start>>
        /\ run' = run \ {c} /\ c \in run /\ Done(c) <= t
    BY <1>2 DEF ApplyCompletion, Due, inputs, resultVars
  <2>2. (\A u : ExecutingNow(u)' = ExecutingNow(u)) /\ \A o : Done(o)' = Done(o)
    BY <2>1 DEF ExecutingNow, Done
  <2>3. Cardinality(run') <= K
    <3>1. IsFiniteSet(run) /\ Cardinality(run) \in Nat /\ Cardinality(run) <= K
      BY RunTypes DEF NoServerIdle
    <3>2. Cardinality(run') <= Cardinality(run) /\ Cardinality(run') \in Nat
      BY <2>1, <3>1, FS_Subset, FS_CardinalityType
    <3> QED BY <3>1, <3>2, RunTypes
  <2> QED BY <2>1, <2>2, <2>3 DEF NoServerIdle
<1>3. CASE AdmitArrival
  BY <1>3, ArrivalKeepsBusy
<1>4. CASE AdvanceClock
  BY <1>4, ClockKeepsBusy
<1>5. CASE WindowOverflow \/ Finished \/ UNCHANGED vars
  <2>1. UNCHANGED <<a_us, s_us, t, next, served, run, start>>
    BY <1>5 DEF WindowOverflow, Finished, vars, inputs, resultVars
  <2> QED BY <2>1 DEF NoServerIdle, ExecutingNow, Done
<1> QED BY <1>1, <1>2, <1>3, <1>4, <1>5 DEF Next

\* The order of dispatch is the order of the starting instants.
LEMMA OrderStep ==
  ASSUME StructureInv, ScheduleFollowsClock, NoServerIdle, StartsInOrder, [Next]_vars
  PROVE  StartsInOrder'
<1>1. ASSUME NEW j0 \in Rank, DispatchHead(j0) \/ DispatchForced(j0) \/ DispatchBase(j0)
      PROVE  StartsInOrder'
  <2>1. PICK j \in Rank :
             /\ j \in Waiting /\ served' = served \cup {j} /\ ndisp' = ndisp + 1
             /\ start' = [start EXCEPT ![j] = t]
             /\ dispatchIndex' = [dispatchIndex EXCEPT ![j] = ndisp]
    BY <1>1, DispatchedJob
  <2>2. /\ j \notin served /\ start'[j] = t /\ dispatchIndex'[j] = ndisp
        /\ \A o \in served : start'[o] = start[o] /\ dispatchIndex'[o] = dispatchIndex[o]
    BY <2>1, RunTypes DEF Waiting
  <2>3. \A o \in served : /\ dispatchIndex[o] \in 0 .. ndisp - 1 /\ start[o] <= t
                          /\ dispatchIndex[o] < ndisp
    BY RunTypes DEF StartsInOrder, NoServerIdle
  <2>4. \A o \in served' : dispatchIndex'[o] \in 0 .. ndisp' - 1
    BY <2>1, <2>2, <2>3, RunTypes
  <2>5. ASSUME NEW i \in served', NEW k \in served'
        PROVE  /\ i # k => dispatchIndex'[i] # dispatchIndex'[k]
               /\ dispatchIndex'[i] < dispatchIndex'[k] => start'[i] <= start'[k]
    <3>1. CASE i \in served /\ k \in served
      BY <2>2, <3>1 DEF StartsInOrder
    <3>2. CASE i = j /\ k \in served
      BY <2>2, <2>3, <3>2, RunTypes
    <3>3. CASE i \in served /\ k = j
      BY <2>2, <2>3, <3>3, RunTypes
    <3>4. CASE i = j /\ k = j
      BY <2>2, <3>4, RunTypes
    <3> QED BY <2>1, <3>1, <3>2, <3>3, <3>4
  <2> QED BY <2>4, <2>5 DEF StartsInOrder
<1>2. CASE \/ \E c \in Rank : ApplyCompletion(c)
           \/ AdmitArrival \/ WindowOverflow \/ AdvanceClock \/ Finished \/ UNCHANGED vars
  <2>1. UNCHANGED <<served, start, dispatchIndex, ndisp>>
    BY <1>2
    DEF ApplyCompletion, AdmitArrival, WindowOverflow, AdvanceClock, Finished, vars, resultVars
  <2> QED BY <2>1 DEF StartsInOrder
<1> QED BY <1>1, <1>2 DEF Next

---------------------------------------------------------------------------
(* What passes a job.                                                      *)

LEMMA PassersTypes ==
  ASSUME StructureInv, ScheduleFollowsClock, NEW q \in 0 .. next - 1
  PROVE  /\ q \in Rank /\ q \in Nat /\ Passers(q) \in SUBSET Rank
         /\ IsFiniteSet(Passers(q)) /\ Cardinality(Passers(q)) \in Nat
         /\ WorkOf(Passers(q), s_us) \in Nat
         /\ Age(q) \in Nat
         /\ pol \in PolicyType
         /\ K * L \in Nat
         /\ q \notin served => q \in Waiting /\ Passers(q) = Overtakers(q)
<1>1. q \in Rank /\ q \in Nat /\ q < next
  BY RunTypes
<1>2. Passers(q) \in SUBSET Rank
  BY RunTypes DEF Passers
<1>3. /\ IsFiniteSet(Passers(q)) /\ Cardinality(Passers(q)) \in Nat
      /\ WorkOf(Passers(q), s_us) \in Nat
  BY <1>2, RunTypes, TraceTypes
<1>4. Age(q) \in Nat
  <2>1. a_us[q] <= t /\ (q \in served => a_us[q] <= start[q])
    BY <1>1 DEF ScheduleFollowsClock
  <2> QED BY <1>1, <2>1, RunTypes DEF Age
<1>5. pol \in PolicyType
  BY AccountTypes
<1>6. K * L \in Nat
  BY RunTypes, NaturalProduct
<1>7. q \notin served => q \in Waiting /\ Passers(q) = Overtakers(q)
  BY <1>1 DEF Waiting, Passers, Overtakers
<1> QED BY <1>1, <1>2, <1>3, <1>4, <1>5, <1>6, <1>7

\* What a job that is passed once more by j still allowed.
LEMMA PassIsAllowed ==
  ASSUME KernelInv, NEW j \in Waiting, Rule!Chosen(j), CanDispatch, NEW q \in Waiting, q < j
  PROVE  LET work == WorkOf(Overtakers(q) \cup {j}, s_us)
         IN  /\ guarding /\ pol.bmax > 0 => work < pol.bmax + K * L
             /\ guarding /\ pol.gam = 0 =>
                  pol.ed * work <= pol.ed * (pol.b0 + K * L) + pol.en * (t - a_us[q])
             /\ pol.mode = "skip" => Cardinality(Overtakers(q) \cup {j}) <= pol.ncap
             /\ ~InOrder
<1> DEFINE O       == Overtakers(q) \cup {j}
           work    == WorkOf(O, s_us)
           charged == WorkOf({i \in served \ run : i > q}, s_us)
           flight  == K * L
           over    == completedWork - fenWork[q]
           count   == dispatchedRanks - fenCount[q]
           age     == t - a_us[q]
<1>1. /\ StructureInv /\ ScheduleFollowsClock /\ AccountsAreSums /\ OvertakersLimited
      /\ q \in 0 .. next - 1 /\ q \in Rank /\ q \notin served /\ j \in Rank /\ j \in Nat
  BY RunTypes DEF KernelInv, Waiting
<1>2. /\ pol \in PolicyType /\ q \in Nat /\ age \in Nat /\ flight \in Nat
      /\ Overtakers(q) \in SUBSET Rank /\ IsFiniteSet(Overtakers(q))
      /\ Cardinality(Overtakers(q)) \in Nat
  BY <1>1, PassersTypes DEF Age
<1>3. j > q /\ j \notin Overtakers(q) /\ O \in SUBSET Rank
  BY <1>1, <1>2 DEF Waiting, Overtakers
<1>4. work \in Nat /\ charged \in Nat /\ work <= charged + flight
  <2>1. {i \in served \ run : i > q} \in SUBSET Rank
    BY <1>1, RunTypes
  <2>2. work \in Nat /\ charged \in Nat
    BY <1>1, <1>3, <2>1, RunTypes, TraceTypes
  <2> QED BY <1>1, <1>3, <2>2, InFlightWork
<1>5. /\ guarding => charged = over
      /\ pol.mode = "skip" => Cardinality(Overtakers(q)) = count
  BY <1>1, ChargedAgainst
<1>6. q \notin Rule!Fired /\ Rule!Fired \in SUBSET Waiting
  <2>1. Rule!Fired \in SUBSET Waiting \/ pol.mode \notin Modes
    BY DEF Rule!Fired, Modes
  <2>2. pol.mode \in Modes
    BY <1>2 DEF PolicyType
  <2> QED BY <1>1, <1>2, <2>1, <2>2 DEF Rule!Chosen
<1>7. guarding /\ pol.bmax > 0 => work < pol.bmax + flight
  <2>1. guarding /\ pol.bmax > 0 => charged < pol.bmax
    BY <1>1, PassedJobAllows
  <2>2. pol.bmax \in Nat
    BY <1>2 DEF PolicyType
  <2> HIDE DEF work, charged, flight
  <2> QED BY <1>2, <1>4, <2>1, <2>2
<1>8. pol.mode = "skip" => Cardinality(O) <= pol.ncap
  <2>1. pol.mode = "skip" => Cardinality(Overtakers(q)) < pol.ncap
    BY <1>1, PassedJobAllows
  <2>2. Cardinality(O) = Cardinality(Overtakers(q)) + 1
    BY <1>2, <1>3, FS_AddElement
  <2>3. pol.ncap \in Nat
    BY <1>2 DEF PolicyType
  <2> HIDE DEF O
  <2> QED BY <1>2, <2>1, <2>2, <2>3
<1>9. guarding => ~Rule!Spent(q)
  BY <1>6 DEF Rule!Fired, guarding
<1>10. guarding /\ pol.gam = 0 =>
         pol.ed * charged < pol.ed * pol.b0 + pol.en * age
  <2> SUFFICES ASSUME guarding, pol.gam = 0
               PROVE  pol.ed * charged < pol.ed * pol.b0 + pol.en * age
    OBVIOUS
  <2>1. ~(pol.ed * over >= pol.ed * (pol.b0 + pol.gam * ahead[q]) + pol.en * age)
    BY <1>9 DEF Rule!Spent
  <2>2. pol.b0 + pol.gam * ahead[q] = pol.b0
    <3>1. ahead[q] \in Int /\ pol.b0 \in Nat
      BY <1>1, <1>2 DEF StructureInv, TypeOK, PolicyType
    <3> QED BY <3>1
  <2>3. pol.ed * charged \in Int /\ pol.ed * pol.b0 \in Int /\ pol.en * age \in Int
    <3>1. pol.ed \in Nat /\ pol.b0 \in Nat /\ pol.en \in Nat
      BY <1>2 DEF PolicyType
    <3> HIDE DEF charged, age
    <3> QED BY <1>2, <1>4, <3>1
  <2>4. ~(pol.ed * charged >= pol.ed * pol.b0 + pol.en * age)
    BY <1>5, <2>1, <2>2
  <2> HIDE DEF charged, age
  <2> QED BY <2>3, <2>4
<1>11. guarding /\ pol.gam = 0 =>
         pol.ed * work <= pol.ed * (pol.b0 + flight) + pol.en * age
  <2> SUFFICES ASSUME guarding, pol.gam = 0
               PROVE  pol.ed * work <= pol.ed * (pol.b0 + flight) + pol.en * age
    OBVIOUS
  <2>1. pol.ed \in Nat /\ pol.b0 \in Nat /\ pol.en \in Nat
    BY <1>2 DEF PolicyType
  <2> HIDE DEF work, charged, flight, age
  <2>2. pol.ed * work <= pol.ed * (charged + flight)
    BY <1>2, <1>4, <2>1, ScaleFactor
  <2>3. /\ pol.ed * (charged + flight) = pol.ed * charged + pol.ed * flight
        /\ pol.ed * (pol.b0 + flight) = pol.ed * pol.b0 + pol.ed * flight
    BY <1>2, <1>4, <2>1, DistributeSum
  <2>4. /\ pol.ed * charged \in Int /\ pol.ed * flight \in Int /\ pol.ed * pol.b0 \in Int
        /\ pol.en * age \in Int /\ pol.ed * work \in Int
    BY <1>2, <1>4, <2>1
  <2> QED BY <1>10, <2>2, <2>3, <2>4
<1>12. ~InOrder
  <2>1. pol.mode # "fcfs"
    BY <1>6 DEF Rule!Fired
  <2>2. ~(pol.mode = "skip" /\ pol.ncap = 0)
    <3> SUFFICES ASSUME pol.mode = "skip", pol.ncap = 0 PROVE FALSE
      OBVIOUS
    <3>1. Cardinality(Overtakers(q)) < 0
      BY <1>1, PassedJobAllows
    <3> QED BY <1>2, <3>1
  <2>3. ~(guarding /\ pol.b0 = 0 /\ pol.en = 0 /\ pol.gam = 0)
    <3> SUFFICES ASSUME guarding, pol.b0 = 0, pol.en = 0, pol.gam = 0 PROVE FALSE
      OBVIOUS
    <3>1. pol.ed \in Nat
      BY <1>2 DEF PolicyType
    <3> HIDE DEF charged, age
    <3>2. pol.ed * charged < pol.ed * 0 + 0 * age
      BY <1>10
    <3>3. pol.ed * charged \in Nat /\ pol.ed * 0 = 0 /\ 0 * age = 0
      BY <1>2, <1>4, <3>1, NaturalProduct
    <3> QED BY <3>2, <3>3
  <2> QED BY <2>1, <2>2, <2>3 DEF InOrder
<1> QED BY <1>7, <1>8, <1>11, <1>12

\* A dispatch lets one more job pass those that still allow it.
LEMMA DispatchKeepsPasses ==
  ASSUME KernelInv, NoServerIdle, StartsInOrder, PassesAllowed,
         \E j \in Rank : DispatchHead(j) \/ DispatchForced(j) \/ DispatchBase(j)
  PROVE  PassesAllowed'
<1>1. PICK j \in Rank :
           /\ Rule!Chosen(j) /\ j \in Waiting /\ CanDispatch
           /\ served' = served \cup {j} /\ start' = [start EXCEPT ![j] = t]
           /\ dispatchIndex' = [dispatchIndex EXCEPT ![j] = ndisp]
           /\ UNCHANGED <<inputs, t, next>>
  BY DispatchedJob DEF KernelInv
<1>2. StructureInv /\ ScheduleFollowsClock
  BY DEF KernelInv
<1>3. /\ UNCHANGED <<a_us, s_us, pol, t, next, guarding, InOrder>> /\ j \notin served
      /\ start'[j] = t /\ dispatchIndex'[j] = ndisp
      /\ \A o \in served : o # j /\ start'[o] = start[o] /\ dispatchIndex'[o] = dispatchIndex[o]
  BY <1>1, <1>2, RunTypes DEF inputs, Waiting, guarding, InOrder
<1>4. \A o \in served : o \in Rank /\ dispatchIndex[o] < ndisp
  BY <1>2, RunTypes DEF StartsInOrder
<1> DEFINE Allowed(q, P, age) ==
             /\ guarding /\ pol.bmax > 0 => WorkOf(P, s_us) < pol.bmax + K * L
             /\ guarding /\ pol.gam = 0 =>
                  pol.ed * WorkOf(P, s_us) <= pol.ed * (pol.b0 + K * L) + pol.en * age
             /\ pol.mode = "skip" => Cardinality(P) <= pol.ncap
             /\ InOrder => P = {}
<1>5. ASSUME NEW q \in 0 .. next - 1 PROVE Allowed(q, Passers(q)', Age(q)')
  <2>1. q \in Rank /\ q \in Nat /\ Allowed(q, Passers(q), Age(q))
    BY <1>2, PassersTypes DEF PassesAllowed
  <2>2. Age(q)' = Age(q)
    BY <1>1, <1>3 DEF Age
  <2>3. CASE q \in served
    <3>1. Passers(q)' = Passers(q)
      <4>1. q \in served' /\ dispatchIndex'[q] = dispatchIndex[q] /\ ~(ndisp < dispatchIndex[q])
        BY <1>1, <1>2, <1>3, <1>4, <2>3, RunTypes
      <4> QED BY <1>1, <1>3, <2>3, <4>1 DEF Passers
    <3> HIDE DEF Allowed
    <3> QED BY <2>1, <2>2, <3>1
  <2>4. CASE q = j
    <3>1. Passers(q)' = Passers(q)
      <4>1. q \in served' /\ dispatchIndex'[q] = ndisp /\ ~(ndisp < ndisp) /\ q \notin served
        BY <1>1, <1>2, <1>3, <2>4, RunTypes
      <4>2. \A o \in served' : (o \in served /\ dispatchIndex'[o] < ndisp) \/ o = j
        BY <1>1, <1>3, <1>4
      <4> QED BY <1>1, <4>1, <4>2 DEF Passers
    <3> HIDE DEF Allowed
    <3> QED BY <2>1, <2>2, <3>1
  <2>5. CASE q \notin served /\ q # j
    <3>1. q \in Waiting /\ q \notin served' /\ Passers(q) = Overtakers(q) /\ Age(q) = t - a_us[q]
      BY <1>1, <1>2, <2>5, PassersTypes DEF Age
    <3>2. CASE q < j
      <4>1. Passers(q)' = Overtakers(q) \cup {j}
        <5>1. j > q
          BY <1>2, <2>1, <3>2, RunTypes
        <5> QED BY <1>1, <3>1, <5>1 DEF Passers, Overtakers
      <4>2. Allowed(q, Overtakers(q) \cup {j}, t - a_us[q])
        BY <1>1, <3>1, <3>2, PassIsAllowed
      <4> HIDE DEF Allowed
      <4> QED BY <2>2, <3>1, <4>1, <4>2
    <3>3. CASE ~(q < j)
      <4>1. ~(j > q)
        BY <1>2, <2>1, <2>5, <3>3, RunTypes
      <4>2. Passers(q)' = Passers(q)
        BY <1>1, <3>1, <4>1 DEF Passers
      <4> HIDE DEF Allowed
      <4> QED BY <2>1, <2>2, <4>2
    <3> QED BY <3>2, <3>3
  <2> QED BY <2>3, <2>4, <2>5
<1> QED BY <1>3, <1>5 DEF PassesAllowed

\* Nobody has passed a job that arrives.
LEMMA ArrivalKeepsPasses ==
  ASSUME KernelInv, NoServerIdle, PassesAllowed, AdmitArrival
  PROVE  PassesAllowed'
<1>1. StructureInv /\ ScheduleFollowsClock
  BY DEF KernelInv
<1>2. next \in Rank /\ t = a_us[next] /\ next' = next + 1
  BY <1>1, ArrivalKeepsBusy
<1>3. UNCHANGED <<a_us, s_us, pol, t, served, start, dispatchIndex, guarding, InOrder>>
  BY DEF AdmitArrival, inputs, resultVars, guarding, InOrder
<1>4. \A q : Passers(q)' = Passers(q) /\ Age(q)' = Age(q)
  BY <1>3 DEF Passers, Age
<1>5. /\ Passers(next) = {} /\ next \notin served /\ Age(next) = 0
  <2>1. next \notin served /\ \A j \in served : ~(j > next)
    BY <1>1, <1>2, RunTypes
  <2>2. Age(next) = a_us[next] - a_us[next] /\ a_us[next] \in Nat
    BY <1>1, <1>2, <2>1, RunTypes DEF Age
  <2> QED BY <2>1, <2>2 DEF Passers
<1>6. /\ pol.ncap \in Nat /\ pol.bmax \in Nat /\ pol.ed \in Nat /\ pol.b0 \in Nat
      /\ pol.en \in Nat /\ K * L \in Nat
  BY <1>1, RunTypes, AccountTypes, NaturalProduct DEF PolicyType
<1>7. pol.ed * 0 <= pol.ed * (pol.b0 + K * L) + pol.en * 0
  <2> DEFINE flight == K * L
  <2>1. flight \in Nat
    BY <1>6
  <2> HIDE DEF flight
  <2>2. pol.ed * (pol.b0 + flight) \in Nat /\ pol.ed * 0 = 0 /\ pol.en * 0 = 0
    BY <1>6, <2>1, NaturalProduct
  <2> QED BY <2>2 DEF flight
<1>8. WorkOf({}, s_us) = 0 /\ Cardinality({}) = 0 /\ 0 <= pol.ncap
  BY <1>6, WorkEmpty, FS_EmptySet
<1>9. pol.bmax > 0 => 0 < pol.bmax + K * L
  BY <1>6
<1>10. \A q \in 0 .. next' - 1 : q \in 0 .. next - 1 \/ q = next
  BY <1>1, <1>2, RunTypes
<1> QED BY <1>3, <1>4, <1>5, <1>7, <1>8, <1>9, <1>10 DEF PassesAllowed

\* A waiting job only grows older.
LEMMA ClockKeepsPasses ==
  ASSUME KernelInv, PassesAllowed, AdvanceClock
  PROVE  PassesAllowed'
<1>1. StructureInv /\ ScheduleFollowsClock
  BY DEF KernelInv
<1>2. UNCHANGED <<a_us, s_us, pol, next, served, start, dispatchIndex, guarding, InOrder>>
  BY DEF AdvanceClock, inputs, resultVars, guarding, InOrder
<1>3. t' \in Int /\ t <= t'
  <2>1. \A u \in Instants : u \in Int /\ t <= u
    <3>1. \A j \in run : Done(j) \in Int /\ t <= Done(j)
      <4> TAKE j \in run
      <4>1. j \in Rank
        BY <1>1, RunTypes
      <4> QED BY <1>1, <4>1, RunTypes DEF AdvanceClock, CompletionDue, Due
    <3>2. \A i \in {next} \cap Rank : a_us[i] \in Int /\ t <= a_us[i]
      BY <1>1, RunTypes DEF AdvanceClock, ArrivalDue, Rank
    <3> QED BY <3>1, <3>2 DEF Instants
  <2> QED BY <2>1 DEF AdvanceClock
<1>4. \A q : Passers(q)' = Passers(q)
  BY <1>2 DEF Passers
<1>5. ASSUME NEW q \in 0 .. next - 1, guarding, pol.gam = 0
      PROVE  pol.ed * WorkOf(Passers(q), s_us) <= pol.ed * (pol.b0 + K * L) + pol.en * Age(q)'
  <2> DEFINE work == WorkOf(Passers(q), s_us)
             allowed == pol.ed * (pol.b0 + K * L)
             before == Age(q)
             after == Age(q)'
  <2>1. pol.ed * work <= allowed + pol.en * before
    BY <1>5 DEF PassesAllowed
  <2>2. before \in Nat /\ after \in Nat /\ before <= after
    <3>1. q \in Rank /\ Age(q) \in Nat /\ a_us[q] \in Nat
      BY <1>1, PassersTypes, RunTypes
    <3>2. CASE q \in served
      BY <1>2, <3>1, <3>2 DEF Age
    <3>3. CASE q \notin served
      <4>1. Age(q) = t - a_us[q] /\ Age(q)' = t' - a_us[q]
        BY <1>2, <3>3 DEF Age
      <4> QED BY <1>1, <1>3, <3>1, <4>1, RunTypes
    <3> QED BY <3>2, <3>3
  <2>3. /\ pol.ed \in Nat /\ pol.en \in Nat /\ pol.b0 \in Nat /\ K * L \in Nat /\ work \in Nat
    BY <1>1, PassersTypes DEF PolicyType
  <2>4. allowed \in Nat
    <3>1. pol.b0 + K * L \in Nat
      BY <2>3
    <3> QED BY <2>3, <3>1, NaturalProduct
  <2> HIDE DEF work, allowed, before, after
  <2>5. pol.en * before <= pol.en * after
    BY <2>2, <2>3, ScaleFactor
  <2>6. pol.ed * work \in Nat /\ pol.en * before \in Nat /\ pol.en * after \in Nat
    BY <2>2, <2>3, NaturalProduct
  <2>7. pol.ed * work <= allowed + pol.en * after
    BY <2>1, <2>4, <2>5, <2>6
  <2> QED BY <2>7 DEF work, allowed, after
<1> QED BY <1>2, <1>4, <1>5 DEF PassesAllowed

LEMMA PassesStep ==
  ASSUME KernelInv, NoServerIdle, StartsInOrder, PassesAllowed, [Next]_vars
  PROVE  PassesAllowed'
<1>1. ASSUME NEW j \in Rank, DispatchHead(j) \/ DispatchForced(j) \/ DispatchBase(j)
      PROVE  PassesAllowed'
  BY <1>1, DispatchKeepsPasses
<1>2. CASE AdmitArrival
  BY <1>2, ArrivalKeepsPasses
<1>3. CASE AdvanceClock
  BY <1>3, ClockKeepsPasses
<1>4. CASE (\E c \in Rank : ApplyCompletion(c)) \/ WindowOverflow \/ Finished \/ UNCHANGED vars
  <2>1. UNCHANGED <<a_us, s_us, pol, t, next, served, start, dispatchIndex, guarding, InOrder>>
    BY <1>4
    DEF ApplyCompletion, WindowOverflow, Finished, vars, inputs, resultVars, guarding, InOrder
  <2>2. \A q : Passers(q)' = Passers(q) /\ Age(q)' = Age(q)
    BY <2>1 DEF Passers, Age
  <2> QED BY <2>1, <2>2 DEF PassesAllowed
<1> QED BY <1>1, <1>2, <1>3, <1>4 DEF Next

\* The inductive invariant: the kernel's, and what its schedule is at any moment.
ScheduleInv ==
  /\ KernelInv
  /\ NoServerIdle
  /\ StartsInOrder
  /\ PassesAllowed

LEMMA InitSchedule == Init => ScheduleInv
<1> SUFFICES ASSUME Init PROVE ScheduleInv
  OBVIOUS
<1>1. KernelInv /\ StructureInv /\ ScheduleFollowsClock
  BY InitKernel DEF KernelInv
<1>2. served = {} /\ run = {} /\ next = 0 /\ t = -1
  BY DEF Init, Idle, BeforeTime
<1>3. NoServerIdle
  <2>1. 0 < N => t <= a_us[0]
    BY <1>1, <1>2, RunTypes DEF Rank
  <2>2. Cardinality(run) <= K
    BY <1>1, <1>2, RunTypes, FS_EmptySet
  <2>3. \A u \in Nat : ~(u < t)
    BY <1>2
  <2> QED BY <1>2, <2>1, <2>2, <2>3 DEF NoServerIdle
<1>4. StartsInOrder /\ PassesAllowed
  BY <1>2 DEF StartsInOrder, PassesAllowed
<1> QED BY <1>1, <1>3, <1>4 DEF ScheduleInv

LEMMA ScheduleInvStep ==
  ASSUME ScheduleInv, [Next]_vars
  PROVE  ScheduleInv'
<1>1. KernelInv /\ StructureInv /\ ScheduleFollowsClock
  BY DEF ScheduleInv, KernelInv
<1> QED BY <1>1, KernelStep, BusyStep, OrderStep, PassesStep DEF ScheduleInv

\* At every moment of a run no server has been idle while a job waited, jobs have started
\* in the order of their dispatch, and what has passed a job, served or not, is what its
\* budget allowed (ScheduleInv).
THEOREM ScheduleInvariant == Spec => []ScheduleInv
<1>1. ScheduleInv /\ [Next]_vars => ScheduleInv'
  BY ScheduleInvStep
<1> QED BY <1>1, InitSchedule, PTL DEF Spec

---------------------------------------------------------------------------
(* Finished runs.                                                          *)

\* The kernel's trace is one the facts about schedules hold for.
Schedules == INSTANCE ScheduleTheorems

LEMMA TraceSchedules ==
  /\ TraceOK => Schedules!InputOK
  /\ Schedules!Rank = Rank
  /\ \A S : Schedules!Cardinality(S) = Cardinality(S)
  /\ \A S, cost : Schedules!WorkOf(S, cost) = WorkOf(S, cost)
  /\ \A i : Schedules!Wait(i) = Fcfs!Wait(i)
  /\ Schedules!Lindley = Fcfs!Lindley
<1>1. Schedules!Rank = Rank
  BY DEF Schedules!Rank, Rank
<1>2. TraceOK => Schedules!InputOK
  <2> SUFFICES ASSUME TraceOK PROVE Schedules!InputOK
    OBVIOUS
  <2>1. {N, K, L} \subseteq Nat \ {0}
    BY SizeAssumption DEF SizeAssumption
  <2>2. a_us \in [Rank -> Nat] /\ s_us \in [Rank -> 1 .. L]
    BY TraceTypes
  <2>3. \A p, q \in Rank : p <= q => a_us[p] <= a_us[q]
    BY DEF TraceOK
  <2> QED BY <2>1, <2>2, <2>3 DEF Schedules!InputOK, Schedules!Rank, Rank
<1>3. /\ \A S : Schedules!Cardinality(S) = Cardinality(S)
      /\ \A S, cost : Schedules!WorkOf(S, cost) = WorkOf(S, cost)
  <2>1. ASSUME NEW S PROVE Schedules!Cardinality(S) = Cardinality(S)
    BY DEF Schedules!Cardinality, Cardinality
  <2> QED BY <2>1 DEF Schedules!WorkOf, WorkOf, Schedules!Units, Units
<1>4. Schedules!FreeAt = Fcfs!FreeAt
  BY DEF Schedules!FreeAt, Fcfs!FreeAt, Schedules!Servers, Fcfs!Servers,
         Schedules!FirstFree, Fcfs!FirstFree, Schedules!Larger, Fcfs!Larger
<1>5. ASSUME NEW i PROVE Schedules!Wait(i) = Fcfs!Wait(i)
  BY <1>4 DEF Schedules!Wait, Fcfs!Wait, Schedules!Start, Fcfs!Start, Schedules!FirstFree,
              Fcfs!FirstFree, Schedules!Servers, Fcfs!Servers, Schedules!Larger, Fcfs!Larger
<1>6. Schedules!Lindley = Fcfs!Lindley
  BY DEF Schedules!Lindley, Fcfs!Lindley, Schedules!Rank, Fcfs!Rank,
         Schedules!Larger, Fcfs!Larger
<1> QED BY <1>1, <1>2, <1>3, <1>5, <1>6

LEMMA FinishedSchedule ==
  ASSUME ScheduleInv, RunComplete
  PROVE  /\ TraceOK /\ Schedules!NeverIdle(start) /\ served = Rank /\ 0 .. next - 1 = Rank
         /\ start \in [Rank -> Int]
         /\ \A i, j \in Rank :
              /\ dispatchIndex[i] \in Int /\ (i # j => dispatchIndex[i] # dispatchIndex[j])
              /\ dispatchIndex[i] < dispatchIndex[j] => start[i] <= start[j]
         /\ \A i \in Rank : /\ Passers(i) = {j \in Rank : j > i /\ dispatchIndex[j] < dispatchIndex[i]}
                            /\ Age(i) = Wait(i)
<1>1. StructureInv /\ ScheduleFollowsClock /\ NoServerIdle /\ StartsInOrder /\ TraceOK
  BY DEF ScheduleInv, KernelInv, StructureInv, TypeOK, InputsOK
<1>2. served = Rank
  <2>1. Cardinality(served) = Cardinality(Rank) /\ served \in SUBSET Rank /\ IsFiniteSet(Rank)
    BY <1>1, RunTypes, TraceTypes DEF ScheduleFollowsClock, RunComplete
  <2> QED BY <2>1, FS_Subset
<1>3. 0 .. next - 1 = Rank
  BY <1>1, <1>2, RunTypes
<1>4. ASSUME NEW u \in Nat PROVE Cardinality(Schedules!Executing(start, Rank, u)) <= K
  <2>1. CASE u < t
    <3>1. Schedules!Executing(start, Rank, u) = ExecutingNow(u)
      BY <1>2 DEF Schedules!Executing, ExecutingNow, Done
    <3> QED BY <1>1, <2>1, <3>1 DEF NoServerIdle
  <2>2. CASE ~(u < t)
    <3>1. Schedules!Executing(start, Rank, u) \in SUBSET run
      <4> SUFFICES ASSUME NEW j \in Rank, u < Done(j) PROVE j \in run
        BY DEF Schedules!Executing, Done
      <4>1. j \notin run => Done(j) <= t
        BY <1>1, <1>2 DEF NoServerIdle
      <4> QED BY <1>1, <2>2, <4>1, RunTypes
    <3> DEFINE E == Schedules!Executing(start, Rank, u)
    <3>2. Cardinality(E) <= Cardinality(run) /\ Cardinality(E) \in Nat /\ Cardinality(run) \in Nat
      BY <1>1, <3>1, RunTypes, FS_Subset, FS_CardinalityType
    <3>3. Cardinality(run) <= K
      BY <1>1 DEF NoServerIdle
    <3> HIDE DEF E
    <3>4. Cardinality(E) <= K
      BY <1>1, <3>2, <3>3, RunTypes
    <3> QED BY <3>4 DEF E
  <2> QED BY <2>1, <2>2
<1>5. ASSUME NEW j \in Rank, NEW u \in Nat, a_us[j] <= u, u < start[j]
      PROVE  Cardinality(Schedules!Executing(start, Rank, u)) = K
  <2>1. start[j] <= t
    BY <1>1, <1>2 DEF NoServerIdle
  <2>2. u < t
    BY <1>1, <1>5, <2>1, RunTypes
  <2>3. Schedules!Executing(start, Rank, u) = ExecutingNow(u)
    BY <1>2 DEF Schedules!Executing, ExecutingNow, Done
  <2>4. j \in 0 .. next - 1
    BY <1>3
  <2> QED BY <1>1, <1>5, <2>2, <2>3, <2>4 DEF NoServerIdle
<1>6. start \in [Rank -> Int] /\ \A j \in Rank : a_us[j] <= start[j]
  BY <1>1, <1>2, RunTypes DEF ScheduleFollowsClock
<1>7. Schedules!NeverIdle(start)
  <2>1. Schedules!Rank = Rank
    BY TraceSchedules
  <2>2. Schedules!OnServers(start)
    BY <1>4, <1>6, TraceSchedules DEF Schedules!OnServers, Schedules!Rank, Rank
  <2>3. \A u \in Nat : Schedules!SomeWait(start, u) =>
          Cardinality(Schedules!Executing(start, Schedules!Rank, u)) = K
    BY <1>5 DEF Schedules!SomeWait, Schedules!Rank, Rank
  <2> QED BY <2>2, <2>3, TraceSchedules DEF Schedules!NeverIdle
<1>8. \A i \in Rank : /\ Passers(i) = {j \in Rank : j > i /\ dispatchIndex[j] < dispatchIndex[i]}
                      /\ Age(i) = Wait(i)
  BY <1>2 DEF Passers, Age, Wait
<1>9. \A i, j \in Rank :
        /\ dispatchIndex[i] \in Int /\ (i # j => dispatchIndex[i] # dispatchIndex[j])
        /\ dispatchIndex[i] < dispatchIndex[j] => start[i] <= start[j]
  BY <1>1, <1>2, RunTypes DEF StartsInOrder
<1> QED BY <1>1, <1>2, <1>3, <1>6, <1>7, <1>8, <1>9

\* The wait of every job of a finished run against first come first served: the work
\* that passed it, without the work it passed, but for at most 2 (K - 1) L.
LEMMA WaitAgainstFcfs ==
  ASSUME ScheduleInv, RunComplete, NEW i \in Rank
  PROVE  /\ WorkIn(i) \in Nat /\ WorkOut(i) \in Nat /\ (K - 1) * L \in Nat
         /\ Wait(i) \in Nat /\ Fcfs!Wait(i) \in Nat
         /\ \E d \in Int : /\ - (2 * ((K - 1) * L)) <= d /\ d <= 2 * ((K - 1) * L)
                           /\ K * Wait(i) - K * Fcfs!Wait(i) = WorkIn(i) - WorkOut(i) + d
<1> DEFINE B == {j \in Rank : dispatchIndex[j] < dispatchIndex[i]}
<1>1. /\ Schedules!InputOK /\ Schedules!NeverIdle(start) /\ Schedules!Rank = Rank
      /\ Rank \subseteq Nat /\ start[i] \in Int
      /\ \A S, cost : Schedules!WorkOf(S, cost) = WorkOf(S, cost)
      /\ Schedules!Wait(i) = Fcfs!Wait(i)
  <2>1. TraceOK /\ Schedules!NeverIdle(start)
    BY FinishedSchedule
  <2>2. start[i] \in Int
    BY <2>1 DEF Schedules!NeverIdle, Schedules!OnServers, Schedules!Rank, Rank
  <2> QED BY <2>1, <2>2, TraceTypes, TraceSchedules
<1>2. WorkIn(i) \in Nat /\ WorkOut(i) \in Nat
  <2>1. {j \in Rank : j > i /\ dispatchIndex[j] < dispatchIndex[i]} \in SUBSET Rank
        /\ {j \in Rank : j < i /\ dispatchIndex[i] < dispatchIndex[j]} \in SUBSET Rank
    OBVIOUS
  <2> QED BY <2>1, FinishedSchedule, TraceTypes DEF WorkIn, WorkOut
<1>3. /\ Wait(i) \in Nat /\ Schedules!Wait(i) \in Nat /\ (K - 1) * L \in Nat
      /\ \E d \in Int : /\ - (2 * ((K - 1) * L)) <= d /\ d <= 2 * ((K - 1) * L)
                        /\ K * Wait(i) - K * Schedules!Wait(i) = WorkIn(i) - WorkOut(i) + d
  <2>1. \A j \in Rank : /\ dispatchIndex[j] \in Int
                        /\ j # i => dispatchIndex[j] # dispatchIndex[i]
                        /\ dispatchIndex[i] < dispatchIndex[j] => start[i] <= start[j]
                        /\ dispatchIndex[j] < dispatchIndex[i] => start[j] <= start[i]
                        /\ start[j] \in Int
    BY <1>1, FinishedSchedule
  <2>6. /\ \A j \in Rank : j # i => (j \notin B <=> dispatchIndex[i] < dispatchIndex[j])
        /\ i \notin B /\ i \in Rank
    <3>1. ASSUME NEW j \in Rank, j # i PROVE j \notin B <=> dispatchIndex[i] < dispatchIndex[j]
      <4>1. dispatchIndex[j] \in Int /\ dispatchIndex[i] \in Int /\ dispatchIndex[j] # dispatchIndex[i]
        BY <2>1, <3>1
      <4> QED BY <4>1
    <3>2. dispatchIndex[i] \in Int
      BY <2>1
    <3>3. i \notin B
      BY <3>2
    <3> QED BY <3>1, <3>3
  <2>2. /\ i \notin B /\ B \in SUBSET Rank /\ \A j \in B : start[j] <= start[i]
        /\ \A j \in Rank \ B : start[i] <= start[j]
    <3>1. \A j \in B : start[j] <= start[i]
      BY <2>1
    <3>2. B \in SUBSET Rank
      OBVIOUS
    <3> HIDE DEF B
    <3>3. ASSUME NEW j \in Rank \ B PROVE start[i] <= start[j]
      <4>1. CASE j = i
        BY <1>1, <4>1
      <4>2. CASE j # i
        BY <2>1, <2>6, <4>2
      <4> QED BY <4>1, <4>2
    <3> QED BY <2>6, <3>1, <3>2, <3>3
  <2>3. {j \in Rank \ B : j < i} = {j \in Rank : j < i /\ dispatchIndex[i] < dispatchIndex[j]}
    <3>1. i \in Nat /\ \A j \in Rank : j \in Nat
      BY <1>1
    <3>2. \A j \in Rank : j < i => j # i
      BY <3>1
    <3> HIDE DEF B
    <3> QED BY <2>6, <3>2
  <2>4. {j \in B : j > i} = {j \in Rank : j > i /\ dispatchIndex[j] < dispatchIndex[i]}
    OBVIOUS
  <2> HIDE DEF B
  <2>5. /\ start[i] - a_us[i] \in Nat /\ Schedules!Wait(i) \in Nat /\ (K - 1) * L \in Nat
        /\ \E d \in Int : /\ - (2 * ((K - 1) * L)) <= d /\ d <= 2 * ((K - 1) * L)
                          /\ K * (start[i] - a_us[i]) - K * Schedules!Wait(i)
                               = Schedules!WorkOf({j \in B : j > i}, s_us)
                                   - Schedules!WorkOf({j \in Schedules!Rank \ B : j < i}, s_us) + d
    BY <1>1, <2>2, Schedules!WaitAgainstFcfs, SMTT(30)
  <2> QED BY <1>1, <2>3, <2>4, <2>5 DEF Wait, WorkIn, WorkOut
<1> QED BY <1>1, <1>2, <1>3

\* The bounds of a job's wait are bounds of the work that passed it.
LEMMA WaitIsBounded ==
  ASSUME ScheduleInv, RunComplete, NEW i \in Rank
  PROVE  K * Wait(i) <= K * Fcfs!Wait(i) + WorkIn(i) + 2 * ((K - 1) * L)
         /\ WorkIn(i) = WorkOf(Passers(i), s_us) /\ i \in 0 .. next - 1
<1> DEFINE lag == (K - 1) * L
           w == K * Wait(i)
           f == K * Fcfs!Wait(i)
<1>1. WorkIn(i) = WorkOf(Passers(i), s_us) /\ i \in 0 .. next - 1
  BY FinishedSchedule DEF WorkIn
<1>2. /\ WorkIn(i) \in Nat /\ WorkOut(i) \in Nat /\ lag \in Nat
      /\ Wait(i) \in Nat /\ Fcfs!Wait(i) \in Nat /\ K \in Nat
  BY WaitAgainstFcfs, FinishedSchedule, TraceTypes
<1>3. PICK d \in Int : /\ - (2 * lag) <= d /\ d <= 2 * lag
                       /\ w - f = WorkIn(i) - WorkOut(i) + d
  BY WaitAgainstFcfs
<1>4. w \in Nat /\ f \in Nat
  BY <1>2, NaturalProduct
<1> HIDE DEF lag, w, f
<1>5. w <= f + WorkIn(i) + 2 * lag
  BY <1>2, <1>3, <1>4
<1> QED BY <1>1, <1>5 DEF w, f, lag

\* The identity (bounds.py:3): in every mode, on every trace, K times what a job waits
\* more than under first come first served is the work that passed it without the work
\* it passed, to within 2 (K - 1) L (IdentityBound).
THEOREM IdentityHolds == Spec => []IdentityBound
<1>1. ScheduleInv => IdentityBound
  <2> SUFFICES ASSUME ScheduleInv, RunComplete, NEW i \in Rank
               PROVE  AbsDiff(K * (Wait(i) - Fcfs!Wait(i)), WorkIn(i) - WorkOut(i))
                        <= 2 * (K - 1) * L
    BY DEF IdentityBound
  <2> DEFINE lag == (K - 1) * L
             w == K * Wait(i)
             f == K * Fcfs!Wait(i)
  <2>1. /\ WorkIn(i) \in Nat /\ WorkOut(i) \in Nat /\ lag \in Nat
        /\ Wait(i) \in Nat /\ Fcfs!Wait(i) \in Nat /\ K \in Nat /\ L \in Nat
    BY WaitAgainstFcfs, FinishedSchedule, TraceTypes
  <2>2. PICK d \in Int : /\ - (2 * lag) <= d /\ d <= 2 * lag
                         /\ w - f = WorkIn(i) - WorkOut(i) + d
    BY WaitAgainstFcfs
  <2>3. w \in Nat /\ f \in Nat
    BY <2>1, NaturalProduct
  <2>4. K * (Wait(i) - Fcfs!Wait(i)) = w - f
    BY <2>1, Distribute
  <2>5. 2 * (K - 1) * L = 2 * lag
    BY <2>1
  <2>6. AbsDiff(w - f, WorkIn(i) - WorkOut(i)) <= 2 * lag
    <3> HIDE DEF w, f, lag
    <3> QED BY <2>1, <2>2, <2>3 DEF AbsDiff
  <2> QED BY <2>4, <2>5, <2>6
<1> QED BY <1>1, ScheduleInvariant, PTL

\* The additive promise (bounds.py:4): a cap on the budget is a cap on what a job can
\* lose against first come first served (GuardAdditiveBound).
THEOREM AdditiveBoundHolds == Spec => []GuardAdditiveBound
<1>1. ScheduleInv => GuardAdditiveBound
  <2> SUFFICES ASSUME ScheduleInv, RunComplete, guarding, pol.bmax > 0, NEW i \in Rank
               PROVE  K * (Wait(i) - Fcfs!Wait(i)) < pol.bmax + (3 * K - 2) * L
    BY DEF GuardAdditiveBound
  <2> DEFINE lag    == (K - 1) * L
             flight == K * L
             w      == K * Wait(i)
             f      == K * Fcfs!Wait(i)
  <2>1. /\ WorkIn(i) \in Nat /\ lag \in Nat /\ Wait(i) \in Nat /\ Fcfs!Wait(i) \in Nat
        /\ K \in Nat /\ L \in Nat /\ pol.bmax \in Nat /\ flight \in Nat /\ w \in Nat /\ f \in Nat
    <3>1. /\ WorkIn(i) \in Nat /\ lag \in Nat /\ Wait(i) \in Nat /\ Fcfs!Wait(i) \in Nat
      BY WaitAgainstFcfs
    <3>2. K \in Nat /\ L \in Nat /\ pol.bmax \in Nat
      BY AccountTypes DEF ScheduleInv, KernelInv, PolicyType
    <3> QED BY <3>1, <3>2, NaturalProduct
  <2>2. w <= f + WorkIn(i) + 2 * lag
    BY WaitIsBounded
  <2>3. WorkIn(i) < pol.bmax + flight
    BY WaitIsBounded DEF ScheduleInv, PassesAllowed
  <2>4. K * (Wait(i) - Fcfs!Wait(i)) = w - f
    BY <2>1, Distribute
  <2>5. (3 * K - 2) * L = flight + 2 * lag
    BY <2>1
  <2>6. w - f < pol.bmax + (flight + 2 * lag)
    <3> HIDE DEF w, f, lag, flight
    <3> QED BY <2>1, <2>2, <2>3
  <2> QED BY <2>4, <2>5, <2>6
<1> QED BY <1>1, ScheduleInvariant, PTL

\* The multiplicative promise (bounds.py:5): a budget that grows with the age of a job
\* at a slope below K stretches its wait by a constant factor (GuardRelativeBound).
THEOREM RelativeBoundHolds == Spec => []GuardRelativeBound
<1>1. ScheduleInv => GuardRelativeBound
  <2> SUFFICES ASSUME ScheduleInv, RunComplete, guarding, pol.gam = 0, pol.en < pol.ed * K,
                      NEW i \in Rank
               PROVE  (pol.ed * K - pol.en) * Wait(i)
                        <= pol.ed * (K * Fcfs!Wait(i) + pol.b0 + (3 * K - 2) * L)
    BY DEF GuardRelativeBound
  <2> DEFINE lag    == (K - 1) * L
             flight == K * L
             w      == K * Wait(i)
             f      == K * Fcfs!Wait(i)
             ed     == pol.ed
             en     == pol.en
  <2>1. /\ WorkIn(i) \in Nat /\ lag \in Nat /\ Wait(i) \in Nat /\ Fcfs!Wait(i) \in Nat
        /\ K \in Nat /\ L \in Nat /\ ed \in Nat /\ en \in Nat /\ pol.b0 \in Nat
        /\ flight \in Nat /\ w \in Nat /\ f \in Nat
    <3>1. /\ WorkIn(i) \in Nat /\ lag \in Nat /\ Wait(i) \in Nat /\ Fcfs!Wait(i) \in Nat
      BY WaitAgainstFcfs
    <3>2. K \in Nat /\ L \in Nat /\ ed \in Nat /\ en \in Nat /\ pol.b0 \in Nat
      BY AccountTypes DEF ScheduleInv, KernelInv, PolicyType
    <3> QED BY <3>1, <3>2, NaturalProduct
  <2>2. w <= f + WorkIn(i) + 2 * lag
    BY WaitIsBounded
  <2>3. ed * WorkIn(i) <= ed * (pol.b0 + flight) + en * Wait(i)
    <3>1. Age(i) = Wait(i)
      BY FinishedSchedule
    <3> QED BY <3>1, WaitIsBounded DEF ScheduleInv, PassesAllowed
  <2>4. (3 * K - 2) * L = flight + 2 * lag
    BY <2>1
  <2>5. (ed * K - en) * Wait(i) = ed * w - en * Wait(i)
    <3> HIDE DEF ed, en
    <3> QED BY <2>1
  <2>6. ed * w - en * Wait(i) <= ed * (f + pol.b0 + (flight + 2 * lag))
    <3> DEFINE x == WorkIn(i)
               y == Wait(i)
               z == 2 * lag
    <3>1. x \in Nat /\ y \in Nat /\ z \in Nat
      BY <2>1
    <3> HIDE DEF x, y, z, w, f, lag, flight, ed, en
    <3>2. ed * w <= ed * (f + (x + z))
      <4>1. w <= f + (x + z) /\ f + (x + z) \in Nat
        BY <2>1, <2>2, <3>1 DEF x, z
      <4> QED BY <2>1, <4>1, ScaleFactor
    <3>3. /\ ed * (f + (x + z)) = ed * f + (ed * x + ed * z)
          /\ ed * (pol.b0 + flight) = ed * pol.b0 + ed * flight
          /\ ed * (f + pol.b0 + (flight + z)) = ed * f + ed * pol.b0 + (ed * flight + ed * z)
      <4>1. ed * (f + (x + z)) = ed * f + ed * (x + z) /\ ed * (x + z) = ed * x + ed * z
        BY <2>1, <3>1, DistributeSum
      <4>2. ed * (pol.b0 + flight) = ed * pol.b0 + ed * flight
        BY <2>1, DistributeSum
      <4>3. /\ f + pol.b0 \in Int /\ flight + z \in Int
            /\ ed * (f + pol.b0) = ed * f + ed * pol.b0
            /\ ed * (flight + z) = ed * flight + ed * z
        BY <2>1, <3>1, DistributeSum
      <4>4. ed * (f + pol.b0 + (flight + z)) = ed * (f + pol.b0) + ed * (flight + z)
        BY <2>1, <4>3, DistributeSum
      <4> QED BY <4>1, <4>2, <4>3, <4>4
    <3>4. /\ ed * w \in Int /\ ed * f \in Int /\ ed * x \in Int /\ ed * z \in Int
          /\ ed * pol.b0 \in Int /\ ed * flight \in Int /\ en * y \in Int
      BY <2>1, <3>1
    <3>5. ed * x <= ed * (pol.b0 + flight) + en * y
      BY <2>3 DEF x, y
    <3>6. ed * w - en * y <= ed * (f + pol.b0 + (flight + z))
      BY <3>2, <3>3, <3>4, <3>5
    <3> QED BY <3>6 DEF y, z
  <2> QED BY <2>4, <2>5, <2>6
<1> QED BY <1>1, ScheduleInvariant, PTL

\* The promise of the skip wrapper (bounds.py:6): what a job loses grows with the number
\* of passes it allows (SkipBound).
THEOREM SkipBoundHolds == Spec => []SkipBound
<1>1. ScheduleInv => SkipBound
  <2> SUFFICES ASSUME ScheduleInv, RunComplete, pol.mode = "skip", NEW i \in Rank
               PROVE  K * (Wait(i) - Fcfs!Wait(i)) <= (pol.ncap + 2 * K - 2) * L
    BY DEF SkipBound
  <2> DEFINE lag  == (K - 1) * L
             w    == K * Wait(i)
             f    == K * Fcfs!Wait(i)
             P    == Passers(i)
             most == pol.ncap * L
  <2>1. /\ StructureInv /\ ScheduleFollowsClock /\ i \in 0 .. next - 1
        /\ w <= f + WorkOf(P, s_us) + 2 * lag /\ Cardinality(P) <= pol.ncap
    BY WaitIsBounded DEF ScheduleInv, KernelInv, PassesAllowed
  <2>2. /\ P \in SUBSET Rank /\ IsFiniteSet(P) /\ Cardinality(P) \in Nat /\ WorkOf(P, s_us) \in Nat
        /\ pol.ncap \in Nat
    BY <2>1, PassersTypes DEF PolicyType
  <2>3. /\ lag \in Nat /\ Wait(i) \in Nat /\ Fcfs!Wait(i) \in Nat /\ K \in Nat /\ L \in Nat
    BY WaitAgainstFcfs, FinishedSchedule, TraceTypes
  <2>4. w \in Nat /\ f \in Nat /\ most \in Nat
    BY <2>2, <2>3, NaturalProduct
  <2>5. WorkOf(P, s_us) <= most
    <3>1. \A j \in P : s_us[j] \in Nat /\ s_us[j] <= L
      BY <2>1, <2>2, AccountTypes
    <3> HIDE DEF P
    <3>2. WorkOf(P, s_us) <= Cardinality(P) * L
      BY <2>2, <2>3, <3>1, WorkLimit
    <3>3. Cardinality(P) * L <= most /\ Cardinality(P) * L \in Nat
      BY <2>1, <2>2, <2>3, ScaleWeakly, NaturalProduct
    <3> HIDE DEF most
    <3> QED BY <2>2, <2>4, <3>2, <3>3
  <2>6. K * (Wait(i) - Fcfs!Wait(i)) = w - f
    BY <2>3, Distribute
  <2>7. (pol.ncap + 2 * K - 2) * L = most + 2 * lag
    BY <2>2, <2>3
  <2>8. w - f <= most + 2 * lag
    <3> HIDE DEF w, f, lag, most, P
    <3> QED BY <2>1, <2>2, <2>3, <2>4, <2>5
  <2> QED BY <2>6, <2>7, <2>8
<1> QED BY <1>1, ScheduleInvariant, PTL

\* First come first served is one schedule (FcfsMatchesRecursions): the mode fcfs, a skip
\* wrapper that allows no pass and a guard with no budget all start every job exactly when
\* the recursions of reference.py say.
THEOREM FcfsIsTheRecursions == Spec => []FcfsMatchesRecursions
<1>1. ScheduleInv => FcfsMatchesRecursions
  <2> SUFFICES ASSUME ScheduleInv, RunComplete, InOrder, NEW i \in Rank
               PROVE  Wait(i) = Fcfs!Wait(i) /\ (K = 1 => Wait(i) = Fcfs!Lindley[i])
    BY DEF FcfsMatchesRecursions, InOrder
  <2>1. TraceOK /\ Schedules!NeverIdle(start) /\ Rank \subseteq Nat /\ start \in [Rank -> Int]
    BY FinishedSchedule, TraceTypes
  <2>2. ASSUME NEW p \in Rank, NEW q \in Rank, p <= q PROVE start[p] <= start[q]
    <3>1. CASE p = q
      <4>1. start[p] \in Int
        BY <2>1
      <4> QED BY <3>1, <4>1
    <3>2. CASE p # q
      <4>1. q > p
        BY <2>1, <2>2, <3>2
      <4>2. Passers(p) = {}
        BY FinishedSchedule DEF ScheduleInv, PassesAllowed
      <4>3. ~(dispatchIndex[q] < dispatchIndex[p])
        BY <4>1, <4>2, FinishedSchedule
      <4>4. /\ dispatchIndex[p] \in Int /\ dispatchIndex[q] \in Int
            /\ dispatchIndex[p] # dispatchIndex[q]
        BY <3>2, FinishedSchedule
      <4>5. dispatchIndex[p] < dispatchIndex[q]
        BY <4>3, <4>4
      <4> QED BY <4>5, FinishedSchedule
    <3> QED BY <3>1, <3>2
  <2>3. /\ Schedules!InputOK /\ Schedules!Rank = Rank /\ Schedules!Wait(i) = Fcfs!Wait(i)
        /\ Schedules!Lindley = Fcfs!Lindley
    BY <2>1, TraceSchedules
  <2>4. /\ start[i] - a_us[i] = Schedules!Wait(i)
        /\ K = 1 => start[i] - a_us[i] = Schedules!Lindley[i]
    BY <2>1, <2>2, <2>3, Schedules!InOrderIsFcfs
  <2> QED BY <2>3, <2>4 DEF Wait
<1> QED BY <1>1, ScheduleInvariant, PTL

---------------------------------------------------------------------------
(* The sweep of the audits.                                                *)

\* The jobs dispatched before the p-th dispatch.
DispatchedBefore(p) == {j \in Rank : dispatchIndex[j] < p}

\* What the walk holds when it reaches dispatch p: the tree and the total are sums of the
\* work dispatched before it, and both amounts of every such job are settled.
SweepRight(w, p) ==
  /\ w.tree \in [Node(N) -> Int]
  /\ \A q \in Rank : Pref(w.tree, q) = WorkOf({j \in DispatchedBefore(p) : j <= q}, s_us)
  /\ w.total = WorkOf(DispatchedBefore(p), s_us)
  /\ DOMAIN w.work_in = Rank /\ DOMAIN w.work_out = Rank
  /\ \A i \in DispatchedBefore(p) : w.work_in[i] = WorkIn(i) /\ w.work_out[i] = WorkOut(i)

\* Every dispatch of a finished run is that of one job.
LEMMA DispatchedOnce ==
  ASSUME ScheduleInv, RunComplete, NEW p \in Rank
  PROVE  LET i == CHOOSE j \in Rank : dispatchIndex[j] = p
         IN  i \in Rank /\ dispatchIndex[i] = p
<1>1. /\ served = Rank /\ StartsInOrder /\ Rank = 0 .. ndisp - 1
      /\ IsFiniteSet(Rank) /\ dispatchIndex \in [Rank -> Int]
  <2>1. StructureInv /\ ScheduleFollowsClock /\ StartsInOrder /\ TraceOK
    BY DEF ScheduleInv, KernelInv, StructureInv, TypeOK, InputsOK
  <2> QED BY <2>1, FinishedSchedule, RunTypes, TraceTypes DEF RunComplete, Rank
<1>2. /\ \A j \in Rank : dispatchIndex[j] \in Rank
      /\ \A i, j \in Rank : i # j => dispatchIndex[i] # dispatchIndex[j]
  BY <1>1 DEF StartsInOrder
<1>3. dispatchIndex \in Injection(Rank, Rank)
  <2>1. dispatchIndex \in [Rank -> Rank]
    BY <1>1, <1>2
  <2> QED BY <1>2, <2>1 DEF Injection, IsInjective
<1>4. dispatchIndex \in Surjection(Rank, Rank)
  BY <1>1, <1>3, FS_Injection
<1>5. \E j \in Rank : dispatchIndex[j] = p
  BY <1>4 DEF Surjection
<1> QED BY <1>5

LEMMA SweepStepRight ==
  ASSUME ScheduleInv, RunComplete, NEW p \in Rank, NEW w, SweepRight(w, p),
         NEW i \in Rank, dispatchIndex[i] = p
  PROVE  SweepRight(SweepStep(w, i), p + 1)
<1> DEFINE B      == DispatchedBefore(p)
           new    == SweepStep(w, i)
           sum    == Pref(w.tree, i)
           static == WorkOf({j \in Rank : j < i}, s_us)
           Upto(S, q) == {j \in S : j <= q}
<1>1. /\ N \in Nat /\ Rank = 0 .. N - 1 /\ s_us[i] \in Int
      /\ \A S \in SUBSET Rank : IsFiniteSet(S) /\ WorkOf(S, s_us) \in Nat
      /\ \A j \in Rank : s_us[j] \in Nat /\ j \in Nat
      /\ \A j \in Rank : dispatchIndex[j] \in Int /\ (j # i => dispatchIndex[j] # p)
  <2>1. TraceOK
    BY FinishedSchedule
  <2>2. /\ N \in Nat /\ s_us \in [Rank -> 1 .. L] /\ L \in Nat /\ Rank \subseteq Nat
        /\ \A S \in SUBSET Rank : IsFiniteSet(S) /\ WorkOf(S, s_us) \in Nat
    BY <2>1, TraceTypes
  <2>3. \A j \in Rank : s_us[j] \in Nat /\ j \in Nat
    BY <2>2
  <2>4. \A j \in Rank : dispatchIndex[j] \in Int /\ (j # i => dispatchIndex[j] # p)
    BY FinishedSchedule
  <2> QED BY <2>2, <2>3, <2>4 DEF Rank
<1>2. /\ i \notin B /\ B \in SUBSET Rank /\ DispatchedBefore(p + 1) = B \cup {i}
  <2>1. ASSUME NEW j \in Rank PROVE dispatchIndex[j] < p + 1 <=> dispatchIndex[j] < p \/ j = i
    <3>1. dispatchIndex[j] \in Int /\ p \in Int /\ (j # i => dispatchIndex[j] # p)
      BY <1>1
    <3> QED BY <3>1
  <2>2. ~ (dispatchIndex[i] < p)
    BY <1>1
  <2> QED BY <2>1, <2>2 DEF DispatchedBefore
<1>3. \A S \in SUBSET Rank : i \notin S =>
        WorkOf(S \cup {i}, s_us) = WorkOf(S, s_us) + s_us[i]
  BY <1>1, WorkAddJob
<1>4. /\ w.tree \in [Node(N) -> Int] /\ w.total = WorkOf(B, s_us)
      /\ \A q \in Rank : Pref(w.tree, q) = WorkOf(Upto(B, q), s_us)
      /\ DOMAIN w.work_in = Rank /\ DOMAIN w.work_out = Rank
      /\ \A j \in B : w.work_in[j] = WorkIn(j) /\ w.work_out[j] = WorkOut(j)
  BY DEF SweepRight
<1>5. /\ new.tree = Added(w.tree, N, i, s_us[i]) /\ new.total = w.total + s_us[i]
      /\ new.work_in = [w.work_in EXCEPT ![i] = w.total - sum]
      /\ new.work_out = [w.work_out EXCEPT ![i] = static - sum]
  BY DEF SweepStep
<1> HIDE DEF new
<1>6. new.tree \in [Node(N) -> Int]
  <2>1. /\ N \in Nat /\ i \in 0 .. N - 1 /\ s_us[i] \in Int
        /\ w.tree \in [Node(N) -> Int]
    BY <1>1, <1>4
  <2> QED BY <1>5, <2>1, AddedCovers
<1>7. ASSUME NEW q \in Rank
      PROVE  Pref(new.tree, q) = WorkOf({j \in DispatchedBefore(p + 1) : j <= q}, s_us)
  <2> DEFINE read == [r \in 0 .. N - 1 |-> Pref(w.tree, r)]
  <2>1. [r \in 0 .. N - 1 |-> Pref(new.tree, r)] = AddSuffix(read, i, s_us[i])
    <3>1. /\ N \in Nat /\ i \in 0 .. N - 1 /\ s_us[i] \in Int
          /\ w.tree \in [Node(N) -> Int]
      BY <1>1, <1>4
    <3>2. [r \in 0 .. N - 1 |-> Pref(Added(w.tree, N, i, s_us[i]), r)]
            = AddSuffix(read, i, s_us[i])
      BY <3>1, FenwickAddsToSuffix
    <3> QED BY <1>5, <3>2
  <2>2. Pref(new.tree, q) = IF q >= i THEN Pref(w.tree, q) + s_us[i] ELSE Pref(w.tree, q)
    <3>1. q \in 0 .. N - 1 /\ q \in DOMAIN read
      BY <1>1
    <3>2. [r \in 0 .. N - 1 |-> Pref(new.tree, r)][q] = AddSuffix(read, i, s_us[i])[q]
      BY <2>1
    <3> QED BY <3>1, <3>2 DEF AddSuffix
  <2>3. Upto(B, q) \in SUBSET Rank /\ i \notin Upto(B, q)
    BY <1>2
  <2>4. CASE q >= i
    <3>1. {j \in DispatchedBefore(p + 1) : j <= q} = Upto(B, q) \cup {i}
      BY <1>1, <1>2, <2>4
    <3> HIDE DEF Upto
    <3> QED BY <1>3, <1>4, <2>2, <2>3, <2>4, <3>1
  <2>5. CASE ~(q >= i)
    <3>1. {j \in DispatchedBefore(p + 1) : j <= q} = Upto(B, q)
      BY <1>1, <1>2, <2>5
    <3> HIDE DEF Upto
    <3> QED BY <1>4, <2>2, <2>5, <3>1
  <2> QED BY <2>4, <2>5
<1>8. new.total = WorkOf(DispatchedBefore(p + 1), s_us)
  BY <1>2, <1>3, <1>4, <1>5
<1>9. /\ sum = WorkOf(Upto(B, i), s_us) /\ Upto(B, i) \in SUBSET Rank
      /\ IsFiniteSet(Upto(B, i)) /\ sum \in Nat
  <2>1. Upto(B, i) \in SUBSET Rank
    BY <1>2
  <2> HIDE DEF Upto
  <2> QED BY <1>1, <1>4, <2>1
<1>10. w.total - sum = WorkIn(i)
  <2> DEFINE over == {j \in Rank : j > i /\ dispatchIndex[j] < dispatchIndex[i]}
  <2>1. B = Upto(B, i) \cup over /\ Upto(B, i) \cap over = {} /\ over \in SUBSET Rank
    <3>1. \A j \in Rank : j > i <=> ~(j <= i)
      BY <1>1
    <3> QED BY <3>1 DEF DispatchedBefore
  <2>2. IsFiniteSet(over) /\ WorkOf(over, s_us) \in Nat
    BY <1>1, <2>1
  <2> DEFINE S == Upto(B, i)
  <2>3. WorkOf(S \cup over, s_us) = WorkOf(S, s_us) + WorkOf(over, s_us)
    <3>1. /\ \A j \in S \cup over : s_us[j] \in Nat
          /\ IsFiniteSet(S) /\ S \cap over = {}
      BY <1>1, <1>9, <2>1
    <3> HIDE DEF S, over
    <3> QED BY <2>2, <3>1, WorkSplit
  <2>4. WorkIn(i) = WorkOf(over, s_us)
    BY DEF WorkIn
  <2> HIDE DEF over, S
  <2>5. w.total = sum + WorkOf(over, s_us)
    BY <1>4, <1>9, <2>1, <2>3 DEF S
  <2> QED BY <1>9, <2>2, <2>4, <2>5
<1>11. static - sum = WorkOut(i)
  <2> DEFINE under == {j \in Rank : j < i /\ dispatchIndex[i] < dispatchIndex[j]}
             S == Upto(B, i)
  <2>1. /\ {j \in Rank : j < i} = S \cup under /\ S \cap under = {} /\ under \in SUBSET Rank
    <3>1. ASSUME NEW j \in Rank
          PROVE  /\ j \in S => j < i /\ ~(dispatchIndex[i] < dispatchIndex[j])
                 /\ j < i => (j \in S <=> ~(dispatchIndex[i] < dispatchIndex[j]))
      <4>1. /\ j \in Int /\ i \in Int /\ dispatchIndex[j] \in Int /\ p \in Int
            /\ j # i => dispatchIndex[j] # p
        BY <1>1
      <4>2. j \in S <=> dispatchIndex[j] < p /\ j <= i
        BY DEF DispatchedBefore
      <4> HIDE DEF S
      <4> QED BY <4>1, <4>2
    <3>2. S \in SUBSET Rank
      BY <1>9
    <3> HIDE DEF S
    <3> QED BY <3>1, <3>2
  <2>2. IsFiniteSet(under) /\ WorkOf(under, s_us) \in Nat
    BY <1>1, <2>1
  <2>3. WorkOf(S \cup under, s_us) = WorkOf(S, s_us) + WorkOf(under, s_us)
    <3>1. /\ \A j \in S \cup under : s_us[j] \in Nat
          /\ IsFiniteSet(S) /\ S \cap under = {}
      BY <1>1, <1>9, <2>1
    <3> HIDE DEF S, under
    <3> QED BY <2>2, <3>1, WorkSplit
  <2>4. WorkOut(i) = WorkOf(under, s_us)
    BY DEF WorkOut
  <2> HIDE DEF under, S
  <2>5. static = sum + WorkOf(under, s_us)
    BY <1>9, <2>1, <2>3 DEF S
  <2> HIDE DEF static
  <2> QED BY <1>9, <2>2, <2>4, <2>5
<1>12. /\ DOMAIN new.work_in = Rank /\ DOMAIN new.work_out = Rank
       /\ \A j \in DispatchedBefore(p + 1) : new.work_in[j] = WorkIn(j) /\ new.work_out[j] = WorkOut(j)
  <2> HIDE DEF sum, static, B
  <2> QED BY <1>2, <1>4, <1>5, <1>10, <1>11
<1> QED BY <1>6, <1>7, <1>8, <1>12 DEF SweepRight, new

\* The recursion of SweepAfter over the first n dispatches.
Dispatched(p) == CHOOSE j \in Rank : dispatchIndex[j] = p
IsSweep(g, n) ==
  g = [p \in 0 .. n |-> IF p = 0 THEN SweepStart ELSE SweepStep(g[p - 1], Dispatched(p - 1))]

LEMMA SweepExists ==
  ASSUME NEW n \in Nat
  PROVE  \E g : IsSweep(g, n)
<1> DEFINE T == {m \in Nat : ~ \E g : IsSweep(g, m)}
<1>1. SUFFICES ASSUME T # {} PROVE FALSE
  OBVIOUS
<1>2. PICK m \in T : \A k \in T : m <= k
  BY <1>1, NatMin
<1>3. m \in Nat /\ ~ \E g : IsSweep(g, m)
  OBVIOUS
<1>4. m # 0
  <2> SUFFICES ASSUME m = 0 PROVE FALSE
    OBVIOUS
  <2> DEFINE g == [p \in 0 .. 0 |-> SweepStart]
  <2>1. g = [p \in 0 .. 0 |-> IF p = 0 THEN SweepStart
                              ELSE SweepStep(g[p - 1], Dispatched(p - 1))]
    OBVIOUS
  <2> HIDE DEF g
  <2> QED BY <1>3, <2>1 DEF IsSweep
<1>5. m - 1 \in Nat /\ m - 1 \notin T
  BY <1>2, <1>3, <1>4
<1>6. PICK g : IsSweep(g, m - 1)
  BY <1>5
<1> DEFINE h == [p \in 0 .. m |-> IF p = m THEN SweepStep(g[m - 1], Dispatched(m - 1)) ELSE g[p]]
           Value(p) == IF p = 0 THEN SweepStart ELSE SweepStep(h[p - 1], Dispatched(p - 1))
<1>7. \A p \in 0 .. m - 1 :
        g[p] = IF p = 0 THEN SweepStart ELSE SweepStep(g[p - 1], Dispatched(p - 1))
  BY <1>6 DEF IsSweep
<1>8. ASSUME NEW p \in 0 .. m PROVE h[p] = Value(p)
  <2>1. p # 0 => h[p - 1] = g[p - 1] /\ p - 1 \in 0 .. m - 1
    BY <1>3
  <2>2. CASE p = m
    BY <1>3, <1>4, <2>1, <2>2
  <2>3. CASE p # m
    <3>1. p \in 0 .. m - 1 /\ h[p] = g[p]
      BY <1>3, <2>3
    <3> HIDE DEF h
    <3> QED BY <1>7, <2>1, <3>1
  <2> QED BY <2>2, <2>3
<1>9. h = [p \in 0 .. m |-> Value(p)]
  <2> HIDE DEF Value
  <2>1. h = [p \in 0 .. m |-> h[p]]
    OBVIOUS
  <2> HIDE DEF h
  <2> QED BY <1>8, <2>1
<1>10. IsSweep(h, m)
  <2> HIDE DEF h
  <2> QED BY <1>9 DEF IsSweep
<1> QED BY <1>3, <1>10

LEMMA SweepRecursion ==
  ASSUME N \in Nat
  PROVE  /\ SweepAfter[0] = SweepStart
         /\ \A p \in Rank : SweepAfter[p + 1] = SweepStep(SweepAfter[p], Dispatched(p))
<1> DEFINE g == SweepAfter
<1>1. IsSweep(g, N)
  <2>1. g = CHOOSE h : IsSweep(h, N)
    BY DEF SweepAfter, IsSweep, Dispatched
  <2> QED BY <2>1, SweepExists
<1> HIDE DEF g
<1>2. \A p \in 0 .. N :
        g[p] = IF p = 0 THEN SweepStart ELSE SweepStep(g[p - 1], Dispatched(p - 1))
  BY <1>1 DEF IsSweep
<1>3. g[0] = SweepStart
  BY <1>2
<1>4. ASSUME NEW p \in Rank PROVE g[p + 1] = SweepStep(g[p], Dispatched(p))
  <2>1. p + 1 \in 0 .. N /\ p + 1 # 0 /\ (p + 1) - 1 = p
    BY DEF Rank
  <2> QED BY <1>2, <2>1
<1> QED BY <1>3, <1>4 DEF g

LEMMA SweepIsRight ==
  ASSUME ScheduleInv, RunComplete, NEW p \in 0 .. N
  PROVE  SweepRight(SweepAfter[p], p)
<1> DEFINE T == {q \in 0 .. N : ~ SweepRight(SweepAfter[q], q)}
<1>1. SUFFICES ASSUME T # {} PROVE FALSE
  OBVIOUS
<1>2. T \in SUBSET Nat
  OBVIOUS
<1>3. PICK q \in T : \A k \in T : q <= k
  BY <1>1, <1>2, NatMin
<1>4. q \in 0 .. N /\ ~ SweepRight(SweepAfter[q], q)
  OBVIOUS
<1>5. /\ TraceOK /\ N \in Nat /\ Rank = 0 .. N - 1 /\ s_us \in [Rank -> 1 .. L]
      /\ \A j \in Rank : dispatchIndex[j] \in 0 .. N - 1
  <2>1. StructureInv /\ ScheduleFollowsClock /\ StartsInOrder /\ TraceOK
    BY DEF ScheduleInv, KernelInv, StructureInv, TypeOK, InputsOK
  <2> QED BY <2>1, FinishedSchedule, TraceTypes DEF RunComplete, Rank, StartsInOrder
<1>6. q # 0
  <2> SUFFICES ASSUME q = 0 PROVE FALSE
    OBVIOUS
  <2>1. DispatchedBefore(0) = {}
    BY <1>5 DEF DispatchedBefore
  <2>2. /\ SweepStart.tree = NoWork(N) /\ SweepStart.total = 0
        /\ SweepStart.work_in = s_us /\ SweepStart.work_out = s_us
    BY DEF SweepStart
  <2>3. /\ SweepStart.tree \in [Node(N) -> Int]
        /\ \A r \in Rank : Pref(SweepStart.tree, r) = 0
    <3>1. NoWork(N) \in [Node(N) -> Int]
      BY DEF NoWork
    <3> QED BY <1>5, <2>2, <3>1, NoWorkIsRead
  <2>4. \A r \in Rank : {j \in DispatchedBefore(0) : j <= r} = {}
    BY <2>1
  <2>5. SweepRight(SweepStart, 0)
    BY <1>5, <2>1, <2>2, <2>3, <2>4, WorkEmpty DEF SweepRight
  <2> QED BY <1>4, <1>5, <2>5, SweepRecursion
<1>7. q - 1 \in Rank /\ q - 1 \in 0 .. N /\ (q - 1) + 1 = q
  BY <1>4, <1>5, <1>6
<1>8. q - 1 \notin T
  BY <1>3, <1>4, <1>7
<1>9. SweepRight(SweepAfter[q - 1], q - 1)
  BY <1>7, <1>8
<1>10. Dispatched(q - 1) \in Rank /\ dispatchIndex[Dispatched(q - 1)] = q - 1
  BY <1>7, DispatchedOnce DEF Dispatched
<1>11. SweepRight(SweepStep(SweepAfter[q - 1], Dispatched(q - 1)), (q - 1) + 1)
  BY <1>7, <1>9, <1>10, SweepStepRight
<1>12. SweepAfter[(q - 1) + 1] = SweepStep(SweepAfter[q - 1], Dispatched(q - 1))
  BY <1>5, <1>7, SweepRecursion
<1> QED BY <1>4, <1>7, <1>11, <1>12

\* The audit's sweep (_in_out_sweep) gives for every job of every finished run the work
\* that passed it and the work it passed, whatever the number of jobs and the order of
\* their dispatch (SweepMatchesDefinition).
THEOREM SweepIsExact == Spec => []SweepMatchesDefinition
<1>1. ScheduleInv => SweepMatchesDefinition
  <2> SUFFICES ASSUME ScheduleInv, RunComplete, NEW i \in Rank
               PROVE  Sweep.work_in[i] = WorkIn(i) /\ Sweep.work_out[i] = WorkOut(i)
    BY DEF SweepMatchesDefinition
  <2>1. N \in Nat /\ dispatchIndex[i] \in 0 .. N - 1
    <3>1. StructureInv /\ ScheduleFollowsClock /\ StartsInOrder /\ TraceOK
      BY DEF ScheduleInv, KernelInv, StructureInv, TypeOK, InputsOK
    <3> QED BY <3>1, FinishedSchedule, TraceTypes DEF RunComplete, StartsInOrder
  <2>2. SweepRight(Sweep, N)
    <3>1. N \in 0 .. N
      BY <2>1
    <3> QED BY <3>1, SweepIsRight DEF Sweep
  <2>3. i \in DispatchedBefore(N)
    BY <2>1 DEF DispatchedBefore
  <2> QED BY <2>2, <2>3 DEF SweepRight
<1> QED BY <1>1, ScheduleInvariant, PTL

---------------------------------------------------------------------------
(* What determines a schedule.  Given the trace and the policy, which job  *)
(* starts next, and when, follows from what has started so far and from    *)
(* the scores of the jobs that have arrived.  st and ix are the starting   *)
(* instants and the positions in the sequence of dispatches, P the jobs    *)
(* dispatched before, u an instant and sc the scores.                      *)

StillWaiting(P, u) == {q \in Rank \ P : a_us[q] <= u}
OnServer(st, P, u) == {o \in P : u < st[o] + s_us[o]}
ChargedTo(st, P, u, q) == WorkOf({o \in P : ~(u < st[o] + s_us[o]) /\ o > q}, s_us)
FoundWaiting(st, P, q) == {r \in 0 .. q - 1 : ~(r \in P /\ st[r] < a_us[q])}
SpentBy(st, P, u, q) ==
  \/ pol.bmax > 0 /\ ChargedTo(st, P, u, q) >= pol.bmax
  \/ pol.ed * ChargedTo(st, P, u, q)
       >= pol.ed * (pol.b0 + pol.gam * Cardinality(FoundWaiting(st, P, q)))
            + pol.en * (u - a_us[q])

MustGo(st, P, u) ==
  {q \in StillWaiting(P, u) :
     \/ pol.mode = "guard" /\ SpentBy(st, P, u, q)
     \/ pol.mode = "skip" /\ Cardinality({o \in P : o > q}) >= pol.ncap
     \/ pol.mode = "fcfs"}

ScoredBefore(sc, i, j) == sc[i] < sc[j] \/ (sc[i] = sc[j] /\ i < j)

Picked(st, P, u, sc, j) ==
  /\ j \in StillWaiting(P, u)
  /\ \/ j \in MustGo(st, P, u) /\ \A q \in MustGo(st, P, u) : j <= q
     \/ MustGo(st, P, u) = {} /\ \A q \in StillWaiting(P, u) \ {j} : ScoredBefore(sc, j, q)

FreeServer(st, P, u) == Cardinality(OnServer(st, P, u)) < K

\* Job j is the one the rule picks, at the first instant at which it can pick any.
Handed(st, P, sc, j) ==
  /\ \A o \in P : st[o] <= st[j]
  /\ FreeServer(st, P, st[j])
  /\ Picked(st, P, st[j], sc, j)
  /\ \A u \in Nat : u < st[j] /\ (\A o \in P : st[o] <= u) =>
       ~FreeServer(st, P, u) \/ StillWaiting(P, u) = {}

Earlier(ix, D, j) == {o \in D : ix[o] < ix[j]}
FollowsRule(st, ix, D, sc) == \A j \in D : Handed(st, Earlier(ix, D, j), sc, j)

\* The schedule of a whole run.
RuledBy(st, ix, sc) ==
  /\ st \in [Rank -> Nat] /\ ix \in [Rank -> Rank] /\ sc \in [Rank -> Int]
  /\ \A n \in Rank : \E j \in Rank : ix[j] = n
  /\ \A i, j \in Rank : ix[i] = ix[j] => i = j
  /\ FollowsRule(st, ix, Rank, sc)

LEMMA SameSoFar ==
  ASSUME NEW st, NEW st2, NEW P, \A o \in P : st2[o] = st[o]
  PROVE  /\ \A u : FreeServer(st2, P, u) = FreeServer(st, P, u)
         /\ \A u : MustGo(st2, P, u) = MustGo(st, P, u)
         /\ \A u, sc, j : Picked(st2, P, u, sc, j) = Picked(st, P, u, sc, j)
<1>1. ASSUME NEW u PROVE OnServer(st2, P, u) = OnServer(st, P, u)
  BY DEF OnServer
<1>2. ASSUME NEW u, NEW q PROVE SpentBy(st2, P, u, q) = SpentBy(st, P, u, q)
  <2>1. {o \in P : ~(u < st2[o] + s_us[o]) /\ o > q} = {o \in P : ~(u < st[o] + s_us[o]) /\ o > q}
    OBVIOUS
  <2>2. FoundWaiting(st2, P, q) = FoundWaiting(st, P, q)
    BY DEF FoundWaiting
  <2> QED BY <2>1, <2>2 DEF SpentBy, ChargedTo
<1>3. ASSUME NEW u PROVE MustGo(st2, P, u) = MustGo(st, P, u)
  BY <1>2 DEF MustGo
<1> QED BY <1>1, <1>3 DEF FreeServer, Picked

\* The rule picks one job, whatever the scores of those that have not arrived.
LEMMA PickedOnce ==
  ASSUME TraceOK, NEW st, NEW P, NEW u, NEW sc \in [Rank -> Int], NEW sc2 \in [Rank -> Int],
         \A i \in StillWaiting(P, u) : sc2[i] = sc[i],
         NEW i, Picked(st, P, u, sc, i), NEW j, Picked(st, P, u, sc2, j)
  PROVE  i = j
<1>1. Rank \subseteq Nat
  BY TraceTypes
<1>2. i \in StillWaiting(P, u) /\ j \in StillWaiting(P, u) /\ StillWaiting(P, u) \subseteq Rank
  BY DEF Picked, StillWaiting
<1>3. i \in Int /\ j \in Int /\ sc[i] \in Int /\ sc[j] \in Int /\ sc2[i] = sc[i] /\ sc2[j] = sc[j]
  <2>1. i \in Rank /\ j \in Rank
    BY <1>2
  <2> QED BY <1>1, <1>2, <2>1
<1>4. CASE MustGo(st, P, u) # {}
  <2>1. /\ i \in MustGo(st, P, u) /\ \A q \in MustGo(st, P, u) : i <= q
        /\ j \in MustGo(st, P, u) /\ \A q \in MustGo(st, P, u) : j <= q
    BY <1>4 DEF Picked
  <2> QED BY <1>3, <2>1
<1>5. CASE MustGo(st, P, u) = {}
  <2> SUFFICES ASSUME i # j PROVE FALSE
    OBVIOUS
  <2>1. ScoredBefore(sc, i, j) /\ ScoredBefore(sc2, j, i)
    BY <1>2, <1>5 DEF Picked
  <2> QED BY <1>3, <2>1 DEF ScoredBefore
<1> QED BY <1>4, <1>5

\* Two schedules of the same trace and policy whose scores agree on the jobs that arrive
\* before an instant agree on the jobs that start before it.
LEMMA StartsAgree ==
  ASSUME TraceOK, NEW st, NEW ix, NEW sc, RuledBy(st, ix, sc),
         NEW st2, NEW ix2, NEW sc2, RuledBy(st2, ix2, sc2),
         NEW e \in Int, \A i \in Rank : a_us[i] < e => sc2[i] = sc[i],
         NEW j \in Rank, st[j] < e
  PROVE  st2[j] = st[j]
<1> DEFINE Bad == {i \in Rank : st[i] < e /\ ~(st2[i] = st[i] /\ ix2[i] = ix[i])}
           T == {ix[i] : i \in Bad}
<1>1. /\ Rank \subseteq Nat /\ a_us \in [Rank -> Nat]
      /\ st \in [Rank -> Nat] /\ st2 \in [Rank -> Nat] /\ ix \in [Rank -> Rank]
      /\ ix2 \in [Rank -> Rank] /\ sc \in [Rank -> Int] /\ sc2 \in [Rank -> Int]
  BY TraceTypes DEF RuledBy
<1>2. Bad = {}
  <2> SUFFICES ASSUME Bad # {} PROVE FALSE
    OBVIOUS
  <2>1. T \in SUBSET Nat /\ T # {}
    BY <1>1
  <2>2. PICK n \in T : \A m \in T : n <= m
    <3> HIDE DEF T
    <3> QED BY <2>1, NatMin
  <2>3. PICK i \in Bad : ix[i] = n
    OBVIOUS
  <2>4. i \in Rank /\ st[i] < e /\ ~(st2[i] = st[i] /\ ix2[i] = ix[i]) /\ n \in Rank /\ n \in Nat
    BY <1>1, <2>3
  <2>5. PICK k \in Rank : ix2[k] = n
    BY <2>4 DEF RuledBy
  <2> DEFINE P == Earlier(ix, Rank, i)
             P2 == Earlier(ix2, Rank, k)
  <2>6. Handed(st, P, sc, i) /\ Handed(st2, P2, sc2, k)
    BY <2>4, <2>5 DEF RuledBy, FollowsRule
  <2>7. ASSUME NEW o \in P PROVE st2[o] = st[o] /\ ix2[o] = ix[o]
    <3>1. o \in Rank /\ ix[o] < n /\ st[o] <= st[i]
      BY <2>3, <2>6 DEF Earlier, Handed
    <3>2. ix[o] \notin T
      <4>0. ix[o] \in Rank
        BY <1>1, <3>1
      <4>1. ix[o] \in Nat /\ n \in Nat
        BY <1>1, <2>4, <4>0
      <4>2. ~(n <= ix[o])
        BY <3>1, <4>1
      <4> HIDE DEF T
      <4> QED BY <2>2, <4>2
    <3>3. st[o] < e
      BY <1>1, <2>4, <3>1
    <3> QED BY <3>1, <3>2, <3>3
  <2>8. P = P2
    <3>1. P \subseteq P2
      BY <2>3, <2>5, <2>7 DEF Earlier
    <3>2. ASSUME NEW o \in P2 PROVE o \in P
      <4>1. o \in Rank /\ ix2[o] < n /\ ix2[o] \in Rank
        BY <1>1, <2>5 DEF Earlier
      <4>2. PICK p \in Rank : ix[p] = ix2[o]
        BY <4>1 DEF RuledBy
      <4>3. p \in P
        BY <2>3, <4>1, <4>2 DEF Earlier
      <4>4. ix2[p] = ix2[o]
        BY <2>7, <4>2, <4>3
      <4>5. p = o
        BY <4>1, <4>4 DEF RuledBy
      <4> QED BY <4>3, <4>5
    <3> QED BY <3>1, <3>2
  <2> HIDE DEF P, P2, Bad, T
  <2>9. /\ st[i] \in Nat /\ st2[k] \in Nat
        /\ \A o \in P : st[o] <= st[i] /\ st2[o] <= st2[k] /\ st2[o] = st[o]
        /\ \A u : FreeServer(st2, P, u) = FreeServer(st, P, u)
        /\ \A u, s, q : Picked(st2, P, u, s, q) = Picked(st, P, u, s, q)
    <3>1. \A o \in P : st2[o] = st[o]
      BY <2>7
    <3>2. \A o \in P : st[o] <= st[i] /\ st2[o] <= st2[k]
      BY <2>6, <2>8 DEF Handed
    <3> QED BY <1>1, <2>4, <3>1, <3>2, SameSoFar, SMTT(30)
  <2>10. /\ FreeServer(st, P, st[i]) /\ Picked(st, P, st[i], sc, i)
         /\ FreeServer(st, P, st2[k]) /\ Picked(st, P, st2[k], sc2, k)
         /\ StillWaiting(P, st[i]) # {} /\ StillWaiting(P, st2[k]) # {}
    BY <2>6, <2>8, <2>9 DEF Handed, Picked
  <2>11. ~(st[i] < st2[k])
    <3> SUFFICES ASSUME st[i] < st2[k] PROVE FALSE
      OBVIOUS
    <3>1. \A o \in P2 : st2[o] <= st[i]
      BY <2>8, <2>9
    <3>2. ~FreeServer(st2, P2, st[i]) \/ StillWaiting(P2, st[i]) = {}
      BY <2>6, <2>9, <3>1 DEF Handed
    <3> QED BY <2>8, <2>9, <2>10, <3>2
  <2>12. ~(st2[k] < st[i])
    <3> SUFFICES ASSUME st2[k] < st[i] PROVE FALSE
      OBVIOUS
    <3>1. \A o \in P : st[o] <= st2[k]
      BY <2>9
    <3>2. ~FreeServer(st, P, st2[k]) \/ StillWaiting(P, st2[k]) = {}
      BY <2>6, <2>9, <3>1 DEF Handed
    <3> QED BY <2>10, <3>2
  <2>13. st2[k] = st[i]
    BY <2>9, <2>11, <2>12
  <2>14. \A q \in StillWaiting(P, st[i]) : sc2[q] = sc[q]
    <3> SUFFICES ASSUME NEW q \in Rank, a_us[q] <= st[i] PROVE sc2[q] = sc[q]
      BY DEF StillWaiting
    <3>1. a_us[q] < e
      BY <1>1, <2>4, <2>9
    <3> QED BY <3>1
  <2>15. i = k
    BY <1>1, <2>10, <2>13, <2>14, PickedOnce
  <2> QED BY <2>3, <2>4, <2>5, <2>13, <2>15
<1> QED BY <1>2

---------------------------------------------------------------------------
\* The guard's static part counts the jobs that a job found waiting, and a job that is
\* admitted finds what was not started before its arrival.
ArrivalsFound ==
  /\ \A q \in 0 .. next - 1 : ahead[q] = Cardinality(FoundWaiting(start, served, q))
  /\ next < N => \A o \in served : start[o] < a_us[next]

\* The inductive invariant: every dispatch so far is the one the rule demands.
RuledInv ==
  /\ ScheduleInv
  /\ ArrivalsFound
  /\ FollowsRule(start, dispatchIndex, served, score)

LEMMA ArrivalKeepsFound ==
  ASSUME StructureInv, ScheduleFollowsClock, NoServerIdle, ArrivalsFound, AdmitArrival
  PROVE  ArrivalsFound'
<1>1. /\ next \in Rank /\ a_us[next] <= t /\ next' = next + 1
      /\ ahead' = [ahead EXCEPT ![next] = nwait] /\ ahead \in [Rank -> Int]
      /\ UNCHANGED <<a_us, served, start>>
  <2>1. /\ next < N /\ a_us[next] <= t /\ next' = next + 1
        /\ ahead' = [ahead EXCEPT ![next] = nwait]
        /\ UNCHANGED <<a_us, served, start>>
    BY DEF AdmitArrival, ArrivalDue, RegisterInWindow, inputs, resultVars
  <2>2. next \in 0 .. N /\ ahead \in [Rank -> Int] /\ N \in Nat
    BY RunTypes DEF StructureInv, TypeOK
  <2> QED BY <2>1, <2>2 DEF Rank
<1>2. next < N /\ \A o \in served : start[o] < a_us[next]
  BY <1>1, RunTypes DEF ArrivalsFound, Rank
<1>3. \A q : FoundWaiting(start, served, q)' = FoundWaiting(start, served, q)
  BY <1>1 DEF FoundWaiting
<1>4. FoundWaiting(start, served, next) = Waiting
  <2>1. Waiting = {q \in 0 .. next - 1 : q \notin served}
    BY <1>1, RunTypes DEF Waiting, Rank
  <2> QED BY <1>2, <2>1 DEF FoundWaiting
<1>5. nwait = Cardinality(Waiting)
  BY DEF StructureInv, QueuesHoldWaiting
<1>6. ASSUME NEW q \in 0 .. next' - 1
      PROVE  ahead'[q] = Cardinality(FoundWaiting(start, served, q)')
  <2>1. q \in Rank
    BY <1>1, <1>2, RunTypes, <1>6 DEF Rank
  <2>2. CASE q = next
    BY <1>1, <1>3, <1>4, <1>5, <2>1, <2>2
  <2>3. CASE q # next
    <3>1. q \in 0 .. next - 1
      BY <1>1, <2>3, RunTypes, <1>6
    <3>2. ahead'[q] = ahead[q]
      BY <1>1, <2>1, <2>3
    <3> QED BY <1>3, <3>1, <3>2 DEF ArrivalsFound
  <2> QED BY <2>2, <2>3
<1>7. next' < N => \A o \in served' : start'[o] < a_us'[next']
  <2> SUFFICES ASSUME next' < N, NEW o \in served PROVE start[o] < a_us[next']
    BY <1>1
  <2>1. next' \in Rank /\ next <= next' /\ o \in Rank
    BY <1>1, RunTypes DEF Rank
  <2>2. a_us[next] <= a_us[next']
    BY <1>1, <2>1, RunTypes DEF TraceOK
  <2>3. a_us[next] \in Int /\ a_us[next'] \in Int /\ start[o] \in Int
    BY <1>1, <2>1, RunTypes
  <2> QED BY <1>2, <2>2, <2>3
<1> QED BY <1>6, <1>7 DEF ArrivalsFound

LEMMA DispatchKeepsFound ==
  ASSUME StructureInv, ScheduleFollowsClock, NoServerIdle, ArrivalsFound, DispatchEpoch,
         NEW j \in Waiting, served' = served \cup {j}, start' = [start EXCEPT ![j] = t],
         UNCHANGED <<a_us, next, ahead>>
  PROVE  ArrivalsFound'
<1>1. /\ j \in Rank /\ j \notin served /\ start'[j] = t
      /\ \A o \in served : o \in Rank /\ start'[o] = start[o]
  BY RunTypes DEF Waiting
<1>2. ASSUME NEW q \in 0 .. next - 1
      PROVE  FoundWaiting(start', served', q) = FoundWaiting(start, served, q)
  <2>1. q \in Rank /\ a_us[q] <= t
    BY RunTypes DEF ScheduleFollowsClock
  <2>2. ~(t < a_us[q])
    BY <2>1, RunTypes
  <2>3. ASSUME NEW r PROVE (r \in served' /\ start'[r] < a_us[q]) <=> (r \in served /\ start[r] < a_us[q])
    BY <1>1, <2>2
  <2> QED BY <2>3 DEF FoundWaiting
<1>3. next < N => \A o \in served' : start'[o] < a_us[next]
  <2> SUFFICES ASSUME next < N, NEW o \in served' PROVE start'[o] < a_us[next]
    OBVIOUS
  <2>1. next \in Rank
    BY RunTypes DEF Rank
  <2>2. t < a_us[next]
    BY <2>1, RunTypes DEF DispatchEpoch, ArrivalDue
  <2>3. CASE o = j
    BY <1>1, <2>2, <2>3
  <2>4. CASE o \in served
    BY <1>1, <2>4 DEF ArrivalsFound
  <2> QED BY <2>3, <2>4
<1>4. \A q : FoundWaiting(start, served, q)' = FoundWaiting(start', served', q)
  BY DEF FoundWaiting
<1> QED BY <1>2, <1>3, <1>4 DEF ArrivalsFound

\* What the kernel hands out is what the rule picks from the jobs started so far.
LEMMA ChosenIsPicked ==
  ASSUME StructureInv, ScheduleFollowsClock, AccountsAreSums, NoServerIdle, ArrivalsFound,
         DispatchEpoch, NEW j, Rule!Chosen(j)
  PROVE  /\ StillWaiting(served, t) = Waiting /\ OnServer(start, served, t) = run
         /\ Picked(start, served, t, score, j)
<1>1. OnServer(start, served, t) = run
  <2>1. \A o \in run : t < start[o] + s_us[o]
    BY RunTypes DEF DispatchEpoch, CompletionDue, Due, Done
  <2>2. \A o \in served \ run : ~(t < start[o] + s_us[o])
    BY RunTypes DEF NoServerIdle, Done
  <2> QED BY <2>1, <2>2, RunTypes DEF OnServer
<1>2. StillWaiting(served, t) = Waiting
  <2>1. \A q \in Waiting : a_us[q] <= t
    BY RunTypes DEF ScheduleFollowsClock, Waiting
  <2>2. ASSUME NEW q \in Rank, a_us[q] <= t PROVE q < next
    <3> SUFFICES ASSUME ~(q < next) PROVE FALSE
      OBVIOUS
    <3>1. next \in Rank /\ next <= q /\ next < N
      BY RunTypes DEF Rank
    <3>2. a_us[next] <= a_us[q] /\ ~(a_us[next] <= t)
      BY <3>1, RunTypes DEF TraceOK, DispatchEpoch, ArrivalDue
    <3> QED BY <2>2, <3>1, <3>2, RunTypes
  <2> QED BY <2>1, <2>2 DEF StillWaiting, Waiting
<1>3. ASSUME guarding, NEW q \in Waiting PROVE SpentBy(start, served, t, q) <=> Rule!Spent(q)
  <2>1. q \in Rank /\ q \in 0 .. next - 1
    BY RunTypes DEF Waiting
  <2>2. {o \in served : ~(t < start[o] + s_us[o]) /\ o > q} = {o \in served \ run : o > q}
    BY <1>1 DEF OnServer
  <2>3. ChargedTo(start, served, t, q) = completedWork - fenWork[q]
    BY <1>3, <2>1, <2>2, ChargedAgainst DEF ChargedTo
  <2>4. ahead[q] = Cardinality(FoundWaiting(start, served, q))
    BY <2>1 DEF ArrivalsFound
  <2> QED BY <2>3, <2>4 DEF SpentBy, Rule!Spent
<1>4. MustGo(start, served, t) = Rule!Fired
  <2>1. CASE pol.mode = "guard"
    BY <1>2, <1>3, <2>1 DEF MustGo, Rule!Fired, guarding
  <2>2. CASE pol.mode = "skip"
    <3>1. \A q \in Waiting : Cardinality({o \in served : o > q}) = dispatchedRanks - fenCount[q]
      BY <2>2, ChargedAgainst DEF Waiting, Overtakers
    <3> QED BY <1>2, <2>2, <3>1 DEF MustGo, Rule!Fired
  <2>3. CASE pol.mode = "fcfs"
    BY <1>2, <2>3 DEF MustGo, Rule!Fired
  <2>4. CASE pol.mode = "score"
    BY <2>4 DEF MustGo, Rule!Fired
  <2>5. pol.mode \in {"guard", "skip", "fcfs", "score"}
    BY AccountTypes DEF PolicyType, Modes
  <2> QED BY <2>1, <2>2, <2>3, <2>4, <2>5
<1>5. \A q : Rule!Before(j, q) <=> ScoredBefore(score, j, q)
  BY DEF Rule!Before, ScoredBefore
<1> QED BY <1>1, <1>2, <1>4, <1>5 DEF Picked, Rule!Chosen

\* A dispatch is the next step of the schedule that the rule makes.
LEMMA DispatchKeepsRule ==
  ASSUME RuledInv, \E j \in Rank : DispatchHead(j) \/ DispatchForced(j) \/ DispatchBase(j)
  PROVE  FollowsRule(start, dispatchIndex, served, score)' /\ ArrivalsFound'
<1>0. /\ StructureInv /\ ScheduleFollowsClock /\ AccountsAreSums /\ NoServerIdle /\ StartsInOrder
      /\ ArrivalsFound /\ FollowsRule(start, dispatchIndex, served, score)
  BY DEF RuledInv, ScheduleInv, KernelInv
<1>1. PICK j \in Rank :
           /\ Rule!Chosen(j) /\ j \in Waiting /\ CanDispatch /\ served' = served \cup {j}
           /\ start' = [start EXCEPT ![j] = t]
           /\ dispatchIndex' = [dispatchIndex EXCEPT ![j] = ndisp]
           /\ UNCHANGED <<inputs, t, next>>
  BY <1>0, DispatchedJob
<1>2. DispatchEpoch /\ UNCHANGED ahead
  BY DEF DispatchHead, DispatchForced, DispatchBase, Dispatch
<1>3. /\ j \notin served /\ start'[j] = t /\ dispatchIndex'[j] = ndisp
      /\ \A o \in served : /\ start'[o] = start[o] /\ dispatchIndex'[o] = dispatchIndex[o]
                           /\ o \in Rank /\ dispatchIndex[o] < ndisp /\ start[o] <= t
      /\ UNCHANGED <<a_us, s_us, score, pol, next>>
  <2>1. \A o \in served : dispatchIndex[o] \in 0 .. ndisp - 1 /\ start[o] <= t /\ o \in Rank
    BY <1>0, RunTypes DEF StartsInOrder, NoServerIdle
  <2>2. \A o \in served : dispatchIndex[o] < ndisp
    BY <1>0, <2>1, RunTypes
  <2> QED BY <1>0, <1>1, <2>1, <2>2, RunTypes DEF Waiting, inputs
<1>4. ArrivalsFound'
  BY <1>0, <1>1, <1>2, <1>3, DispatchKeepsFound
<1>5. Earlier(dispatchIndex', served', j) = served
  BY <1>0, <1>1, <1>3, RunTypes DEF Earlier
<1>6. ASSUME NEW o \in served
      PROVE  Earlier(dispatchIndex', served', o) = Earlier(dispatchIndex, served, o)
  <2>1. ~(ndisp < dispatchIndex[o])
    BY <1>0, <1>3, RunTypes
  <2> QED BY <1>1, <1>3, <2>1 DEF Earlier
<1>7. ASSUME NEW o \in served
      PROVE  Handed(start', Earlier(dispatchIndex, served, o), score, o)
  <2> DEFINE P == Earlier(dispatchIndex, served, o)
  <2>1. Handed(start, P, score, o)
    BY <1>0 DEF FollowsRule
  <2>2. (\A p \in P : start'[p] = start[p]) /\ start'[o] = start[o]
    BY <1>3 DEF Earlier
  <2> HIDE DEF P
  <2>3. /\ \A u : FreeServer(start', P, u) = FreeServer(start, P, u)
        /\ \A u, sc, i : Picked(start', P, u, sc, i) = Picked(start, P, u, sc, i)
    BY <2>2, SameSoFar
  <2>4. Handed(start', P, score, o)
    BY <2>1, <2>2, <2>3 DEF Handed
  <2> QED BY <2>4 DEF P
<1>8. Handed(start', served, score, j)
  <2>1. /\ StillWaiting(served, t) = Waiting /\ OnServer(start, served, t) = run
        /\ Picked(start, served, t, score, j)
    BY <1>0, <1>1, <1>2, ChosenIsPicked
  <2>2. FreeServer(start, served, t)
    BY <1>1, <2>1 DEF FreeServer, CanDispatch
  <2>3. ASSUME NEW u \in Nat, u < t, \A o \in served : start[o] <= u,
               NEW q \in StillWaiting(served, u)
        PROVE  ~FreeServer(start, served, u)
    <3>1. q \in Rank /\ q \notin served /\ a_us[q] <= u
      BY DEF StillWaiting
    <3>2. q \in 0 .. next - 1
      <4> SUFFICES ASSUME ~(q < next) PROVE FALSE
        BY <1>0, <3>1, RunTypes
      <4>0. N \in Nat /\ next \in 0 .. N
        BY <1>0, RunTypes
      <4>1. next \in Rank /\ next <= q /\ next < N
        BY <3>1, <4>0 DEF Rank
      <4>2. t <= a_us[next] /\ a_us[next] <= a_us[q]
        BY <1>0, <3>1, <4>1, RunTypes DEF NoServerIdle, TraceOK
      <4> QED BY <1>0, <2>3, <3>1, <4>1, <4>2, RunTypes
    <3>3. Cardinality(ExecutingNow(u)) = K
      BY <1>0, <2>3, <3>1, <3>2 DEF NoServerIdle
    <3>4. ExecutingNow(u) = OnServer(start, served, u)
      BY <2>3 DEF ExecutingNow, OnServer, Done
    <3> QED BY <1>0, <3>3, <3>4, RunTypes DEF FreeServer
  <2>4. /\ \A u : FreeServer(start', served, u) = FreeServer(start, served, u)
        /\ \A u, sc, i : Picked(start', served, u, sc, i) = Picked(start, served, u, sc, i)
    BY <1>3, SameSoFar
  <2>5. \A u \in Nat : u < t /\ (\A o \in served : start'[o] <= u) =>
          ~FreeServer(start', served, u) \/ StillWaiting(served, u) = {}
    BY <1>3, <2>3, <2>4
  <2> QED BY <1>3, <2>1, <2>2, <2>4, <2>5 DEF Handed
<1>9. \A o \in served' : Handed(start', Earlier(dispatchIndex', served', o), score, o)
  <2> TAKE o \in served'
  <2>1. CASE o = j
    BY <1>5, <1>8, <2>1
  <2>2. CASE o \in served
    BY <1>6, <1>7, <2>2
  <2> QED BY <1>1, <2>1, <2>2
<1>10. FollowsRule(start, dispatchIndex, served, score)'
         <=> \A o \in served' : Handed(start', Earlier(dispatchIndex', served', o), score, o)
  BY <1>3
      DEF FollowsRule, Handed, Earlier, Picked, StillWaiting, MustGo, SpentBy, ChargedTo,
          FoundWaiting, FreeServer, OnServer
<1> QED BY <1>4, <1>9, <1>10

LEMMA RuledStep ==
  ASSUME RuledInv, [Next]_vars
  PROVE  RuledInv'
<1>0. StructureInv /\ ScheduleFollowsClock /\ NoServerIdle /\ ArrivalsFound /\ ScheduleInv
  BY DEF RuledInv, ScheduleInv, KernelInv
<1>1. ScheduleInv'
  BY <1>0, ScheduleInvStep
<1>2. CASE \E j \in Rank : DispatchHead(j) \/ DispatchForced(j) \/ DispatchBase(j)
  BY <1>1, <1>2, DispatchKeepsRule DEF RuledInv
<1>3. CASE \/ \E c \in Rank : ApplyCompletion(c)
           \/ AdmitArrival \/ WindowOverflow \/ AdvanceClock \/ Finished \/ UNCHANGED vars
  <2>1. UNCHANGED <<a_us, s_us, pol, score, served, start, dispatchIndex>>
    BY <1>3
    DEF ApplyCompletion, AdmitArrival, WindowOverflow, AdvanceClock, Finished, vars, inputs, resultVars
  <2>2. FollowsRule(start, dispatchIndex, served, score)'
    <3>1. FollowsRule(start, dispatchIndex, served, score)'
            <=> \A o \in served : Handed(start, Earlier(dispatchIndex, served, o), score, o)
      BY <2>1
      DEF FollowsRule, Handed, Earlier, Picked, StillWaiting, MustGo, SpentBy, ChargedTo,
          FoundWaiting, FreeServer, OnServer
    <3> QED BY <3>1 DEF RuledInv, FollowsRule
  <2>3. ArrivalsFound'
    <3>1. CASE AdmitArrival
      BY <1>0, <3>1, ArrivalKeepsFound
    <3>2. CASE ~AdmitArrival
      <4>1. UNCHANGED <<next, ahead>>
        BY <1>3, <3>2
        DEF ApplyCompletion, WindowOverflow, AdvanceClock, Finished, vars, windowVars
      <4> QED BY <1>0, <2>1, <4>1 DEF ArrivalsFound, FoundWaiting
    <3> QED BY <3>1, <3>2
  <2> QED BY <1>1, <2>2, <2>3 DEF RuledInv
<1> QED BY <1>2, <1>3 DEF Next

LEMMA RuledInitial == Init => RuledInv
<1> SUFFICES ASSUME Init PROVE RuledInv
  OBVIOUS
<1>1. served = {} /\ next = 0
  BY DEF Init, Idle
<1> QED BY <1>1, InitSchedule DEF RuledInv, ArrivalsFound, FollowsRule

\* A run that has ended is a schedule that the rule makes of its scores.
LEMMA FinishedIsRuled ==
  ASSUME RuledInv, RunComplete
  PROVE  RuledBy(start, dispatchIndex, score)
<1>1. ScheduleInv /\ StructureInv /\ ScheduleFollowsClock /\ StartsInOrder /\ TraceOK /\ KernelInv
  BY DEF RuledInv, ScheduleInv, KernelInv, StructureInv, TypeOK, InputsOK
<1>2. served = Rank /\ \A i \in Rank : start[i] \in Int /\ a_us[i] \in Nat /\ start[i] >= a_us[i]
  <2>1. served = Rank /\ start \in [Rank -> Int]
    BY <1>1, FinishedSchedule
  <2> QED BY <1>1, <2>1, RunTypes DEF ScheduleFollowsClock
<1>3. start \in [Rank -> Nat]
  <2>1. \A i \in Rank : start[i] \in Nat
    BY <1>1, <1>2, RunTypes
  <2> QED BY <1>1, <2>1, RunTypes
<1>4. score \in [Rank -> Int]
  BY <1>1, ScoreAssumption DEF StructureInv, TypeOK, InputsOK, ScoreAssumption
<1>5. dispatchIndex \in [Rank -> Rank]
  <2>1. \A i \in Rank : dispatchIndex[i] \in Rank
    BY <1>1, <1>2 DEF StartsInOrder, RunComplete, Rank
  <2> QED BY <1>1, <2>1, RunTypes
<1>6. \A i, j \in Rank : dispatchIndex[i] = dispatchIndex[j] => i = j
  BY <1>1, <1>2 DEF StartsInOrder
<1>7. dispatchIndex \in Surjection(Rank, Rank)
  <2>1. dispatchIndex \in Injection(Rank, Rank)
    BY <1>5, <1>6 DEF Injection, IsInjective
  <2> QED BY <1>1, <2>1, TraceTypes, FS_Injection
<1>8. \A n \in Rank : \E j \in Rank : dispatchIndex[j] = n
  BY <1>7 DEF Surjection
<1>9. FollowsRule(start, dispatchIndex, Rank, score)
  BY <1>2 DEF RuledInv
<1> QED BY <1>3, <1>4, <1>5, <1>6, <1>8, <1>9 DEF RuledBy

\* Nothing but the trace, the policy and the scores decides a schedule: whatever entry the
\* run heap pops among equal completion times, every finished run has the same starts
\* (RuledBy has one solution).
THEOREM ScheduleIsDetermined ==
  Spec => [](RunComplete => /\ RuledBy(start, dispatchIndex, score)
                            /\ \A st, ix : RuledBy(st, ix, score) => st = start)
<1>1. RuledInv /\ RunComplete => /\ RuledBy(start, dispatchIndex, score)
                                 /\ \A st, ix : RuledBy(st, ix, score) => st = start
  <2> SUFFICES ASSUME RuledInv, RunComplete, NEW st, NEW ix, RuledBy(st, ix, score)
               PROVE  st = start
    BY FinishedIsRuled
  <2>1. RuledBy(start, dispatchIndex, score) /\ TraceOK
    BY FinishedIsRuled DEF RuledInv, ScheduleInv, KernelInv, StructureInv, TypeOK, InputsOK
  <2>2. ASSUME NEW j \in Rank PROVE st[j] = start[j]
    <3>1. start[j] \in Nat
      BY <2>1 DEF RuledBy
    <3>2. start[j] + 1 \in Int /\ start[j] < start[j] + 1
      BY <3>1
    <3> QED BY <2>1, <3>2, StartsAgree
  <2> QED BY <2>1, <2>2 DEF RuledBy
<1>2. RuledInv /\ [Next]_vars => RuledInv'
  BY RuledStep
<1> QED BY <1>1, <1>2, RuledInitial, PTL DEF Spec
=============================================================================
