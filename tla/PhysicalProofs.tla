--------------------------- MODULE PhysicalProofs ---------------------------
(***************************************************************************)
(* Proofs about the physical service, for any number of jobs and workers,  *)
(* any input, any delay of the dispatcher, of the pipes and of the workers *)
(* and any crash: the event file passes the audit, no job is overtaken by  *)
(* more than its budget and one job per worker, no job waits longer than   *)
(* the bound corrected for the stalls, and the dispatcher fails only if a  *)
(* worker exits.                                                           *)
(***************************************************************************)
EXTENDS PhysicalProperties, WorkTheorems, SequenceTheorems

---------------------------------------------------------------------------
(* The inductive invariant.                                                *)

Dispatched == {j \in Jobs : row[j].dispatch # Unknown}
Given == {busy[w] : w \in Workers} \ {NoJob}
Moments == Nat \cup {Unknown}
Answers == [job : Jobs \cup {NoJob}, start : Nat, finish : Nat]
EventTypes ==
  [type : {"enqueue"}, job : Jobs, at : Nat, ahead : Nat]
    \cup [type : {"dispatch"}, job : Jobs, worker : Workers, at : Nat, fired : SUBSET Jobs]
    \cup [type : {"completion"}, job : Jobs, worker : Workers, at : Nat, held : Nat]

Types ==
  /\ config \in Configs /\ policy \in {"FCFS", "SPJF-E", "Guard"}
  /\ release \in [Jobs -> Nat] /\ requested \in [Jobs -> Nat \ {0}] /\ score \in [Jobs -> Int]
  /\ clock \in Nat /\ scanned \in Nat /\ scanned <= clock /\ crashes \in Nat
  /\ nextArrival \in 1 .. N + 1
  /\ row \in [Jobs -> [enqueue : Moments, dispatch : Moments, start : Moments, finish : Moments]]
  /\ busy \in [Workers -> Jobs \cup {NoJob}] /\ command \in [Workers -> Jobs \cup {NoJob}]
  /\ running \in [Workers -> Answers] /\ reply \in [Workers -> Answers]
  /\ status \in [Workers -> {"starting", "idle", "running", "exited"}]
  /\ log \in Seq(EventTypes)

\* A worker has at most one job, the one the dispatcher gave it and waits for, and
\* that job is in exactly one place: the pipe to it, its hands or the pipe from it.
\* What the dispatcher was told is ready still is.
WorkerInv(w) ==
  /\ command[w] # NoJob =>
       command[w] = busy[w] /\ status[w] # "running" /\ reply[w] = Nothing
  /\ status[w] = "running" =>
       /\ running[w].job = busy[w] /\ busy[w] # NoJob /\ running[w].start <= clock
       /\ reply[w] = Nothing
  /\ reply[w] # Nothing =>
       /\ reply[w].job = busy[w] /\ busy[w] # NoJob
       /\ reply[w].start <= reply[w].finish /\ reply[w].finish <= clock
  /\ <<w, "reply">> \in ready => reply[w] # Nothing
  /\ <<w, "exit">> \in ready => status[w] = "exited"
  /\ status[w] = "exited" => crashes > 0 \/ pc \in {"stopping", "ended"}
ProcessesInv == FailsOnlyOnExit /\ \A w \in Workers : WorkerInv(w)

\* The rows record what has happened to each job, in its order; the dispatched jobs
\* that have not completed are those the workers were given, one each.
RowsInv ==
  /\ \A j \in Jobs :
       /\ row[j].enqueue # Unknown <=> j < nextArrival
       /\ row[j].enqueue <= clock /\ row[j].dispatch <= clock
       /\ j \in Completed => row[j].start # Unknown /\ row[j].start <= row[j].finish
       /\ j \notin Completed => row[j].start = Unknown
       /\ j \in Dispatched => j < nextArrival
  /\ waiting = {j \in Jobs : j < nextArrival} \ Dispatched
  /\ Completed \subseteq Dispatched /\ Given = Dispatched \ Completed
  /\ \A v, w \in Workers : busy[v] = busy[w] /\ busy[v] # NoJob => v = w
  /\ pc = "rescan" => Dispatchable
  /\ pc \in {"stopping", "ended"} /\ ~failed => Completed = Jobs

\* The file tells the rows.
LogInv ==
  /\ JobsOf("enqueue", log) = {j \in Jobs : j < nextArrival}
  /\ JobsOf("dispatch", log) = Dispatched
  /\ JobsOf("completion", log) = Completed
  /\ \A i \in DOMAIN log : log[i].at <= clock
  /\ \A i \in Events("enqueue", log) : log[i].at = row[log[i].job].enqueue
  /\ \A i \in Events("completion", log) : log[i].held = Held[log[i].job]
  /\ \A i, k \in Events("dispatch", log) : log[i].job = log[k].job => i = k
  /\ \A w \in Workers : InHand(w, log) = {busy[w]} \ {NoJob}

\* Of the later jobs dispatched past a job, those that had completed when the last of
\* them was dispatched had not used up its budget, and the others are at most one per
\* worker.
PassedBy(j) ==
  {i \in Dispatched : i > j /\ (j \in Dispatched => Position(i) < Position(j))}
Passed(j) == IF j \in Dispatched THEN row[j].dispatch ELSE clock
WithinBudget(j, C) ==
  /\ Work(C) < Bmax /\ Work(C) < B0 + EtaK * (Passed(j) - row[j].enqueue)
  /\ Cardinality(PassedBy(j) \ C) <= K
CapInv ==
  policy = "Guard" =>
    \A j \in Jobs : j < nextArrival /\ PassedBy(j) # {} =>
      \E C \in SUBSET (PassedBy(j) \cap Completed) : WithinBudget(j, C)

PhysicalInv == Types /\ ProcessesInv /\ RowsInv /\ LogInv /\ CapInv /\ AuditPasses

---------------------------------------------------------------------------
(* Sizes, and what a longer file tells.                                    *)

LEMMA Sizes ==
  ASSUME Types
  PROVE  /\ N \in Nat /\ N > 0 /\ Jobs = 1 .. N /\ IsFiniteSet(Jobs) /\ NoJob \notin Jobs
         /\ Workers \subseteq Nat /\ Workers # {} /\ IsFiniteSet(Workers) /\ K \in Nat
         /\ B0 \in Nat /\ EtaK \in Nat /\ Bmax \in Nat /\ Window \in Nat
<1>1. /\ N \in Nat /\ N > 0 /\ Workers \in SUBSET WorkerIds /\ Workers # {}
      /\ B0 \in Nat /\ EtaK \in Nat /\ Bmax \in Nat /\ Window \in Nat
  BY ConfigAssumption DEF ConfigAssumption, Types, N, Workers, B0, EtaK, Bmax, Window
<1>2. Jobs = 1 .. N /\ IsFiniteSet(Jobs) /\ NoJob \notin Jobs
  BY <1>1, FS_Interval, NoJobAssumption DEF Jobs, NoJobAssumption
<1>3. Workers \subseteq Nat /\ IsFiniteSet(Workers) /\ K \in Nat
  BY <1>1, FS_Subset, FS_CardinalityType, ConfigAssumption DEF ConfigAssumption, K
<1> QED BY <1>1, <1>2, <1>3

LEMMA InputKept ==
  ASSUME UNCHANGED input
  PROVE  /\ N' = N /\ Jobs' = Jobs /\ Workers' = Workers /\ K' = K /\ EventTypes' = EventTypes
         /\ B0' = B0 /\ EtaK' = EtaK /\ Bmax' = Bmax /\ Window' = Window /\ Answers' = Answers
         /\ UNCHANGED <<config, policy, release, requested, score>>
  BY DEF input, N, Jobs, Workers, K, EventTypes, B0, EtaK, Bmax, Window, Answers

LEMMA Appended ==
  ASSUME NEW S, NEW s \in Seq(S), NEW e \in S
  PROVE  /\ Append(s, e) \in Seq(S) /\ Append(s, e) # <<>>
         /\ Len(s) \in Nat /\ Len(Append(s, e)) = Len(s) + 1
         /\ DOMAIN s = 1 .. Len(s) /\ DOMAIN Append(s, e) = 1 .. Len(s) + 1
         /\ \A i \in 1 .. Len(s) : Append(s, e)[i] = s[i]
         /\ Append(s, e)[Len(s) + 1] = e
         /\ SubSeq(Append(s, e), 1, Len(Append(s, e)) - 1) = s
  BY AppendProperties

LEMMA EventsAppended ==
  ASSUME NEW S, NEW s \in Seq(S), NEW e \in S, NEW type
  PROVE  /\ Events(type, s) \subseteq 1 .. Len(s)
         /\ Events(type, Append(s, e))
              = Events(type, s) \cup (IF e.type = type THEN {Len(s) + 1} ELSE {})
         /\ JobsOf(type, Append(s, e))
              = JobsOf(type, s) \cup (IF e.type = type THEN {e.job} ELSE {})
<1> DEFINE t == Append(s, e)
<1>1. /\ Len(s) \in Nat /\ DOMAIN s = 1 .. Len(s) /\ DOMAIN t = 1 .. Len(s) + 1
      /\ \A i \in 1 .. Len(s) : t[i] = s[i]
      /\ t[Len(s) + 1] = e
  BY Appended
<1> HIDE DEF t
<1>2. Events(type, s) \subseteq 1 .. Len(s)
  BY <1>1 DEF Events
<1>3. Events(type, t) = Events(type, s) \cup (IF e.type = type THEN {Len(s) + 1} ELSE {})
  <2>1. 1 .. Len(s) + 1 = (1 .. Len(s)) \cup {Len(s) + 1} /\ Len(s) + 1 \notin 1 .. Len(s)
    BY <1>1
  <2> QED BY <1>1, <2>1 DEF Events
<1>4. {t[i].job : i \in Events(type, s)} = {s[i].job : i \in Events(type, s)}
  BY <1>1, <1>2
<1>5. JobsOf(type, t) = JobsOf(type, s) \cup (IF e.type = type THEN {e.job} ELSE {})
  BY <1>1, <1>3, <1>4 DEF JobsOf
<1> QED BY <1>2, <1>3, <1>5 DEF t

LEMMA InHandAppended ==
  ASSUME NEW S, NEW s \in Seq(S), NEW e \in S, NEW w
  PROVE  /\ e.type = "enqueue" => InHand(w, Append(s, e)) = InHand(w, s)
         /\ e.type = "dispatch" /\ e.job \notin JobsOf("completion", s) =>
              InHand(w, Append(s, e))
                = InHand(w, s) \cup (IF e.worker = w THEN {e.job} ELSE {})
         /\ e.type = "completion" => InHand(w, Append(s, e)) = InHand(w, s) \ {e.job}
<1> DEFINE t == Append(s, e)
           To(p) == {k \in Events("dispatch", p) : p[k].worker = w}
           Got(p) == {p[i].job : i \in To(p)}
<1>1. /\ Len(s) \in Nat /\ \A i \in 1 .. Len(s) : t[i] = s[i]
      /\ t[Len(s) + 1] = e
  BY Appended
<1>2. /\ Events("dispatch", s) \subseteq 1 .. Len(s)
      /\ Events("dispatch", t)
           = Events("dispatch", s) \cup (IF e.type = "dispatch" THEN {Len(s) + 1} ELSE {})
  BY EventsAppended
<1>3. JobsOf("completion", t)
        = JobsOf("completion", s) \cup (IF e.type = "completion" THEN {e.job} ELSE {})
  BY EventsAppended
<1> HIDE DEF t
<1>4. To(t) = To(s) \cup (IF e.type = "dispatch" /\ e.worker = w THEN {Len(s) + 1} ELSE {})
  BY <1>1, <1>2
<1>5. Got(t) = Got(s) \cup (IF e.type = "dispatch" /\ e.worker = w THEN {e.job} ELSE {})
  <2>1. To(s) \subseteq 1 .. Len(s)
    BY <1>2
  <2> HIDE DEF To
  <2> QED BY <1>1, <1>4, <2>1
<1>6. InHand(w, s) = Got(s) \ JobsOf("completion", s)
      /\ InHand(w, t) = Got(t) \ JobsOf("completion", t)
  BY DEF InHand
<1> HIDE DEF Got
<1>7. "enqueue" # "dispatch" /\ "completion" # "dispatch" /\ "enqueue" # "completion"
  OBVIOUS
<1> QED BY <1>3, <1>5, <1>6, <1>7 DEF t

---------------------------------------------------------------------------
(* What the file tells is what the dispatcher knows, and its choice is the *)
(* one the audit expects.                                                  *)

LEMMA HeldTypes ==
  ASSUME Types, RowsInv
  PROVE  Held \in [Jobs -> Nat] /\ IsFiniteSet(Completed) /\ Completed \subseteq Jobs
<1>1. \A j \in Jobs : Held[j] \in Nat
  <2> TAKE j \in Jobs
  <2>1. row[j].start \in Moments /\ row[j].finish \in Moments
    BY DEF Types
  <2>2. CASE j \in Completed
    BY <2>1, <2>2 DEF RowsInv, Held, Moments, Unknown
  <2>3. CASE j \notin Completed
    <3>1. row[j].start = Unknown /\ row[j].finish = Unknown
      BY <2>3 DEF RowsInv, Completed
    <3> QED BY <3>1 DEF Held, Unknown
  <2> QED BY <2>2, <2>3
<1>2. IsFiniteSet(Completed) /\ Completed \subseteq Jobs
  BY Sizes, FS_Subset DEF Completed
<1> QED BY <1>1, <1>2 DEF Held

LEMMA OneEventEach ==
  ASSUME Types, LogInv, NEW j
  PROVE  /\ j \in JobsOf("enqueue", log) => EventOf("enqueue", j, log).at = row[j].enqueue
         /\ j \in JobsOf("completion", log) => EventOf("completion", j, log).held = Held[j]
<1>1. ASSUME j \in JobsOf("enqueue", log)
      PROVE  EventOf("enqueue", j, log).at = row[j].enqueue
  <2> DEFINE i == CHOOSE k \in Events("enqueue", log) : log[k].job = j
  <2>1. i \in Events("enqueue", log) /\ log[i].job = j
    BY <1>1 DEF JobsOf
  <2> HIDE DEF i
  <2>2. log[i].at = row[j].enqueue
    BY <2>1 DEF LogInv
  <2> QED BY <2>2 DEF i, EventOf
<1>2. ASSUME j \in JobsOf("completion", log)
      PROVE  EventOf("completion", j, log).held = Held[j]
  <2> DEFINE i == CHOOSE k \in Events("completion", log) : log[k].job = j
  <2>1. i \in Events("completion", log) /\ log[i].job = j
    BY <1>2 DEF JobsOf
  <2> HIDE DEF i
  <2>2. log[i].held = Held[j]
    BY <2>1 DEF LogInv
  <2> QED BY <2>2 DEF i, EventOf
<1> QED BY <1>1, <1>2

LEMMA FileTellsState ==
  ASSUME Types, RowsInv, LogInv
  PROVE  /\ Queue(log) = waiting /\ waiting \subseteq Jobs
         /\ \A j \in waiting : EventOf("enqueue", j, log).at = row[j].enqueue
         /\ \A j \in Jobs : Charged(j, log) = Over(j) /\ Over(j) \in Nat
         /\ ExpectedFired(clock, log) = Fired(clock)
<1>1. Queue(log) = waiting /\ waiting \subseteq Jobs
  BY DEF Queue, LogInv, RowsInv
<1>2. \A j \in waiting : EventOf("enqueue", j, log).at = row[j].enqueue
  BY OneEventEach DEF RowsInv, LogInv
<1>3. ASSUME NEW j \in Jobs PROVE Charged(j, log) = Over(j) /\ Over(j) \in Nat
  <2> DEFINE later == {i \in Completed : i > j}
             told == [i \in Completed |-> EventOf("completion", i, log).held]
  <2>1. JobsOf("completion", log) = Completed
    BY DEF LogInv
  <2>2. \A i \in later : told[i] = Held[i]
    BY <2>1, OneEventEach
  <2>3. Charged(j, log) = WorkOf(later, told)
    BY <2>1 DEF Charged
  <2>4. IsFiniteSet(later) /\ \A i \in later : Held[i] \in Nat
    BY HeldTypes, FS_Subset
  <2>5. Over(j) = WorkOf(later, Held)
    BY DEF Over, Work
  <2> HIDE DEF later, told
  <2> QED BY <2>2, <2>3, <2>4, <2>5, WorkOfSameCosts, WorkType
<1>4. ASSUME NEW j \in waiting
      PROVE  Over(j) >= Budget(j, clock) <=> SpentAt(j, clock, log)
  <2>1. Over(j) \in Nat /\ Charged(j, log) = Over(j)
    BY <1>1, <1>3
  <2>2. EventOf("enqueue", j, log).at = row[j].enqueue
    BY <1>2
  <2>3. B0 + EtaK * (clock - row[j].enqueue) \in Int /\ Bmax \in Int
    <3>1. row[j].enqueue \in Int /\ clock \in Int
      BY <1>1 DEF Types, Moments, Unknown
    <3> QED BY <3>1, Sizes
  <2> QED BY <2>1, <2>2, <2>3 DEF SpentAt, Budget
<1>5. ExpectedFired(clock, log) = Fired(clock)
  BY <1>1, <1>4 DEF ExpectedFired, Fired
<1> QED BY <1>1, <1>2, <1>3, <1>5

LEMMA LeastOf ==
  ASSUME Types, NEW S \in SUBSET Jobs, S # {}
  PROVE  Min(S) \in S /\ \A i \in S : Min(S) <= i
<1>1. S \in SUBSET Nat
  BY Sizes
<1>2. \E x \in S : \A y \in S : x <= y
  BY <1>1, NatMin
<1> QED BY <1>2 DEF Min

LEMMA ChosenIsExpected ==
  ASSUME Types, RowsInv, LogInv, waiting # {}
  PROVE  /\ Chosen(clock) \in waiting /\ Expected(Chosen(clock), clock, log)
         /\ \A j \in Fired(clock) : Chosen(clock) <= j
<1>1. /\ Queue(log) = waiting /\ waiting \in SUBSET Jobs /\ ExpectedFired(clock, log) = Fired(clock)
      /\ Fired(clock) \in SUBSET waiting
  BY FileTellsState DEF Fired
<1>2. CASE Fired(clock) # {}
  <2>1. Chosen(clock) = Min(Fired(clock))
    BY <1>2 DEF Chosen
  <2>2. Min(Fired(clock)) \in Fired(clock) /\ \A i \in Fired(clock) : Min(Fired(clock)) <= i
    BY <1>1, <1>2, LeastOf
  <2> QED BY <1>1, <1>2, <2>1, <2>2 DEF Expected
<1>3. CASE Fired(clock) = {}
  <2>1. Chosen(clock) = BaseChoice
    BY <1>3 DEF Chosen
  <2>2. BaseChoice \in waiting /\ \A i \in waiting : Precedes(BaseChoice, i)
    <3>1. CASE policy = "FCFS"
      BY <1>1, <3>1, LeastOf DEF BaseChoice, Precedes
    <3>2. CASE policy # "FCFS"
      <4>1. IsFiniteSet(Jobs) /\ Jobs \subseteq Int /\ \A j \in Jobs : score[j] \in Int
        BY Sizes DEF Types
      <4>2. IsFiniteSet(waiting) /\ waiting \subseteq Int /\ \A j \in waiting : score[j] \in Int
        BY <1>1, <4>1, FS_Subset
      <4>3. \E j \in waiting : \A i \in waiting :
              score[j] < score[i] \/ (score[j] = score[i] /\ j <= i)
        BY <4>2, BestExists
      <4> QED BY <3>2, <4>3 DEF BaseChoice, Precedes
    <3> QED BY <3>1, <3>2
  <2> QED BY <1>1, <1>3, <2>1, <2>2 DEF Expected
<1> QED BY <1>2, <1>3

---------------------------------------------------------------------------
(* Steps that add an event to the file.                                    *)

\* The new event is audited against the file as it was.
LEMMA AuditGrows ==
  ASSUME Types, UNCHANGED input, NEW e \in EventTypes, log' = Append(log, e),
         \A i \in DOMAIN log : log[i].at <= e.at,
         e.type = "enqueue" => EnqueueOK(e, log),
         e.type = "dispatch" => DispatchOK(e, log),
         e.type = "completion" => InHand(e.worker, log) = {e.job} /\ e.held = Held'[e.job],
         ~RunOver'
  PROVE  AuditPasses'
<1> DEFINE past == SubSeq(log', 1, Len(log') - 1)
<1>1. log \in Seq(EventTypes) /\ Len(log) \in Nat /\ DOMAIN log = 1 .. Len(log)
  BY DEF Types
<1>2. past = log /\ log'[Len(log')] = e
  BY <1>1, Appended
<1>3. log # <<>> => log[Len(log)].at <= e.at
  BY <1>1
<1>4. UNCHANGED <<config, policy, release, requested, score>>
      /\ B0' = B0 /\ EtaK' = EtaK /\ Bmax' = Bmax
  BY InputKept
<1>5. EnqueueOK(log[Len(log)], SubSeq(log, 1, Len(log) - 1))' <=> EnqueueOK(e, log)
  BY <1>2, <1>4 DEF EnqueueOK
<1>6. DispatchOK(log[Len(log)], SubSeq(log, 1, Len(log) - 1))' <=> DispatchOK(e, log)
  BY <1>2, <1>4 DEF DispatchOK, Expected, ExpectedFired, SpentAt, Precedes
<1>7. CompletionOK(log[Len(log)], SubSeq(log, 1, Len(log) - 1))'
        <=> InHand(e.worker, log) = {e.job} /\ e.held = Held'[e.job]
  BY <1>2, <1>4 DEF CompletionOK
<1>8. EventOK(log[Len(log)], SubSeq(log, 1, Len(log) - 1))'
  BY <1>2, <1>3, <1>5, <1>6, <1>7 DEF EventOK
<1> QED BY <1>8 DEF AuditPasses

\* Dispatched jobs keep their place in the file.
LEMMA PositionKept ==
  ASSUME Types, LogInv, NEW e \in EventTypes, log' = Append(log, e),
         NEW i \in JobsOf("dispatch", log), e.type = "dispatch" => e.job # i
  PROVE  Position(i)' = Position(i) /\ Position(i) \in 1 .. Len(log)
<1>1. PICK k \in Events("dispatch", log) : log[k].job = i
  BY DEF JobsOf
<1>2. \A x \in Events("dispatch", log) : log[x].job = i => x = k
  BY <1>1 DEF LogInv
<1>3. Position(i) = k
  BY <1>1, <1>2 DEF Position
<1>4. /\ Events("dispatch", log) \subseteq 1 .. Len(log)
      /\ Events("dispatch", log')
           = Events("dispatch", log) \cup (IF e.type = "dispatch" THEN {Len(log) + 1} ELSE {})
  BY EventsAppended DEF Types
<1>5. (\A x \in 1 .. Len(log) : log'[x] = log[x]) /\ log'[Len(log) + 1] = e
  BY Appended DEF Types
<1>6. /\ k \in Events("dispatch", log') /\ log'[k].job = i
      /\ \A x \in Events("dispatch", log') : log'[x].job = i => x = k
  BY <1>1, <1>2, <1>4, <1>5
<1>7. Position(i)' = k
  <2>1. (CHOOSE x \in Events("dispatch", log') : log'[x].job = i) = k
    BY <1>6
  <2> QED BY <2>1 DEF Position
<1> QED BY <1>1, <1>3, <1>4, <1>7

\* A split of the jobs that passed j stays within its budget while nobody passes.
LEMMA SplitKept ==
  ASSUME Types, RowsInv, NEW j \in Jobs, UNCHANGED input,
         PassedBy(j)' = PassedBy(j), row'[j].enqueue = row[j].enqueue,
         Passed(j) \in Int, Passed(j)' \in Int, Passed(j) <= Passed(j)',
         Completed \subseteq Completed', \A i \in Completed : Held'[i] = Held[i],
         NEW C \in SUBSET (PassedBy(j) \cap Completed), WithinBudget(j, C)
  PROVE  C \in SUBSET (PassedBy(j)' \cap Completed') /\ WithinBudget(j, C)'
<1>1. Work(C)' = Work(C)
  <2>1. WorkOf(C, Held') = WorkOf(C, Held)
    BY WorkOfSameCosts
  <2> QED BY <2>1 DEF Work
<1>2. Work(C) \in Nat
  BY HeldTypes, FS_Subset, WorkType DEF Work
<1>3. B0' = B0 /\ EtaK' = EtaK /\ Bmax' = Bmax /\ K' = K
  BY InputKept
<1>4. EtaK * (Passed(j) - row[j].enqueue) <= EtaK * (Passed(j)' - row[j].enqueue)
      /\ EtaK * (Passed(j) - row[j].enqueue) \in Int /\ EtaK * (Passed(j)' - row[j].enqueue) \in Int
  <2>1. EtaK \in Nat /\ row[j].enqueue \in Int
    BY Sizes DEF Types, Moments, Unknown
  <2>2. \A a, b \in Int : a <= b => EtaK * a <= EtaK * b /\ EtaK * a \in Int /\ EtaK * b \in Int
    BY <2>1
  <2>3. /\ Passed(j) - row[j].enqueue \in Int /\ Passed(j)' - row[j].enqueue \in Int
        /\ Passed(j) - row[j].enqueue <= Passed(j)' - row[j].enqueue
    BY <2>1
  <2> QED BY <2>2, <2>3
<1>5. Work(C)' < B0' + EtaK' * (Passed(j)' - row'[j].enqueue)
  BY <1>1, <1>2, <1>3, <1>4, Sizes, SMTT(30) DEF WithinBudget
<1> QED BY <1>1, <1>3, <1>5 DEF WithinBudget

\* Steps that leave the jobs and the file alone.
LEMMA QuietKeeps ==
  ASSUME PhysicalInv, UNCHANGED <<input, row, waiting, nextArrival, busy, log>>,
         clock' \in Nat, clock <= clock',
         pc' = "rescan" => Dispatchable,
         pc' \in {"stopping", "ended"} /\ ~failed' => Completed = Jobs
  PROVE  RowsInv' /\ LogInv' /\ CapInv' /\ AuditPasses'
<1>1. /\ Jobs' = Jobs /\ Workers' = Workers /\ K' = K /\ N' = N
      /\ B0' = B0 /\ EtaK' = EtaK /\ Bmax' = Bmax
      /\ UNCHANGED <<config, policy, release, requested, score>>
  BY InputKept
<1>2. /\ Completed' = Completed /\ Dispatched' = Dispatched /\ Held' = Held /\ Given' = Given
      /\ Idle' = Idle /\ Dispatchable' = Dispatchable
  BY <1>1 DEF Completed, Dispatched, Held, Given, Idle, Dispatchable
<1>3. clock \in Nat /\ Types /\ RowsInv /\ LogInv /\ CapInv /\ AuditPasses
  BY DEF PhysicalInv, Types
<1>4. RowsInv'
  <2>1. \A j \in Jobs : row[j].enqueue <= clock' /\ row[j].dispatch <= clock'
    <3> TAKE j \in Jobs
    <3>1. row[j].enqueue \in Int /\ row[j].dispatch \in Int
      BY <1>3 DEF Types, Moments, Unknown
    <3> QED BY <1>3, <3>1 DEF RowsInv
  <2> QED BY <1>1, <1>2, <1>3, <2>1 DEF RowsInv
<1>5. LogInv'
  <2>1. \A i \in DOMAIN log : log[i].at <= clock'
    <3> TAKE i \in DOMAIN log
    <3>1. log[i] \in EventTypes
      BY <1>3 DEF Types
    <3>2. log[i].at \in Nat
      BY <3>1 DEF EventTypes
    <3> QED BY <1>3, <3>2 DEF LogInv
  <2> QED BY <1>1, <1>2, <1>3, <2>1 DEF LogInv
<1>6. CapInv'
  <2> SUFFICES ASSUME policy = "Guard", NEW j \in Jobs, j < nextArrival, PassedBy(j)' # {}
               PROVE  \E C \in SUBSET (PassedBy(j)' \cap Completed') : WithinBudget(j, C)'
    BY <1>1 DEF CapInv
  <2>1. PassedBy(j)' = PassedBy(j)
    BY <1>2 DEF PassedBy, Position
  <2>2. PICK C \in SUBSET (PassedBy(j) \cap Completed) : WithinBudget(j, C)
    BY <1>3, <2>1 DEF CapInv
  <2>3. Passed(j) \in Int /\ Passed(j)' \in Int /\ Passed(j) <= Passed(j)'
    BY <1>2, <1>3 DEF Passed, Types, Moments, Unknown
  <2>4. C \in SUBSET (PassedBy(j)' \cap Completed') /\ WithinBudget(j, C)'
    BY <1>2, <1>3, <2>1, <2>2, <2>3, SplitKept
  <2> QED BY <2>4
<1>7. AuditPasses'
  <2>1. RunOver' => Completed = Jobs
    BY DEF RunOver
  <2>2. RunOver' => JobsOf("dispatch", log) = Jobs /\ JobsOf("completion", log) = Jobs
    BY <1>3, <2>1 DEF LogInv, RowsInv, Dispatched
  <2> DEFINE past == SubSeq(log, 1, Len(log) - 1)
             e == log[Len(log)]
  <2>3. log # <<>> => EventOK(e, past)
    BY <1>3 DEF AuditPasses
  <2>4. EventOK(log[Len(log)], SubSeq(log, 1, Len(log) - 1))' <=> EventOK(e, past)
    BY <1>1, <1>2
        DEF EventOK, EnqueueOK, DispatchOK, CompletionOK, Expected, ExpectedFired, SpentAt,
            Precedes
  <2> QED BY <1>1, <2>2, <2>3, <2>4 DEF AuditPasses
<1> QED BY <1>4, <1>5, <1>6, <1>7

---------------------------------------------------------------------------
(* A completion.                                                           *)

\* The message is the answer the dispatcher waits for, so it is recorded.
LEMMA ReceiveAnswers ==
  ASSUME PhysicalInv, NEW w \in Workers, Receive(w)
  PROVE  /\ reply[w] \in [job : Jobs, start : Nat, finish : Nat]
         /\ busy[w] = reply[w].job /\ reply[w].job \in Dispatched \ Completed
         /\ reply[w].start <= reply[w].finish /\ reply[w].finish <= clock
         /\ row' = Recorded(reply[w]) /\ busy' = [busy EXCEPT ![w] = NoJob]
         /\ log' = Append(log, [type |-> "completion", job |-> reply[w].job, worker |-> w,
                                at |-> clock, held |-> reply[w].finish - reply[w].start])
         /\ pc = "receive" /\ pc' = pc /\ failed' = failed
<1>1. WorkerInv(w) /\ <<w, "reply">> \in ready
  BY DEF PhysicalInv, ProcessesInv, Receive
<1>2. reply[w].job = busy[w] /\ busy[w] # NoJob
      /\ reply[w].start <= reply[w].finish /\ reply[w].finish <= clock
  BY <1>1 DEF WorkerInv
<1>3. reply[w] \in Answers /\ busy[w] \in Jobs
  BY <1>2 DEF PhysicalInv, Types
<1>4. busy[w] \in Dispatched \ Completed
  BY <1>2 DEF PhysicalInv, RowsInv, Given
<1>5. reply[w] \in [job : Jobs, start : Nat, finish : Nat]
  BY <1>2, <1>3 DEF Answers
<1> QED BY <1>2, <1>4, <1>5 DEF Receive

LEMMA ReceiveKeeps ==
  ASSUME PhysicalInv, NEW w \in Workers, Receive(w)
  PROVE  Types' /\ RowsInv' /\ LogInv' /\ CapInv' /\ AuditPasses'
<1> DEFINE j == reply[w].job
           e == [type |-> "completion", job |-> j, worker |-> w, at |-> clock,
                 held |-> reply[w].finish - reply[w].start]
<1>1. /\ reply[w] \in [job : Jobs, start : Nat, finish : Nat]
      /\ busy[w] = j /\ j \in Dispatched \ Completed
      /\ reply[w].start <= reply[w].finish /\ reply[w].finish <= clock
      /\ row' = [row EXCEPT ![j].start = reply[w].start, ![j].finish = reply[w].finish]
      /\ busy' = [busy EXCEPT ![w] = NoJob] /\ log' = Append(log, e)
      /\ pc = "receive" /\ pc' = "receive" /\ failed' = failed
  BY ReceiveAnswers DEF Recorded
<1>2. /\ UNCHANGED <<input, clock, scanned, waiting, nextArrival, wakeAt, status, running, command,
                     crashes>>
      /\ reply' = [reply EXCEPT ![w] = Nothing]
  BY DEF Receive
<1>3. Types /\ RowsInv /\ LogInv /\ CapInv
  BY DEF PhysicalInv
<1>4. /\ Jobs' = Jobs /\ Workers' = Workers /\ K' = K /\ N' = N /\ EventTypes' = EventTypes
      /\ Answers' = Answers /\ B0' = B0 /\ EtaK' = EtaK /\ Bmax' = Bmax
      /\ UNCHANGED <<config, policy, release, requested, score>>
  BY <1>2, InputKept
<1>5. j \in Jobs /\ NoJob \notin Jobs /\ clock \in Nat
  BY <1>1, <1>3, Sizes DEF Types
<1>6. e \in EventTypes
  <2>1. reply[w].finish - reply[w].start \in Nat
    BY <1>1
  <2> QED BY <1>5, <2>1 DEF EventTypes
<1>7. /\ e.type = "completion" /\ e.job = j /\ e.worker = w /\ e.at = clock
       /\ e.held = reply[w].finish - reply[w].start
       /\ e.type # "enqueue" /\ e.type # "dispatch"
  OBVIOUS
<1> HIDE DEF e
<1>8. Nothing \in Answers
  BY DEF Nothing, Answers
<1>9. /\ row' \in [Jobs -> [enqueue : Moments, dispatch : Moments, start : Moments,
                            finish : Moments]]
      /\ \A i \in Jobs : row'[i].enqueue = row[i].enqueue /\ row'[i].dispatch = row[i].dispatch
      /\ \A i \in Jobs \ {j} : row'[i] = row[i]
      /\ row'[j].start = reply[w].start /\ row'[j].finish = reply[w].finish
  <2> DEFINE R == [enqueue : Moments, dispatch : Moments, start : Moments, finish : Moments]
             new == [row[j] EXCEPT !.start = reply[w].start, !.finish = reply[w].finish]
  <2>1. row \in [Jobs -> R] /\ row[j] \in R
    BY <1>3, <1>5 DEF Types
  <2>2. new \in R /\ new.enqueue = row[j].enqueue /\ new.dispatch = row[j].dispatch
        /\ new.start = reply[w].start /\ new.finish = reply[w].finish
    BY <1>1, <2>1 DEF Moments
  <2>3. row' = [row EXCEPT ![j] = new]
    BY <1>1, <1>5, <2>1
  <2> HIDE DEF new, R
  <2>4. row' \in [Jobs -> R] /\ row'[j] = new /\ \A i \in Jobs \ {j} : row'[i] = row[i]
    BY <1>5, <2>1, <2>2, <2>3
  <2> QED BY <2>2, <2>4 DEF R
<1>10. Types'
  <2>1. log' \in Seq(EventTypes)
    BY <1>1, <1>3, <1>6, Appended DEF Types
  <2>2. busy' \in [Workers -> Jobs \cup {NoJob}] /\ reply' \in [Workers -> Answers]
    BY <1>1, <1>2, <1>3, <1>8 DEF Types
  <2>3. row' \in [Jobs' -> [enqueue : Moments', dispatch : Moments', start : Moments',
                            finish : Moments']]
    BY <1>4, <1>9 DEF Moments
  <2> QED BY <1>2, <1>3, <1>4, <2>1, <2>2, <2>3 DEF Types
<1>11. Completed' = Completed \cup {j} /\ Dispatched' = Dispatched
       /\ Held' = [Held EXCEPT ![j] = reply[w].finish - reply[w].start]
  <2>1. Completed' = Completed \cup {j}
    BY <1>1, <1>4, <1>5, <1>9 DEF Completed, Unknown
  <2>2. Dispatched' = Dispatched
    BY <1>4, <1>9 DEF Dispatched
  <2>3. \A i \in Jobs : Held'[i] = IF i = j THEN reply[w].finish - reply[w].start ELSE Held[i]
    <3>1. \A i \in Jobs : /\ Held'[i] = row'[i].finish - row'[i].start
                          /\ Held[i] = row[i].finish - row[i].start
      BY <1>4 DEF Held
    <3>2. Held'[j] = row'[j].finish - row'[j].start
      BY <1>5, <3>1
    <3>3. Held'[j] = reply[w].finish - reply[w].start
      BY <1>9, <3>2
    <3>4. \A i \in Jobs \ {j} : Held'[i] = Held[i]
      BY <1>9, <3>1
    <3> QED BY <3>3, <3>4
  <2>4. Held' = [Held EXCEPT ![j] = reply[w].finish - reply[w].start]
    BY <1>4, <2>3 DEF Held
  <2> QED BY <2>1, <2>2, <2>4
<1>12. RowsInv'
  <2>1. Given' = Given \ {j}
    BY <1>1, <1>3, <1>4, <1>5 DEF Given, RowsInv, Types
  <2>2. \A v, x \in Workers : busy'[v] = busy'[x] /\ busy'[v] # NoJob => v = x
    BY <1>1, <1>3 DEF RowsInv, Types
  <2>3. \A i \in Jobs :
          /\ i \in Completed' => row'[i].start # Unknown /\ row'[i].start <= row'[i].finish
          /\ i \notin Completed' => row'[i].start = Unknown
    BY <1>1, <1>3, <1>9, <1>11 DEF RowsInv, Unknown
  <2>4. Completed' \subseteq Dispatched' /\ Given' = Dispatched' \ Completed'
    BY <1>1, <1>3, <1>11, <2>1 DEF RowsInv
  <2>5. \A i \in Jobs :
          /\ row'[i].enqueue # Unknown <=> i < nextArrival'
          /\ row'[i].enqueue <= clock' /\ row'[i].dispatch <= clock'
          /\ i \in Dispatched' => i < nextArrival'
    BY <1>2, <1>3, <1>9, <1>11 DEF RowsInv
  <2>6. waiting' = {i \in Jobs' : i < nextArrival'} \ Dispatched'
    BY <1>2, <1>3, <1>4, <1>11 DEF RowsInv
  <2> QED BY <1>1, <1>4, <2>2, <2>3, <2>4, <2>5, <2>6 DEF RowsInv, Unknown
<1>13. /\ \A i \in 1 .. Len(log) : log'[i] = log[i]
       /\ Len(log) \in Nat /\ DOMAIN log = 1 .. Len(log) /\ DOMAIN log' = 1 .. Len(log) + 1
       /\ log'[Len(log) + 1] = e
  BY <1>1, <1>3, <1>6, Appended DEF Types
<1>14. /\ Events("enqueue", log') = Events("enqueue", log)
       /\ Events("dispatch", log') = Events("dispatch", log)
       /\ Events("completion", log') = Events("completion", log) \cup {Len(log) + 1}
       /\ JobsOf("enqueue", log') = JobsOf("enqueue", log)
       /\ JobsOf("dispatch", log') = JobsOf("dispatch", log)
       /\ JobsOf("completion", log') = JobsOf("completion", log) \cup {j}
       /\ \A type : Events(type, log) \subseteq 1 .. Len(log)
  <2>1. \A type : /\ Events(type, log) \subseteq 1 .. Len(log)
                  /\ Events(type, log')
                       = Events(type, log) \cup (IF type = "completion" THEN {Len(log) + 1} ELSE {})
                  /\ JobsOf(type, log')
                       = JobsOf(type, log) \cup (IF type = "completion" THEN {j} ELSE {})
    BY <1>1, <1>3, <1>6, <1>7, EventsAppended DEF Types
  <2> HIDE DEF j
  <2> QED BY <2>1
<1>15. LogInv'
  <2>1. \A i \in DOMAIN log' : log'[i].at <= clock'
    BY <1>2, <1>3, <1>5, <1>13, <1>7 DEF LogInv
  <2>2. \A i \in Events("enqueue", log') : log'[i].at = row'[log'[i].job].enqueue
    <3> TAKE i \in Events("enqueue", log')
    <3>1. i \in Events("enqueue", log) /\ log'[i] = log[i]
      BY <1>13, <1>14
    <3>2. log[i].job \in JobsOf("enqueue", log)
      BY <3>1 DEF JobsOf
    <3>3. log[i].job \in Jobs
      BY <1>3, <3>2 DEF LogInv
    <3> QED BY <1>3, <1>9, <3>1, <3>3 DEF LogInv
  <2>3. \A i \in Events("completion", log') : log'[i].held = Held'[log'[i].job]
    <3> TAKE i \in Events("completion", log')
    <3>1. CASE i = Len(log) + 1
      <4>1. Held'[j] = reply[w].finish - reply[w].start
        BY <1>3, <1>5, <1>11, HeldTypes
      <4> QED BY <1>13, <1>7, <3>1, <4>1
    <3>2. CASE i \in Events("completion", log)
      <4>1. log'[i] = log[i] /\ log[i].job \in JobsOf("completion", log)
        BY <1>13, <1>14, <3>2 DEF JobsOf
      <4>2. log[i].job \in Completed /\ log[i].job # j
        BY <1>1, <1>3, <4>1 DEF LogInv
      <4>3. Held'[log[i].job] = Held[log[i].job]
        BY <1>3, <1>11, <4>2, HeldTypes
      <4> QED BY <1>3, <3>2, <4>1, <4>3 DEF LogInv
    <3> QED BY <1>14, <3>1, <3>2
  <2>4. \A i, k \in Events("dispatch", log') : log'[i].job = log'[k].job => i = k
    BY <1>3, <1>13, <1>14 DEF LogInv
  <2>5. ASSUME NEW v \in Workers PROVE InHand(v, log') = {busy'[v]} \ {NoJob}
    <3>1. InHand(v, log') = InHand(v, log) \ {j}
      BY <1>1, <1>3, <1>6, <1>7, InHandAppended DEF Types
    <3>2. InHand(v, log) = {busy[v]} \ {NoJob}
      BY <1>3 DEF LogInv
    <3>3. v # w => busy[v] # j
      BY <1>1, <1>3, <1>5 DEF RowsInv
    <3> QED BY <1>1, <1>3, <1>5, <3>1, <3>2, <3>3 DEF Types
  <2> QED BY <1>2, <1>3, <1>4, <1>11, <1>14, <2>1, <2>2, <2>3, <2>4, <2>5 DEF LogInv
<1>16. CapInv'
  <2> SUFFICES ASSUME policy = "Guard", NEW i \in Jobs, i < nextArrival, PassedBy(i)' # {}
               PROVE  \E C \in SUBSET (PassedBy(i)' \cap Completed') : WithinBudget(i, C)'
    BY <1>2, <1>4 DEF CapInv
  <2>1. \A k \in Dispatched : Position(k)' = Position(k)
    BY <1>1, <1>3, <1>6, <1>7, PositionKept DEF LogInv
  <2>2. PassedBy(i)' = PassedBy(i)
    BY <1>11, <2>1 DEF PassedBy
  <2>3. PICK C \in SUBSET (PassedBy(i) \cap Completed) : WithinBudget(i, C)
    BY <1>3, <2>2 DEF CapInv
  <2>4. Passed(i) \in Int /\ Passed(i)' = Passed(i)
    BY <1>2, <1>3, <1>9, <1>11 DEF Passed, Types, Moments, Unknown
  <2>5. Completed \subseteq Completed' /\ \A k \in Completed : Held'[k] = Held[k]
    BY <1>1, <1>3, <1>11, HeldTypes
  <2>6. row'[i].enqueue = row[i].enqueue /\ UNCHANGED input
    BY <1>2, <1>9
  <2>7. C \in SUBSET (PassedBy(i)' \cap Completed') /\ WithinBudget(i, C)'
    BY <1>3, <2>2, <2>3, <2>4, <2>5, <2>6, SplitKept
  <2> QED BY <2>7
<1>17. AuditPasses'
  <2>1. InHand(w, log) = {j} /\ Held'[j] = reply[w].finish - reply[w].start
    BY <1>1, <1>3, <1>5, <1>11, HeldTypes DEF LogInv
  <2>2. \A i \in DOMAIN log : log[i].at <= clock
    BY <1>3 DEF LogInv
  <2>3. ~RunOver'
    BY <1>1 DEF RunOver
  <2> QED BY <1>1, <1>2, <1>3, <1>6, <1>7, <2>1, <2>2, <2>3, AuditGrows
<1> QED BY <1>10, <1>12, <1>15, <1>16, <1>17

---------------------------------------------------------------------------
(* An arrival.                                                             *)

LEMMA EnqueueKeeps ==
  ASSUME PhysicalInv, Enqueue
  PROVE  Types' /\ RowsInv' /\ LogInv' /\ CapInv' /\ AuditPasses'
<1> DEFINE j == nextArrival
           e == [type |-> "enqueue", job |-> j, at |-> clock, ahead |-> Cardinality(waiting)]
<1>1. /\ waiting' = waiting \cup {j} /\ row' = [row EXCEPT ![j].enqueue = clock]
      /\ log' = Append(log, e) /\ nextArrival' = j + 1 /\ pc \in {"scan", "rescan"}
      /\ j <= N /\ release[j] <= scanned
      /\ UNCHANGED <<input, clock, pc, failed, ready, scanned, wakeAt, busy, status, running,
                     command, reply, crashes>>
  BY DEF Enqueue, Due, procs
<1>2. Types /\ RowsInv /\ LogInv /\ CapInv
  BY DEF PhysicalInv
<1>3. /\ Jobs' = Jobs /\ Workers' = Workers /\ K' = K /\ N' = N /\ EventTypes' = EventTypes
      /\ Answers' = Answers /\ UNCHANGED <<config, policy, release, requested, score>>
  BY <1>1, InputKept
<1>4. /\ j \in Jobs /\ j \in Nat /\ j + 1 \in 1 .. N + 1 /\ clock \in Nat /\ Jobs = 1 .. N
      /\ NoJob \notin Jobs /\ N \in Nat
  <2>1. j \in 1 .. N + 1 /\ clock \in Nat
    BY <1>2 DEF Types
  <2>2. N \in Nat /\ Jobs = 1 .. N /\ NoJob \notin Jobs
    BY <1>2, Sizes
  <2> QED BY <1>1, <2>1, <2>2
<1>5. waiting \subseteq Jobs /\ IsFiniteSet(waiting) /\ Cardinality(waiting) \in Nat
  BY <1>2, Sizes, FS_Subset, FS_CardinalityType DEF RowsInv
<1>6. e \in EventTypes
  BY <1>4, <1>5 DEF EventTypes
<1>7. /\ e.type = "enqueue" /\ e.job = j /\ e.at = clock /\ e.ahead = Cardinality(waiting)
      /\ e.type # "completion" /\ e.type # "dispatch"
  OBVIOUS
<1> HIDE DEF e
<1>8. j \notin Dispatched /\ j \notin Completed /\ row[j].dispatch = Unknown
  BY <1>2, <1>4 DEF RowsInv, Dispatched
<1>9. /\ row' \in [Jobs -> [enqueue : Moments, dispatch : Moments, start : Moments,
                            finish : Moments]]
      /\ \A i \in Jobs : /\ row'[i].dispatch = row[i].dispatch /\ row'[i].start = row[i].start
                         /\ row'[i].finish = row[i].finish
      /\ \A i \in Jobs \ {j} : row'[i] = row[i]
      /\ row'[j].enqueue = clock
  <2> DEFINE R == [enqueue : Moments, dispatch : Moments, start : Moments, finish : Moments]
             new == [row[j] EXCEPT !.enqueue = clock]
  <2>1. row \in [Jobs -> R] /\ row[j] \in R
    BY <1>2, <1>4 DEF Types
  <2>2. new \in R /\ new.dispatch = row[j].dispatch /\ new.enqueue = clock
        /\ new.start = row[j].start /\ new.finish = row[j].finish
    BY <1>4, <2>1 DEF Moments
  <2>3. row' = [row EXCEPT ![j] = new]
    BY <1>1, <1>4, <2>1
  <2> HIDE DEF new, R
  <2>4. row' \in [Jobs -> R] /\ row'[j] = new /\ \A i \in Jobs \ {j} : row'[i] = row[i]
    BY <1>4, <2>1, <2>2, <2>3
  <2> QED BY <2>2, <2>4 DEF R
<1>10. Types'
  <2>1. log' \in Seq(EventTypes)
    BY <1>1, <1>2, <1>6, Appended DEF Types
  <2>2. row' \in [Jobs' -> [enqueue : Moments', dispatch : Moments', start : Moments',
                            finish : Moments']]
    BY <1>3, <1>9 DEF Moments
  <2> QED BY <1>1, <1>2, <1>3, <1>4, <2>1, <2>2 DEF Types
<1>11. /\ Completed' = Completed /\ Dispatched' = Dispatched /\ Held' = Held /\ Given' = Given
       /\ Idle' = Idle
  BY <1>1, <1>3, <1>9 DEF Completed, Dispatched, Held, Given, Idle
<1>12. RowsInv'
  <2>1. \A i \in Jobs :
          /\ row'[i].enqueue # Unknown <=> i < nextArrival'
          /\ row'[i].enqueue <= clock' /\ row'[i].dispatch <= clock'
          /\ i \in Dispatched' => i < nextArrival'
    <3> TAKE i \in Jobs
    <3>1. CASE i = j
      <4>1. clock # Unknown
        BY <1>4 DEF Unknown
      <4>2. row'[j].dispatch = Unknown
        BY <1>4, <1>8, <1>9
      <4>3. Unknown <= clock
        BY <1>4 DEF Unknown
      <4> QED BY <1>1, <1>4, <1>8, <1>9, <1>11, <3>1, <4>1, <4>2, <4>3
    <3>2. CASE i # j
      BY <1>1, <1>2, <1>4, <1>9, <1>11, <3>2 DEF RowsInv
    <3> QED BY <3>1, <3>2
  <2>2. \A i \in Jobs :
          /\ i \in Completed' => row'[i].start # Unknown /\ row'[i].start <= row'[i].finish
          /\ i \notin Completed' => row'[i].start = Unknown
    BY <1>2, <1>9, <1>11 DEF RowsInv
  <2>3. waiting' = {i \in Jobs' : i < nextArrival'} \ Dispatched'
    BY <1>1, <1>2, <1>3, <1>4, <1>8, <1>11 DEF RowsInv
  <2>4. pc' = "rescan" => Dispatchable'
    BY <1>1, <1>2, <1>11 DEF RowsInv, Dispatchable
  <2>5. Completed' \subseteq Dispatched' /\ Given' = Dispatched' \ Completed'
        /\ \A v, w \in Workers' : busy'[v] = busy'[w] /\ busy'[v] # NoJob => v = w
    BY <1>1, <1>2, <1>3, <1>11 DEF RowsInv
  <2> QED BY <1>1, <1>3, <2>1, <2>2, <2>3, <2>4, <2>5 DEF RowsInv, Unknown
<1>13. /\ \A i \in 1 .. Len(log) : log'[i] = log[i]
       /\ Len(log) \in Nat /\ DOMAIN log = 1 .. Len(log) /\ DOMAIN log' = 1 .. Len(log) + 1
       /\ log'[Len(log) + 1] = e
  BY <1>1, <1>2, <1>6, Appended DEF Types
<1>14. /\ Events("enqueue", log') = Events("enqueue", log) \cup {Len(log) + 1}
       /\ Events("dispatch", log') = Events("dispatch", log)
       /\ Events("completion", log') = Events("completion", log)
       /\ JobsOf("enqueue", log') = JobsOf("enqueue", log) \cup {j}
       /\ JobsOf("dispatch", log') = JobsOf("dispatch", log)
       /\ JobsOf("completion", log') = JobsOf("completion", log)
       /\ \A type : Events(type, log) \subseteq 1 .. Len(log)
  <2>1. \A type : /\ Events(type, log) \subseteq 1 .. Len(log)
                  /\ Events(type, log')
                       = Events(type, log) \cup (IF type = "enqueue" THEN {Len(log) + 1} ELSE {})
                  /\ JobsOf(type, log')
                       = JobsOf(type, log) \cup (IF type = "enqueue" THEN {j} ELSE {})
    BY <1>1, <1>2, <1>6, <1>7, EventsAppended DEF Types
  <2> QED BY <2>1
<1>15. LogInv'
  <2>1. \A i \in DOMAIN log' : log'[i].at <= clock'
    BY <1>1, <1>2, <1>4, <1>7, <1>13 DEF LogInv
  <2>2. \A i \in Events("enqueue", log') : log'[i].at = row'[log'[i].job].enqueue
    <3> TAKE i \in Events("enqueue", log')
    <3>1. CASE i = Len(log) + 1
      BY <1>7, <1>9, <1>13, <3>1
    <3>2. CASE i \in Events("enqueue", log)
      <4>1. log'[i] = log[i] /\ log[i].job \in JobsOf("enqueue", log)
        BY <1>13, <1>14, <3>2 DEF JobsOf
      <4>2. log[i].job \in Jobs \ {j}
        BY <1>2, <1>4, <4>1 DEF LogInv
      <4> QED BY <1>2, <1>9, <3>2, <4>1, <4>2 DEF LogInv
    <3> QED BY <1>14, <3>1, <3>2
  <2>3. \A i \in Events("completion", log') : log'[i].held = Held'[log'[i].job]
    BY <1>2, <1>11, <1>13, <1>14 DEF LogInv
  <2>4. \A i, k \in Events("dispatch", log') : log'[i].job = log'[k].job => i = k
    BY <1>2, <1>13, <1>14 DEF LogInv
  <2>5. \A v \in Workers : InHand(v, log') = {busy'[v]} \ {NoJob}
    BY <1>1, <1>2, <1>6, <1>7, InHandAppended DEF LogInv, Types
  <2>6. JobsOf("enqueue", log') = {i \in Jobs' : i < nextArrival'}
    BY <1>1, <1>2, <1>3, <1>4, <1>14 DEF LogInv
  <2> QED BY <1>2, <1>3, <1>11, <1>14, <2>1, <2>2, <2>3, <2>4, <2>5, <2>6 DEF LogInv
<1>16. CapInv'
  <2> SUFFICES ASSUME policy = "Guard", NEW i \in Jobs, i < j + 1, PassedBy(i)' # {}
               PROVE  \E C \in SUBSET (PassedBy(i)' \cap Completed') : WithinBudget(i, C)'
    BY <1>1, <1>3 DEF CapInv
  <2>1. \A k \in Dispatched : Position(k)' = Position(k)
    BY <1>1, <1>2, <1>6, <1>7, PositionKept DEF LogInv
  <2>2. PassedBy(i)' = PassedBy(i)
    BY <1>11, <2>1 DEF PassedBy
  <2>3. i # j
    <3>1. PassedBy(j) = {}
      BY <1>2, <1>4 DEF PassedBy, RowsInv, Dispatched
    <3> QED BY <2>2, <3>1
  <2>4. PICK C \in SUBSET (PassedBy(i) \cap Completed) : WithinBudget(i, C)
    BY <1>2, <1>4, <2>2, <2>3 DEF CapInv
  <2>5. Passed(i) \in Int /\ Passed(i)' = Passed(i)
    BY <1>1, <1>2, <1>9, <1>11 DEF Passed, Types, Moments, Unknown
  <2>6. row'[i].enqueue = row[i].enqueue /\ UNCHANGED input
    BY <1>1, <1>9, <2>3
  <2>7. C \in SUBSET (PassedBy(i)' \cap Completed') /\ WithinBudget(i, C)'
    BY <1>2, <1>11, <2>2, <2>4, <2>5, <2>6, SplitKept
  <2> QED BY <2>7
<1>17. AuditPasses'
  <2>1. EnqueueOK(e, log)
    <3>1. JobsOf("enqueue", log) = 1 .. j - 1 /\ j - 1 \in Nat
      <4>1. JobsOf("enqueue", log) = {i \in 1 .. N : i < j}
        BY <1>2, <1>4 DEF LogInv
      <4> HIDE DEF j
      <4>2. {i \in 1 .. N : i < j} = 1 .. j - 1 /\ j - 1 \in Nat
        BY <1>4
      <4> QED BY <4>1, <4>2
    <3>2. Cardinality(JobsOf("enqueue", log)) = j - 1
      BY <3>1, FS_Interval
    <3>3. Queue(log) = waiting
      BY <1>2, FileTellsState
    <3>4. clock >= release[j]
      BY <1>1, <1>2, <1>4 DEF Types
    <3> QED BY <1>4, <1>7, <3>2, <3>3, <3>4 DEF EnqueueOK
  <2>2. \A i \in DOMAIN log : log[i].at <= clock
    BY <1>2 DEF LogInv
  <2>3. ~RunOver'
    BY <1>1 DEF RunOver
  <2> QED BY <1>1, <1>2, <1>6, <1>7, <2>1, <2>2, <2>3, AuditGrows
<1> QED BY <1>10, <1>12, <1>15, <1>16, <1>17

---------------------------------------------------------------------------
(* A dispatch.                                                             *)

LEMMA ServedByIdle ==
  ASSUME Types, Idle # {}
  PROVE  Min(Idle) \in Workers /\ busy[Min(Idle)] = NoJob
<1>1. Idle \in SUBSET Nat
  BY Sizes DEF Idle
<1>2. \E x \in Idle : \A y \in Idle : x <= y
  BY <1>1, NatMin
<1>3. Min(Idle) \in Idle
  BY <1>2 DEF Min
<1> QED BY <1>3 DEF Idle

\* The jobs in hand and the one just given are at most one per worker.
LEMMA GivenLimit ==
  ASSUME Types
  PROVE  IsFiniteSet(Given) /\ Cardinality(Given) <= K
<1> DEFINE f == [w \in Workers |-> busy[w]]
           R == {busy[w] : w \in Workers}
<1>1. f \in Surjection(Workers, R)
  BY DEF Surjection
<1>2. IsFiniteSet(R) /\ Cardinality(R) <= Cardinality(Workers)
  BY <1>1, Sizes, FS_Surjection
<1>3. IsFiniteSet(Given) /\ Cardinality(Given) <= Cardinality(R)
  BY <1>2, FS_Subset DEF Given
<1>4. Cardinality(Given) \in Nat /\ Cardinality(R) \in Nat /\ Cardinality(Workers) \in Nat
  BY <1>2, <1>3, Sizes, FS_CardinalityType
<1> QED BY <1>2, <1>3, <1>4 DEF K

LEMMA DispatchKeeps ==
  ASSUME PhysicalInv, Dispatch, status[Min(Idle)] # "exited"
  PROVE  Types' /\ RowsInv' /\ LogInv' /\ CapInv' /\ AuditPasses'
<1> PICK w : w = Min(Idle)
  OBVIOUS
<1> PICK j : j = Chosen(clock)
  OBVIOUS
<1> DEFINE e == [type |-> "dispatch", job |-> j, worker |-> w, at |-> clock,
                 fired |-> Fired(clock)]
<1>1. /\ waiting' = waiting \ {j} /\ row' = [row EXCEPT ![j].dispatch = clock]
      /\ log' = Append(log, e) /\ pc = "rescan" /\ pc' = "loop"
      /\ busy' = [busy EXCEPT ![w] = j] /\ command' = [command EXCEPT ![w] = j]
      /\ UNCHANGED <<input, clock, failed, ready, scanned, nextArrival, wakeAt, status, running,
                     reply, crashes>>
  BY DEF Dispatch, Goto
<1>2. Types /\ RowsInv /\ LogInv /\ CapInv
  BY DEF PhysicalInv
<1>3. /\ Jobs' = Jobs /\ Workers' = Workers /\ K' = K /\ N' = N /\ EventTypes' = EventTypes
      /\ Answers' = Answers /\ UNCHANGED <<config, policy, release, requested, score>>
      /\ B0' = B0 /\ EtaK' = EtaK /\ Bmax' = Bmax
  BY <1>1, InputKept
<1>4. Idle # {} /\ waiting # {}
  BY <1>1, <1>2 DEF RowsInv, Dispatchable
<1>5. /\ j \in waiting /\ Expected(j, clock, log) /\ \A i \in Fired(clock) : j <= i
      /\ Queue(log) = waiting /\ waiting \subseteq Jobs /\ ExpectedFired(clock, log) = Fired(clock)
      /\ Fired(clock) \in SUBSET waiting
  BY <1>2, <1>4, ChosenIsExpected, FileTellsState DEF Fired
<1>6. w \in Workers /\ busy[w] = NoJob
  BY <1>2, <1>4, ServedByIdle
<1>7. /\ j \in Jobs /\ j \notin Dispatched /\ j \notin Completed /\ j < nextArrival /\ j \in Nat
      /\ NoJob \notin Jobs /\ clock \in Nat /\ Jobs \subseteq Nat
  <2>1. j \in Jobs /\ j \notin Dispatched /\ j < nextArrival /\ j \notin Completed
    BY <1>2, <1>5 DEF RowsInv
  <2> QED BY <1>2, <2>1, Sizes, SMTT(30) DEF Types
<1>8. e \in EventTypes
  BY <1>5, <1>6, <1>7 DEF EventTypes
<1>9. /\ e.type = "dispatch" /\ e.job = j /\ e.at = clock /\ e.worker = w /\ e.fired = Fired(clock)
      /\ e.type # "completion" /\ e.type # "enqueue"
  OBVIOUS
<1> HIDE DEF e
<1>10. /\ row' \in [Jobs -> [enqueue : Moments, dispatch : Moments, start : Moments,
                             finish : Moments]]
       /\ \A i \in Jobs : /\ row'[i].enqueue = row[i].enqueue /\ row'[i].start = row[i].start
                          /\ row'[i].finish = row[i].finish
       /\ \A i \in Jobs \ {j} : row'[i] = row[i]
       /\ row'[j].dispatch = clock
  <2> DEFINE R == [enqueue : Moments, dispatch : Moments, start : Moments, finish : Moments]
             new == [row[j] EXCEPT !.dispatch = clock]
  <2>1. row \in [Jobs -> R] /\ row[j] \in R
    BY <1>2, <1>7 DEF Types
  <2>2. new \in R /\ new.enqueue = row[j].enqueue /\ new.dispatch = clock
        /\ new.start = row[j].start /\ new.finish = row[j].finish
    BY <1>7, <2>1 DEF Moments
  <2>3. row' = [row EXCEPT ![j] = new]
    BY <1>1, <1>7, <2>1
  <2> HIDE DEF new, R
  <2>4. row' \in [Jobs -> R] /\ row'[j] = new /\ \A i \in Jobs \ {j} : row'[i] = row[i]
    BY <1>7, <2>1, <2>2, <2>3
  <2> QED BY <2>2, <2>4 DEF R
<1>11. Types'
  <2>1. log' \in Seq(EventTypes)
    BY <1>1, <1>2, <1>8, Appended DEF Types
  <2>2. row' \in [Jobs' -> [enqueue : Moments', dispatch : Moments', start : Moments',
                            finish : Moments']]
    BY <1>3, <1>10 DEF Moments
  <2>3. busy' \in [Workers -> Jobs \cup {NoJob}] /\ command' \in [Workers -> Jobs \cup {NoJob}]
    BY <1>1, <1>2, <1>6, <1>7 DEF Types
  <2> QED BY <1>1, <1>2, <1>3, <2>1, <2>2, <2>3 DEF Types
<1>12. Completed' = Completed /\ Dispatched' = Dispatched \cup {j} /\ Held' = Held
  <2>1. Dispatched' = Dispatched \cup {j}
    <3>1. row'[j].dispatch # Unknown
      BY <1>7, <1>10 DEF Unknown
    <3>2. \A i \in Jobs \ {j} : row'[i].dispatch = row[i].dispatch
      BY <1>10
    <3> QED BY <1>3, <1>7, <3>1, <3>2 DEF Dispatched
  <2> QED BY <1>3, <1>10, <2>1 DEF Completed, Held
<1>13. Given' = Given \cup {j}
  <2>1. busy'[w] = j /\ \A v \in Workers \ {w} : busy'[v] = busy[v]
    BY <1>1, <1>2, <1>6 DEF Types
  <2> QED BY <1>3, <1>6, <1>7, <2>1 DEF Given
<1>14. RowsInv'
  <2>1. \A i \in Jobs :
          /\ row'[i].enqueue # Unknown <=> i < nextArrival'
          /\ row'[i].enqueue <= clock' /\ row'[i].dispatch <= clock'
          /\ i \in Dispatched' => i < nextArrival'
    <3> TAKE i \in Jobs
    <3>1. CASE i = j
      BY <1>1, <1>2, <1>7, <1>10, <3>1 DEF RowsInv
    <3>2. CASE i # j
      BY <1>1, <1>2, <1>10, <1>12, <3>2 DEF RowsInv
    <3> QED BY <3>1, <3>2
  <2>2. \A i \in Jobs :
          /\ i \in Completed' => row'[i].start # Unknown /\ row'[i].start <= row'[i].finish
          /\ i \notin Completed' => row'[i].start = Unknown
    BY <1>2, <1>10, <1>12 DEF RowsInv
  <2>3. waiting' = {i \in Jobs' : i < nextArrival'} \ Dispatched'
    BY <1>1, <1>2, <1>3, <1>12 DEF RowsInv
  <2>4. Completed' \subseteq Dispatched' /\ Given' = Dispatched' \ Completed'
    BY <1>2, <1>7, <1>12, <1>13 DEF RowsInv
  <2>5. \A v, x \in Workers' : busy'[v] = busy'[x] /\ busy'[v] # NoJob => v = x
    <3>1. \A v \in Workers : busy[v] # j
      BY <1>2, <1>7 DEF RowsInv, Given
    <3> QED BY <1>1, <1>2, <1>3, <1>6, <3>1 DEF RowsInv, Types
  <2> QED BY <1>1, <1>3, <2>1, <2>2, <2>3, <2>4, <2>5 DEF RowsInv, Unknown
<1>15. /\ \A i \in 1 .. Len(log) : log'[i] = log[i]
       /\ Len(log) \in Nat /\ DOMAIN log = 1 .. Len(log) /\ DOMAIN log' = 1 .. Len(log) + 1
       /\ log'[Len(log) + 1] = e
  BY <1>1, <1>2, <1>8, Appended DEF Types
<1>16. /\ Events("enqueue", log') = Events("enqueue", log)
       /\ Events("dispatch", log') = Events("dispatch", log) \cup {Len(log) + 1}
       /\ Events("completion", log') = Events("completion", log)
       /\ JobsOf("enqueue", log') = JobsOf("enqueue", log)
       /\ JobsOf("dispatch", log') = JobsOf("dispatch", log) \cup {j}
       /\ JobsOf("completion", log') = JobsOf("completion", log)
       /\ \A type : Events(type, log) \subseteq 1 .. Len(log)
  <2>1. \A type : /\ Events(type, log) \subseteq 1 .. Len(log)
                  /\ Events(type, log')
                       = Events(type, log) \cup (IF type = "dispatch" THEN {Len(log) + 1} ELSE {})
                  /\ JobsOf(type, log')
                       = JobsOf(type, log) \cup (IF type = "dispatch" THEN {j} ELSE {})
    BY <1>1, <1>2, <1>8, <1>9, EventsAppended DEF Types
  <2> QED BY <2>1
<1>17. LogInv'
  <2>1. \A i \in DOMAIN log' : log'[i].at <= clock'
    BY <1>1, <1>2, <1>7, <1>9, <1>15 DEF LogInv
  <2>2. \A i \in Events("enqueue", log') : log'[i].at = row'[log'[i].job].enqueue
    <3> TAKE i \in Events("enqueue", log')
    <3>1. i \in Events("enqueue", log) /\ log'[i] = log[i]
      BY <1>15, <1>16
    <3>2. log[i].job \in JobsOf("enqueue", log)
      BY <3>1 DEF JobsOf
    <3>3. log[i].job \in Jobs
      BY <1>2, <3>2 DEF LogInv
    <3> QED BY <1>2, <1>10, <3>1, <3>3 DEF LogInv
  <2>3. \A i \in Events("completion", log') : log'[i].held = Held'[log'[i].job]
    BY <1>2, <1>12, <1>15, <1>16 DEF LogInv
  <2>4. ASSUME NEW i \in Events("dispatch", log'), NEW k \in Events("dispatch", log'),
               log'[i].job = log'[k].job
        PROVE  i = k
    <3>1. \A x \in Events("dispatch", log) : log'[x] = log[x] /\ log[x].job # j
      <4> TAKE x \in Events("dispatch", log)
      <4>1. log[x].job \in JobsOf("dispatch", log)
        BY DEF JobsOf
      <4> QED BY <1>2, <1>7, <1>15, <1>16, <4>1 DEF LogInv
    <3>2. log'[Len(log) + 1].job = j
      BY <1>9, <1>15
    <3> QED BY <1>2, <1>16, <2>4, <3>1, <3>2 DEF LogInv
  <2>5. ASSUME NEW v \in Workers PROVE InHand(v, log') = {busy'[v]} \ {NoJob}
    <3>1. InHand(v, log') = InHand(v, log) \cup (IF w = v THEN {j} ELSE {})
      BY <1>1, <1>2, <1>7, <1>8, <1>9, InHandAppended DEF Types, LogInv
    <3>2. InHand(v, log) = {busy[v]} \ {NoJob}
      BY <1>2 DEF LogInv
    <3> QED BY <1>1, <1>2, <1>6, <1>7, <3>1, <3>2 DEF Types
  <2> QED BY <1>1, <1>2, <1>3, <1>12, <1>16, <2>1, <2>2, <2>3, <2>4, <2>5 DEF LogInv
<1>18. CapInv'
  <2> SUFFICES ASSUME policy = "Guard", NEW i \in Jobs, i < nextArrival, PassedBy(i)' # {}
               PROVE  \E C \in SUBSET (PassedBy(i)' \cap Completed') : WithinBudget(i, C)'
    BY <1>1, <1>3 DEF CapInv
  <2>1. \A k \in Dispatched : Position(k)' = Position(k) /\ Position(k) \in 1 .. Len(log)
    BY <1>1, <1>2, <1>7, <1>8, <1>9, PositionKept DEF LogInv
  <2>2. Position(j)' = Len(log) + 1
    <3>1. \A x \in Events("dispatch", log') : log'[x].job = j <=> x = Len(log) + 1
      <4>1. ASSUME NEW x \in Events("dispatch", log) PROVE log'[x].job # j /\ x # Len(log) + 1
        <5>1. log[x].job \in JobsOf("dispatch", log)
          BY <4>1 DEF JobsOf
        <5> QED BY <1>2, <1>7, <1>15, <1>16, <4>1, <5>1 DEF LogInv
      <4> QED BY <1>9, <1>15, <1>16, <4>1
    <3>2. (CHOOSE x \in Events("dispatch", log') : log'[x].job = j) = Len(log) + 1
      BY <1>16, <3>1
    <3> QED BY <3>2 DEF Position
  <2>3. row'[i].enqueue = row[i].enqueue /\ UNCHANGED input
    BY <1>1, <1>10
  <2>4. Completed \subseteq Completed' /\ \A k \in Completed : Held'[k] = Held[k]
    BY <1>12
  \* The job dispatched now passes those that wait before it: none of them has spent
  \* its budget, and what it has been charged is the work of all that completed.
  <2>5. CASE i \in waiting /\ i < j
    <3> PICK C : C = {k \in Completed : k > i}
      OBVIOUS
    <3>1. i \notin Dispatched /\ i \notin Dispatched' /\ Passed(i)' = clock
      <4>1. i \notin Dispatched /\ i # j
        BY <1>2, <1>7, <2>5 DEF RowsInv
      <4>2. i \notin Dispatched' /\ clock' = clock
        BY <1>1, <1>12, <4>1
      <4> QED BY <4>1, <4>2 DEF Passed
    <3>2. PassedBy(i)' = {k \in Dispatched : k > i} \cup {j}
      BY <1>7, <1>12, <2>5, <3>1 DEF PassedBy
    <3>3. C \in SUBSET (PassedBy(i)' \cap Completed')
      BY <1>2, <1>12, <3>2 DEF RowsInv
    <3>4. Over(i) < Budget(i, clock) /\ Over(i) \in Nat
      <4>1. i \notin Fired(clock)
        BY <1>5, <1>7, <2>5
      <4>2. ~(Over(i) >= Budget(i, clock))
        BY <2>5, <4>1 DEF Fired
      <4>3. Over(i) \in Nat
        BY <1>2, FileTellsState
      <4>4. Budget(i, clock) \in Int
        <5>1. row[i].enqueue \in Int
          BY <1>2 DEF Types, Moments, Unknown
        <5>2. EtaK * (clock - row[i].enqueue) \in Int
          BY <1>2, <1>7, <5>1, Sizes
        <5> QED BY <1>2, <5>2, Sizes DEF Budget
      <4> QED BY <4>2, <4>3, <4>4
    <3>5. Work(C)' = Over(i)
      BY <1>12 DEF Work, Over
    <3>6. Over(i) < Bmax /\ Over(i) < B0 + EtaK * (clock - row[i].enqueue)
      <4>1. row[i].enqueue \in Int
        BY <1>2 DEF Types, Moments, Unknown
      <4>2. EtaK * (clock - row[i].enqueue) \in Int /\ B0 \in Int /\ Bmax \in Int
        BY <1>2, <1>7, <4>1, Sizes
      <4> QED BY <3>4, <4>2 DEF Budget
    <3>7. Cardinality(PassedBy(i)' \ C) <= K
      <4>1. PassedBy(i)' \ C \in SUBSET Given'
        BY <1>2, <1>12, <1>13, <3>2 DEF RowsInv
      <4>2. IsFiniteSet(Given)' /\ (Cardinality(Given) <= K)'
        BY <1>11, GivenLimit, PTL
      <4>3. Cardinality(PassedBy(i)' \ C) <= Cardinality(Given')
        BY <4>1, <4>2, FS_Subset
      <4>4. /\ Cardinality(PassedBy(i)' \ C) \in Nat /\ Cardinality(Given') \in Nat /\ K \in Nat
        BY <1>2, <4>1, <4>2, FS_Subset, FS_CardinalityType, Sizes
      <4> QED BY <1>3, <4>2, <4>3, <4>4
    <3>8. WithinBudget(i, C)'
      BY <1>3, <2>3, <3>1, <3>5, <3>6, <3>7 DEF WithinBudget
    <3> QED BY <3>3, <3>8
  \* The others are passed by nobody now.
  <2>6. CASE ~(i \in waiting /\ i < j)
    <3>1. PassedBy(i)' = PassedBy(i)
      <4>1. CASE i \in Dispatched
        <5>1. i \in Dispatched' /\ \A k \in Dispatched : Position(k)' = Position(k)
          BY <1>12, <2>1, <4>1
        <5>2. ~(Position(j)' < Position(i)')
          BY <1>15, <2>1, <2>2, <4>1
        <5>3. PassedBy(i) = {k \in Dispatched : k > i /\ Position(k) < Position(i)}
          BY <4>1 DEF PassedBy
        <5>4. PassedBy(i)' = {k \in Dispatched' : k > i /\ Position(k)' < Position(i)'}
          BY <5>1 DEF PassedBy
        <5> QED BY <1>12, <4>1, <5>1, <5>2, <5>3, <5>4
      <4>2. CASE i = j
        <5>1. i \notin Dispatched /\ i \in Dispatched' /\ Position(i)' = Len(log) + 1
          BY <1>7, <1>12, <2>2, <4>2
        <5>2. \A k \in Dispatched : Position(k)' < Position(i)'
          BY <1>15, <2>1, <5>1
        <5>3. PassedBy(i) = {k \in Dispatched : k > i}
          BY <5>1 DEF PassedBy
        <5>4. PassedBy(i)' = {k \in Dispatched' : k > i /\ Position(k)' < Position(i)'}
          BY <5>1 DEF PassedBy
        <5>5. ~(j > i)
          BY <1>7, <4>2
        <5> QED BY <1>12, <5>2, <5>3, <5>4, <5>5
      <4>3. CASE i \notin Dispatched /\ i # j
        <5>1. i \in waiting /\ ~(j > i) /\ i \notin Dispatched'
          BY <1>2, <1>7, <1>12, <2>6, <4>3 DEF RowsInv
        <5> QED BY <1>12, <4>3, <5>1 DEF PassedBy
      <4> QED BY <4>1, <4>2, <4>3
    <3>2. PICK C \in SUBSET (PassedBy(i) \cap Completed) : WithinBudget(i, C)
      BY <1>2, <3>1 DEF CapInv
    <3>3. Passed(i) \in Int /\ Passed(i)' = Passed(i)
      <4>1. row[i].dispatch \in Int
        BY <1>2 DEF Types, Moments, Unknown
      <4>2. CASE i = j
        BY <1>1, <1>7, <1>10, <1>12, <4>2 DEF Passed
      <4>3. CASE i # j
        BY <1>1, <1>7, <1>10, <1>12, <4>1, <4>3 DEF Passed
      <4> QED BY <4>2, <4>3
    <3>4. C \in SUBSET (PassedBy(i)' \cap Completed') /\ WithinBudget(i, C)'
      BY <1>2, <2>3, <2>4, <3>1, <3>2, <3>3, SplitKept
    <3> QED BY <3>4
  <2> QED BY <2>5, <2>6
<1>19. AuditPasses'
  <2>1. DispatchOK(e, log)
    <3>1. InHand(w, log) = {}
      BY <1>2, <1>6 DEF LogInv
    <3> QED BY <1>5, <1>9, <3>1 DEF DispatchOK
  <2>2. \A i \in DOMAIN log : log[i].at <= clock
    BY <1>2 DEF LogInv
  <2>3. ~RunOver'
    BY <1>1 DEF RunOver
  <2> QED BY <1>1, <1>2, <1>8, <1>9, <2>1, <2>2, <2>3, AuditGrows
<1> QED BY <1>11, <1>14, <1>17, <1>18, <1>19

---------------------------------------------------------------------------
(* The workers and their pipes.                                            *)

\* Steps of the dispatcher that touch no job, and the clock.
LEMMA ControlKeeps ==
  ASSUME PhysicalInv,
         UNCHANGED <<input, row, waiting, nextArrival, busy, log, procs>>,
         clock' \in Nat, clock <= clock', scanned' \in Nat, scanned' <= clock',
         \A w \in Workers : /\ <<w, "reply">> \in ready' => reply[w] # Nothing
                            /\ <<w, "exit">> \in ready' => status[w] = "exited",
         pc \in {"stopping", "ended"} => pc' \in {"stopping", "ended"},
         failed' => crashes > 0,
         pc' = "rescan" => Dispatchable,
         pc' \in {"stopping", "ended"} /\ ~failed' => Completed = Jobs
  PROVE  PhysicalInv'
<1>1. /\ Jobs' = Jobs /\ Workers' = Workers /\ N' = N /\ EventTypes' = EventTypes
      /\ Answers' = Answers /\ UNCHANGED <<config, policy, release, requested, score>>
      /\ UNCHANGED <<status, running, command, reply, crashes>>
  BY InputKept DEF procs
<1>2. Types'
  BY <1>1 DEF PhysicalInv, Types, Moments
<1>3. ProcessesInv'
  <2>1. FailsOnlyOnExit'
    BY <1>1 DEF FailsOnlyOnExit
  <2>2. ASSUME NEW w \in Workers PROVE WorkerInv(w)'
    <3>1. WorkerInv(w)
      BY DEF PhysicalInv, ProcessesInv
    <3>2. running[w] \in Answers /\ reply[w] \in Answers /\ clock \in Nat
      BY DEF PhysicalInv, Types
    <3>3. /\ running[w].start <= clock => running[w].start <= clock'
          /\ reply[w].finish <= clock => reply[w].finish <= clock'
      BY <3>2 DEF Answers
    <3> QED BY <1>1, <3>1, <3>3 DEF WorkerInv, Nothing
  <2> QED BY <1>1, <2>1, <2>2 DEF ProcessesInv
<1>4. RowsInv' /\ LogInv' /\ CapInv' /\ AuditPasses'
  BY QuietKeeps
<1> QED BY <1>2, <1>3, <1>4 DEF PhysicalInv

\* Steps of a worker process.
LEMMA WorkerKeeps ==
  ASSUME PhysicalInv, NEW w \in Workers, Worker(w) \/ Crash(w)
  PROVE  PhysicalInv'
<1>1. UNCHANGED <<input, clock, disp>>
  BY DEF Worker, Announce, StartJob, FinishJob, LeaveOrTerminate, Crash
<1>2. /\ Jobs' = Jobs /\ Workers' = Workers /\ N' = N /\ EventTypes' = EventTypes
      /\ Answers' = Answers /\ UNCHANGED <<config, policy, release, requested, score>>
      /\ UNCHANGED <<pc, failed, ready, scanned, waiting, nextArrival, row, wakeAt, busy, log>>
  BY <1>1, InputKept DEF disp
<1>3. Types /\ RowsInv /\ WorkerInv(w) /\ crashes \in Nat /\ clock \in Nat
  BY DEF PhysicalInv, ProcessesInv, Types
<1>4. /\ running \in [Workers -> Answers] /\ reply \in [Workers -> Answers]
      /\ command \in [Workers -> Jobs \cup {NoJob}] /\ busy \in [Workers -> Jobs \cup {NoJob}]
      /\ status \in [Workers -> {"starting", "idle", "running", "exited"}]
  BY <1>3 DEF Types
<1>5. Nothing \in Answers /\ Nothing.job = NoJob
  BY DEF Nothing, Answers
<1>6. RowsInv' /\ LogInv' /\ CapInv' /\ AuditPasses'
  <2>1. pc' = "rescan" => Dispatchable
    BY <1>2, <1>3 DEF RowsInv
  <2>2. pc' \in {"stopping", "ended"} /\ ~failed' => Completed = Jobs
    BY <1>2, <1>3 DEF RowsInv
  <2>3. clock' \in Nat /\ clock <= clock'
    BY <1>1, <1>3
  <2> QED BY <1>1, <1>2, <2>1, <2>2, <2>3, QuietKeeps
\* What such a step has to leave right.
<1> DEFINE Right ==
      /\ running' \in [Workers -> Answers] /\ reply' \in [Workers -> Answers]
      /\ command' \in [Workers -> Jobs \cup {NoJob}]
      /\ status' \in [Workers -> {"starting", "idle", "running", "exited"}]
      /\ \A v \in Workers \ {w} :
           /\ running'[v] = running[v] /\ reply'[v] = reply[v] /\ command'[v] = command[v]
           /\ status'[v] = status[v]
      /\ crashes' \in Nat /\ crashes <= crashes'
      /\ WorkerInv(w)'
<1>7. ASSUME Announce(w) PROVE Right
  <2>1. /\ status[w] = "starting" /\ status' = [status EXCEPT ![w] = "idle"]
        /\ UNCHANGED <<running, command, reply, crashes>>
    BY <1>7 DEF Announce
  <2>2. /\ status'[w] = "idle" /\ running'[w] = running[w] /\ reply'[w] = reply[w]
        /\ command'[w] = command[w]
    BY <1>4, <2>1
  <2>3. WorkerInv(w)'
    BY <1>1, <1>2, <1>3, <2>1, <2>2 DEF WorkerInv, Nothing
  <2> QED BY <1>3, <1>4, <2>1, <2>3
<1>8. ASSUME StartJob(w) PROVE Right
  <2> DEFINE begun == [job |-> command[w], start |-> clock, finish |-> 0]
  <2>1. /\ status[w] = "idle" /\ command[w] # NoJob
        /\ status' = [status EXCEPT ![w] = "running"]
        /\ running' = [running EXCEPT ![w] = begun]
        /\ command' = [command EXCEPT ![w] = NoJob]
        /\ UNCHANGED <<reply, crashes>>
    BY <1>8 DEF StartJob
  <2>2. begun \in Answers /\ begun.job = command[w] /\ begun.start = clock
    BY <1>3, <1>4 DEF Answers
  <2> HIDE DEF begun
  <2>3. /\ status'[w] = "running" /\ running'[w] = begun /\ command'[w] = NoJob
        /\ reply'[w] = reply[w]
    BY <1>4, <2>1
  <2>4. /\ command[w] = busy[w] /\ reply[w] = Nothing
    BY <1>3, <2>1 DEF WorkerInv
  <2>5. clock <= clock
    BY <1>3
  <2>6. WorkerInv(w)'
    BY <1>1, <1>2, <1>3, <2>1, <2>2, <2>3, <2>4, <2>5 DEF WorkerInv, Nothing
  <2> QED BY <1>3, <1>4, <2>1, <2>2, <2>6
<1>9. ASSUME FinishJob(w) PROVE Right
  <2> DEFINE answer == [job |-> running[w].job, start |-> running[w].start, finish |-> clock]
  <2>1. /\ status[w] = "running" /\ status' = [status EXCEPT ![w] = "idle"]
        /\ running' = [running EXCEPT ![w] = Nothing]
        /\ reply' = [reply EXCEPT ![w] = [running[w] EXCEPT !.finish = clock]]
        /\ UNCHANGED <<command, crashes>>
    BY <1>9 DEF FinishJob
  <2>2. [running[w] EXCEPT !.finish = clock] = answer
    <3>1. running[w] \in Answers
      BY <1>4
    <3> QED BY <3>1 DEF Answers
  <2>3. /\ answer \in Answers /\ answer.job = running[w].job
        /\ answer.start = running[w].start /\ answer.finish = clock
    <3>1. running[w] \in Answers
      BY <1>4
    <3> QED BY <1>3, <3>1 DEF Answers
  <2> HIDE DEF answer
  <2>4. /\ status'[w] = "idle" /\ running'[w] = Nothing /\ reply'[w] = answer
        /\ command'[w] = command[w]
    BY <1>4, <2>1, <2>2
  <2>5. /\ running[w].job = busy[w] /\ busy[w] # NoJob /\ running[w].start <= clock
        /\ reply[w] = Nothing /\ command[w] = NoJob
    BY <1>3, <2>1 DEF WorkerInv
  <2>6. clock <= clock /\ answer # Nothing
    BY <1>3, <1>5, <2>3, <2>5
  <2>7. WorkerInv(w)'
    BY <1>1, <1>2, <1>3, <2>1, <2>3, <2>4, <2>5, <2>6 DEF WorkerInv, Nothing
  <2> QED BY <1>3, <1>4, <1>5, <2>1, <2>2, <2>3, <2>7
<1>10. ASSUME LeaveOrTerminate(w) \/ Crash(w) PROVE Right
  <2>1. /\ status' = [status EXCEPT ![w] = "exited"]
        /\ running' = [running EXCEPT ![w] = Nothing]
        /\ command' = [command EXCEPT ![w] = NoJob]
        /\ UNCHANGED reply
    BY <1>10 DEF LeaveOrTerminate, Crash, Exit
  <2>2. crashes' \in Nat /\ crashes <= crashes' /\ (crashes' > 0 \/ pc \in {"stopping", "ended"})
    BY <1>3, <1>10 DEF LeaveOrTerminate, Crash
  <2>3. status'[w] = "exited" /\ command'[w] = NoJob /\ reply'[w] = reply[w]
    BY <1>4, <2>1
  <2>4. WorkerInv(w)'
    BY <1>1, <1>2, <1>3, <2>2, <2>3 DEF WorkerInv, Nothing
  <2> QED BY <1>3, <1>4, <1>5, <2>1, <2>2, <2>4
<1>11. Right
  BY <1>7, <1>8, <1>9, <1>10 DEF Worker
<1>12. Types'
  BY <1>1, <1>2, <1>3, <1>11 DEF Types, Moments
<1>13. ProcessesInv'
  <2>1. FailsOnlyOnExit'
    BY <1>2, <1>3, <1>11 DEF PhysicalInv, ProcessesInv, FailsOnlyOnExit
  <2>2. ASSUME NEW v \in Workers \ {w} PROVE WorkerInv(v)'
    <3>1. WorkerInv(v)
      BY DEF PhysicalInv, ProcessesInv
    <3>2. crashes > 0 => crashes' > 0
      BY <1>3, <1>11
    <3>3. /\ running'[v] = running[v] /\ reply'[v] = reply[v] /\ command'[v] = command[v]
          /\ status'[v] = status[v]
      BY <1>11
    <3> QED BY <1>1, <1>2, <3>1, <3>2, <3>3 DEF WorkerInv, Nothing
  <2> QED BY <1>2, <1>11, <2>1, <2>2 DEF ProcessesInv
<1> QED BY <1>6, <1>12, <1>13 DEF PhysicalInv

\* A completion is taken from the pipe, an arrival touches no pipe, and a job goes to a
\* worker whose pipes are empty.
LEMMA ReceiveKeepsProcesses ==
  ASSUME PhysicalInv, NEW w \in Workers, Receive(w)
  PROVE  ProcessesInv'
<1>1. /\ reply[w] \in [job : Jobs, start : Nat, finish : Nat]
      /\ busy[w] = reply[w].job /\ busy' = [busy EXCEPT ![w] = NoJob]
      /\ pc' = pc /\ failed' = failed
  BY ReceiveAnswers
<1>2. /\ UNCHANGED <<input, clock, status, running, command, crashes>>
      /\ reply' = [reply EXCEPT ![w] = Nothing] /\ ready' = ready \ {<<w, "reply">>}
  BY DEF Receive
<1>3. Workers' = Workers
  BY <1>2, InputKept
<1>4. busy \in [Workers -> Jobs \cup {NoJob}] /\ reply \in [Workers -> Answers]
  BY DEF PhysicalInv, Types
<1>5. reply[w] # Nothing
  <2>1. reply[w].job # NoJob /\ Nothing.job = NoJob
    BY <1>1, Sizes DEF PhysicalInv, Nothing
  <2> QED BY <2>1
<1>6. ASSUME NEW v \in Workers PROVE WorkerInv(v)'
  <2>1. WorkerInv(v)
    BY DEF PhysicalInv, ProcessesInv
  <2>2. CASE v = w
    <3>1. reply'[v] = Nothing /\ <<v, "reply">> \notin ready'
      BY <1>2, <1>4, <2>2
    <3>2. command[v] = NoJob /\ status[v] # "running"
      BY <1>5, <2>1, <2>2 DEF WorkerInv
    <3> QED BY <1>1, <1>2, <2>1, <3>1, <3>2 DEF WorkerInv, Nothing
  <2>3. CASE v # w
    <3>1. busy'[v] = busy[v] /\ reply'[v] = reply[v]
      BY <1>1, <1>2, <1>4, <2>3
    <3> QED BY <1>1, <1>2, <2>1, <3>1 DEF WorkerInv, Nothing
  <2> QED BY <2>2, <2>3
<1>7. FailsOnlyOnExit'
  BY <1>1, <1>2 DEF PhysicalInv, ProcessesInv, FailsOnlyOnExit
<1> QED BY <1>3, <1>6, <1>7 DEF ProcessesInv

LEMMA EnqueueKeepsProcesses ==
  ASSUME PhysicalInv, Enqueue
  PROVE  ProcessesInv'
<1>1. UNCHANGED <<input, clock, pc, failed, ready, busy, status, running, command, reply, crashes>>
  BY DEF Enqueue, procs
<1>2. Workers' = Workers
  BY <1>1, InputKept
<1>3. ASSUME NEW v \in Workers PROVE WorkerInv(v)'
  <2>1. WorkerInv(v)
    BY DEF PhysicalInv, ProcessesInv
  <2> QED BY <1>1, <2>1 DEF WorkerInv, Nothing
<1> QED BY <1>1, <1>2, <1>3 DEF PhysicalInv, ProcessesInv, FailsOnlyOnExit

LEMMA DispatchKeepsProcesses ==
  ASSUME PhysicalInv, Dispatch, status[Min(Idle)] # "exited"
  PROVE  ProcessesInv'
<1> PICK w : w = Min(Idle)
  OBVIOUS
<1> PICK j : j = Chosen(clock)
  OBVIOUS
<1>1. /\ pc = "rescan" /\ pc' = "loop"
      /\ busy' = [busy EXCEPT ![w] = j] /\ command' = [command EXCEPT ![w] = j]
      /\ UNCHANGED <<input, clock, failed, ready, status, running, reply, crashes>>
  BY DEF Dispatch, Goto
<1>2. Workers' = Workers
  BY <1>1, InputKept
<1>3. /\ Idle # {} /\ waiting # {} /\ Types /\ RowsInv /\ LogInv
      /\ busy \in [Workers -> Jobs \cup {NoJob}] /\ command \in [Workers -> Jobs \cup {NoJob}]
  BY <1>1 DEF PhysicalInv, Types, RowsInv, Dispatchable
<1>4. w \in Workers /\ busy[w] = NoJob
  BY <1>3, ServedByIdle
<1>5. j # NoJob
  <2>1. j \in waiting /\ waiting \subseteq Jobs
    BY <1>3, ChosenIsExpected, FileTellsState
  <2> QED BY <1>3, <2>1, Sizes
<1>6. ASSUME NEW v \in Workers PROVE WorkerInv(v)'
  <2>1. WorkerInv(v)
    BY DEF PhysicalInv, ProcessesInv
  <2>2. CASE v = w
    <3>1. busy'[v] = j /\ command'[v] = j
      BY <1>1, <1>3, <2>2
    <3>2. status[v] # "running" /\ reply[v] = Nothing
      BY <1>4, <2>1, <2>2 DEF WorkerInv
    <3> QED BY <1>1, <2>1, <3>1, <3>2 DEF WorkerInv, Nothing
  <2>3. CASE v # w
    <3>1. busy'[v] = busy[v] /\ command'[v] = command[v]
      BY <1>1, <1>3, <2>3
    <3> QED BY <1>1, <2>1, <3>1 DEF WorkerInv, Nothing
  <2> QED BY <2>2, <2>3
<1>7. FailsOnlyOnExit'
  BY <1>1 DEF PhysicalInv, ProcessesInv, FailsOnlyOnExit
<1> QED BY <1>2, <1>6, <1>7 DEF ProcessesInv

---------------------------------------------------------------------------
(* The invariant holds at the start and every step keeps it.               *)

LEMMA InitPhysical ==
  ASSUME Init PROVE PhysicalInv
<1>1. /\ config \in Configs /\ config.policies \subseteq {"FCFS", "SPJF-E", "Guard"}
      /\ config.releases \subseteq Nat /\ config.requests \subseteq Nat \ {0}
      /\ config.scores \subseteq Int /\ N \in Nat \ {0}
  BY ConfigAssumption DEF Init, ConfigAssumption, N
<1>2. Nothing \in Answers /\ Unknown \in Moments /\ NoJob \notin Jobs
  BY NoJobAssumption, <1>1 DEF Nothing, Answers, Moments, NoJobAssumption, Jobs
<1>3. Types
  <2>1. <<>> \in Seq(EventTypes)
    OBVIOUS
  <2>2. row \in [Jobs -> [enqueue : Moments, dispatch : Moments, start : Moments,
                          finish : Moments]]
    BY <1>2 DEF Init
  <2> QED BY <1>1, <1>2, <2>1, <2>2 DEF Init, Types
<1>4. Completed = {} /\ Dispatched = {} /\ Given = {}
  BY DEF Init, Completed, Dispatched, Given
<1>5. ProcessesInv
  <2>1. ASSUME NEW w \in Workers PROVE WorkerInv(w)
    BY <2>1 DEF Init, WorkerInv
  <2> QED BY <2>1 DEF Init, ProcessesInv, FailsOnlyOnExit
<1>6. RowsInv
  <2>1. \A j \in Jobs : ~(j < nextArrival)
    BY <1>1 DEF Init, Jobs
  <2>2. \A j \in Jobs : /\ row[j].enqueue = Unknown /\ row[j].dispatch = Unknown
                        /\ row[j].start = Unknown
    BY DEF Init
  <2>3. Unknown <= clock
    BY DEF Init, Unknown
  <2>4. \A v, w \in Workers : ~(busy[v] # NoJob)
    BY DEF Init
  <2>5. pc = "starting" /\ waiting = {}
    BY DEF Init
  <2> QED BY <1>4, <2>1, <2>2, <2>3, <2>4, <2>5 DEF RowsInv
<1>7. LogInv
  <2>1. log = <<>> /\ DOMAIN log = {}
    BY DEF Init
  <2>2. \A type : Events(type, log) = {}
    BY <2>1 DEF Events
  <2>3. \A type : JobsOf(type, log) = {}
    BY <2>2 DEF JobsOf
  <2>4. \A w \in Workers : InHand(w, log) = {} /\ busy[w] = NoJob
    BY <2>2 DEF InHand, Init
  <2>5. \A j \in Jobs : ~(j < nextArrival)
    BY <1>1 DEF Init, Jobs
  <2> QED BY <1>4, <2>1, <2>2, <2>3, <2>4, <2>5 DEF LogInv
<1>8. CapInv
  BY <1>4 DEF CapInv, PassedBy
<1>9. AuditPasses
  BY DEF Init, AuditPasses, RunOver
<1> QED BY <1>3, <1>5, <1>6, <1>7, <1>8, <1>9 DEF PhysicalInv

LEMMA DispatcherKeeps ==
  ASSUME PhysicalInv, Dispatcher \/ ProgressWake
  PROVE  PhysicalInv'
<1>1. /\ clock \in Nat /\ scanned \in Nat /\ scanned <= clock /\ clock <= clock
      /\ (failed => crashes > 0) /\ RowsInv
      /\ \A w \in Workers : WorkerInv(w)
  BY DEF PhysicalInv, Types, ProcessesInv, FailsOnlyOnExit
<1>2. \A w \in Workers : /\ <<w, "reply">> \in ready => reply[w] # Nothing
                         /\ <<w, "exit">> \in ready => status[w] = "exited"
  BY <1>1 DEF WorkerInv
<1>3. ASSUME pc \notin {"stopping", "ended"}, NEW w \in Workers, status[w] = "exited"
      PROVE  crashes > 0
  BY <1>1, <1>3 DEF WorkerInv
<1>4. CASE Begin
  <2>1. /\ pc = "starting" /\ UNCHANGED <<input, row, waiting, nextArrival, busy, log, procs>>
        /\ UNCHANGED <<clock, scanned, ready>>
    BY <1>4 DEF Begin
  <2>2. CASE pc' = "receive" /\ failed' = failed
    BY <1>1, <1>2, <2>1, <2>2, ControlKeeps
  <2>3. CASE Exits # {} /\ pc' = "stopping" /\ failed' = TRUE
    <3>1. PICK w \in Workers : status[w] = "exited"
      BY <2>3 DEF Exits
    <3>2. crashes > 0
      BY <1>3, <2>1, <3>1
    <3> QED BY <1>1, <1>2, <2>1, <2>3, <3>2, ControlKeeps
  <2> QED BY <1>4, <2>2, <2>3 DEF Begin, Goto, Fail
<1>5. CASE Received
  BY <1>1, <1>2, <1>5, ControlKeeps DEF Received, Goto
<1>6. CASE Enqueue
  BY <1>6, EnqueueKeeps, EnqueueKeepsProcesses DEF PhysicalInv
<1>7. CASE Scanned
  BY <1>1, <1>2, <1>7, ControlKeeps DEF Scanned, Goto
<1>8. CASE Rescan
  BY <1>1, <1>2, <1>8, ControlKeeps DEF Rescan, Goto
<1>9. CASE Dispatch
  <2>1. CASE status[Min(Idle)] # "exited"
    BY <1>9, <2>1, DispatchKeeps, DispatchKeepsProcesses DEF PhysicalInv
  <2>2. CASE status[Min(Idle)] = "exited"
    <3>1. /\ pc = "rescan" /\ pc' = "stopping" /\ failed' = TRUE
          /\ UNCHANGED <<input, row, waiting, nextArrival, busy, log, procs>>
          /\ UNCHANGED <<clock, scanned, ready>>
      BY <1>9, <2>2 DEF Dispatch, Fail, procs
    <3>2. Min(Idle) \in Workers
      BY <1>1, <3>1, ServedByIdle DEF PhysicalInv, RowsInv, Dispatchable
    <3>3. crashes > 0
      BY <1>3, <2>2, <3>1, <3>2
    <3> QED BY <1>1, <1>2, <3>1, <3>3, ControlKeeps
  <2> QED BY <2>1, <2>2
<1>10. CASE Settle
  <2>1. /\ pc = "loop" /\ UNCHANGED <<input, row, waiting, nextArrival, busy, log, procs>>
        /\ UNCHANGED <<clock, scanned, ready, failed>>
        /\ pc' \in {"stopping", "wait"} /\ (pc' = "stopping" => Completed = Jobs)
    BY <1>10 DEF Settle, Goto, Finished
  <2> QED BY <1>1, <1>2, <2>1, ControlKeeps
<1>11. CASE Wake \/ ProgressWake
  <2>1. /\ pc = "wait" /\ UNCHANGED <<input, row, waiting, nextArrival, busy, log, procs>>
        /\ UNCHANGED <<clock, scanned, failed>>
        /\ pc' = "receive" /\ ready' = Readable \cup Exits
    BY <1>11 DEF Wake, ProgressWake, WakeWith, Goto
  <2>2. \A w \in Workers : /\ <<w, "reply">> \in ready' => reply[w] # Nothing
                           /\ <<w, "exit">> \in ready' => status[w] = "exited"
    BY <2>1 DEF Readable, Exits
  <2> QED BY <1>1, <2>1, <2>2, ControlKeeps
<1>12. CASE Ended
  <2>1. ~failed => Completed = Jobs
    BY <1>1, <1>12 DEF Ended, RowsInv
  <2> QED BY <1>1, <1>2, <1>12, <2>1, ControlKeeps DEF Ended, Goto
<1>13. ASSUME NEW w \in Workers, Receive(w) PROVE PhysicalInv'
  BY <1>13, ReceiveKeeps, ReceiveKeepsProcesses DEF PhysicalInv
<1>14. ASSUME NEW w \in Workers, WorkerExited(w) PROVE PhysicalInv'
  <2>1. /\ pc = "receive" /\ <<w, "exit">> \in ready /\ pc' = "stopping" /\ failed' = TRUE
        /\ UNCHANGED <<input, row, waiting, nextArrival, busy, log, procs>>
        /\ UNCHANGED <<clock, scanned, ready>>
    BY <1>14 DEF WorkerExited, Fail
  <2>2. crashes > 0
    BY <1>2, <1>3, <2>1
  <2> QED BY <1>1, <1>2, <2>1, <2>2, ControlKeeps
<1> QED BY <1>4, <1>5, <1>6, <1>7, <1>8, <1>9, <1>10, <1>11, <1>12, <1>13, <1>14 DEF Dispatcher

LEMMA PhysicalStep ==
  ASSUME PhysicalInv, [Next]_vars
  PROVE  PhysicalInv'
<1>1. /\ clock \in Nat /\ scanned \in Nat /\ scanned <= clock /\ clock <= clock
      /\ (failed => crashes > 0) /\ RowsInv
      /\ \A w \in Workers : /\ <<w, "reply">> \in ready => reply[w] # Nothing
                            /\ <<w, "exit">> \in ready => status[w] = "exited"
  BY DEF PhysicalInv, Types, ProcessesInv, FailsOnlyOnExit, WorkerInv
<1>2. CASE Dispatcher \/ ProgressWake
  BY <1>2, DispatcherKeeps
<1>3. ASSUME NEW w \in Workers, Worker(w) \/ Crash(w) PROVE PhysicalInv'
  BY <1>3, WorkerKeeps
<1>4. CASE Tick
  <2>1. /\ UNCHANGED <<input, row, waiting, nextArrival, busy, log, procs>>
        /\ UNCHANGED <<pc, failed, scanned, ready>> /\ clock' = clock + 1
        /\ pc \notin {"stopping", "ended"}
    BY <1>4 DEF Tick, disp
  <2>2. clock' \in Nat /\ clock <= clock' /\ scanned <= clock'
    BY <1>1, <2>1
  <2> QED BY <1>1, <2>1, <2>2, ControlKeeps DEF RowsInv
<1>5. CASE UNCHANGED vars
  <2>1. /\ UNCHANGED <<input, row, waiting, nextArrival, busy, log, procs>>
        /\ UNCHANGED <<pc, failed, scanned, ready, clock>>
    BY <1>5 DEF vars, disp
  <2> QED BY <1>1, <2>1, ControlKeeps DEF RowsInv
<1> QED BY <1>2, <1>3, <1>4, <1>5 DEF Next, Closed

\* The inductive invariant holds in every state of every run of the physical service.
THEOREM PhysicalInvariant == Spec => []PhysicalInv
<1>1. Init => PhysicalInv
  BY InitPhysical
<1>2. PhysicalInv /\ [Next]_vars => PhysicalInv'
  BY PhysicalStep
<1> QED BY <1>1, <1>2, PTL DEF Spec

\* The event file passes the audit: every event is what the rule says of the events
\* before it (audit_event_prefix), and the file of a run that is over has every job
\* dispatched and completed.
THEOREM AuditAlwaysPasses == Spec => []AuditPasses
<1>1. PhysicalInv => AuditPasses
  BY DEF PhysicalInv
<1> QED BY <1>1, PhysicalInvariant, PTL

\* The dispatcher fails only if a worker process exited: it never takes a message for
\* the answer to another job.
THEOREM FailsOnlyOnCrash == Spec => []FailsOnlyOnExit
<1>1. PhysicalInv => FailsOnlyOnExit
  BY DEF PhysicalInv, ProcessesInv
<1> QED BY <1>1, PhysicalInvariant, PTL

---------------------------------------------------------------------------
(* The bound on overtaking.                                                *)

LEMMA LongestHeld ==
  ASSUME Types, RowsInv
  PROVE  L \in Nat /\ \A j \in Jobs : Held[j] <= L
<1> DEFINE S == {Held[j] : j \in Jobs}
           f == [j \in Jobs |-> Held[j]]
<1>1. f \in Surjection(Jobs, S)
  BY DEF Surjection
<1>2. IsFiniteSet(S) /\ S # {} /\ S \subseteq Nat
  <2>1. IsFiniteSet(S)
    BY <1>1, Sizes, FS_Surjection
  <2>2. 1 \in Jobs
    BY Sizes
  <2>3. \A j \in Jobs : Held[j] \in Nat
    BY HeldTypes
  <2> QED BY <2>1, <2>2, <2>3
<1>3. \E x \in S : \A y \in S : x >= y
  <2> HIDE DEF S
  <2>1. S \subseteq Int
    BY <1>2
  <2> QED BY <1>2, <2>1, IntMax
<1>4. L \in S /\ \A y \in S : L >= y
  <2>1. L = CHOOSE x \in S : \A y \in S : x >= y
    BY DEF L, Max
  <2> HIDE DEF S
  <2> QED BY <1>3, <2>1
<1>5. ASSUME NEW j \in Jobs PROVE Held[j] <= L
  <2>1. Held[j] \in S /\ Held[j] \in Nat
    BY HeldTypes
  <2> HIDE DEF S
  <2> QED BY <1>2, <1>4, <2>1
<1> QED BY <1>2, <1>4, <1>5

LEMMA SplitBoundsWork ==
  ASSUME Types, RowsInv, NEW j \in Jobs, PassedBy(j) \subseteq Completed,
         NEW C \in SUBSET PassedBy(j), WithinBudget(j, C)
  PROVE  Work(PassedBy(j)) \in Nat /\ Work(PassedBy(j)) <= Work(C) + K * L /\ Work(C) \in Nat
<1> PICK P : P = PassedBy(j)
  OBVIOUS
<1> DEFINE D == P \ C
<1>1. P \subseteq Jobs /\ IsFiniteSet(P) /\ IsFiniteSet(C) /\ IsFiniteSet(D) /\ P = C \cup D
      /\ C \cap D = {}
  <2>1. P \subseteq Completed /\ Completed \subseteq Jobs /\ IsFiniteSet(Completed)
    BY HeldTypes
  <2> QED BY <2>1, FS_Subset
<1>2. \A i \in P : Held[i] \in Nat /\ Held[i] <= L
  BY <1>1, HeldTypes, LongestHeld
<1>3. L \in Nat /\ K \in Nat
  BY LongestHeld, Sizes
<1>4. WorkOf(C \cup D, Held) = WorkOf(C, Held) + WorkOf(D, Held)
  <2>1. \A i \in C \cup D : Held[i] \in Nat
    BY <1>1, <1>2
  <2> HIDE DEF D
  <2> QED BY <1>1, <2>1, WorkSplit
<1>5. WorkOf(D, Held) <= Cardinality(D) * L
  <2>1. \A i \in D : Held[i] \in Nat /\ Held[i] <= L
    BY <1>1, <1>2
  <2> HIDE DEF D
  <2> QED BY <1>1, <1>3, <2>1, WorkLimit
<1>6. Cardinality(D) \in Nat /\ Cardinality(D) <= K
  BY <1>1, FS_CardinalityType DEF WithinBudget
<1>7. Cardinality(D) * L <= K * L
  <2>1. \A a, b, c \in Nat : a <= b => a * c <= b * c
    OBVIOUS
  <2> HIDE DEF D
  <2> QED BY <1>3, <1>6, <2>1
<1>8. WorkOf(C, Held) \in Nat /\ WorkOf(D, Held) \in Nat
  <2>1. (\A i \in C : Held[i] \in Nat) /\ \A i \in D : Held[i] \in Nat
    BY <1>1, <1>2
  <2> HIDE DEF D
  <2> QED BY <1>1, <2>1, WorkType
<1>9. Cardinality(D) * L \in Nat /\ K * L \in Nat
  <2>1. \A a, b \in Nat : a * b \in Nat
    OBVIOUS
  <2> HIDE DEF D
  <2> QED BY <1>3, <1>6, <2>1
<1>10. Work(P) = Work(C) + WorkOf(D, Held) /\ Work(C) \in Nat
  BY <1>1, <1>4, <1>8 DEF Work
<1> HIDE DEF D
<1> QED BY <1>5, <1>7, <1>8, <1>9, <1>10

\* lemma8 and lemma9 of check_stall_bound.py: when a run is over, the jobs dispatched
\* past a job did less work than its budget and one job of each worker.
THEOREM OvertakingIsCapped == Spec => []OvertakingCapped
<1>1. ASSUME PhysicalInv PROVE OvertakingCapped
  <2> SUFFICES ASSUME RunOver, policy = "Guard", NEW j \in Jobs, Passers(j) # {}
               PROVE  /\ In(j) < Bmax + K * L
                      /\ In(j) < B0 + EtaK * WaitToDispatch(j) + K * L
    BY DEF OvertakingCapped
  <2>1. Types /\ RowsInv /\ CapInv
    BY <1>1 DEF PhysicalInv
  <2>2. Completed = Jobs /\ Dispatched = Jobs /\ j < nextArrival
    BY <2>1 DEF RunOver, RowsInv, Dispatched
  <2>3. Passers(j) = PassedBy(j)
    BY <2>2 DEF Passers, PassedBy
  <2>4. PassedBy(j) # {}
    BY <2>3
  <2>5. PICK C \in SUBSET (PassedBy(j) \cap Completed) : WithinBudget(j, C)
    BY <2>1, <2>2, <2>4 DEF CapInv
  <2>6. In(j) \in Nat /\ In(j) <= Work(C) + K * L /\ Work(C) \in Nat
    <3>1. PassedBy(j) \subseteq Completed
      BY <2>2 DEF PassedBy
    <3> QED BY <2>1, <2>3, <2>5, <3>1, SplitBoundsWork DEF In
  <2>7. Work(C) < Bmax /\ Work(C) < B0 + EtaK * WaitToDispatch(j)
    BY <2>2, <2>5 DEF WithinBudget, Passed, WaitToDispatch
  <2>8. K * L \in Int /\ Bmax \in Int /\ B0 + EtaK * WaitToDispatch(j) \in Int
    <3>1. WaitToDispatch(j) \in Int
      <4>1. row[j].dispatch \in Moments /\ row[j].enqueue \in Moments
        BY <2>1 DEF Types
      <4> QED BY <4>1 DEF WaitToDispatch, Moments, Unknown
    <3>2. EtaK * WaitToDispatch(j) \in Int /\ K * L \in Int
      BY <2>1, <3>1, Sizes, LongestHeld
    <3> QED BY <2>1, <3>2, Sizes
  <2> QED BY <2>6, <2>7, <2>8
<1> QED BY <1>1, PhysicalInvariant, PTL

---------------------------------------------------------------------------
(* The order of the instants.                                              *)

\* Jobs were enqueued in order of rank, the file is in order of time, and a worker had
\* finished each job before it was given the next.
InOrder(w) ==
  /\ status[w] = "running" => row[running[w].job].dispatch <= running[w].start
  /\ reply[w] # Nothing =>
       row[reply[w].job].dispatch <= reply[w].start /\ reply[w].start < reply[w].finish
OrderInv ==
  /\ \A i, j \in Jobs : i <= j /\ j < nextArrival => row[i].enqueue <= row[j].enqueue
  /\ \A j \in Dispatched : row[j].enqueue <= row[j].dispatch
  /\ \A j \in Completed :
       row[j].dispatch <= row[j].start /\ row[j].start < row[j].finish /\ row[j].finish <= clock
  /\ \A i, k \in DOMAIN log : i <= k => log[i].at <= log[k].at
  /\ \A i \in Events("dispatch", log) : log[i].at = row[log[i].job].dispatch
  /\ \A i, k \in Events("dispatch", log) : i < k /\ log[i].worker = log[k].worker =>
       log[i].job \in Completed /\ row[log[i].job].finish <= log[k].at
  /\ \A w \in Workers : InOrder(w)

\* A new event is the last one, in place and in time.
LEMMA FileInOrder ==
  ASSUME Types, LogInv, OrderInv, NEW e \in EventTypes, log' = Append(log, e), e.at = clock
  PROVE  /\ \A i, k \in DOMAIN log' : i <= k => log'[i].at <= log'[k].at
         /\ Events("dispatch", log') =
              Events("dispatch", log) \cup (IF e.type = "dispatch" THEN {Len(log) + 1} ELSE {})
         /\ \A i \in Events("dispatch", log) : /\ log'[i] = log[i] /\ i \in Int /\ i < Len(log) + 1
                                               /\ log[i].job \in Jobs
         /\ log'[Len(log) + 1] = e /\ Len(log) \in Nat
<1>1. /\ Len(log) \in Nat /\ DOMAIN log = 1 .. Len(log) /\ DOMAIN log' = 1 .. Len(log) + 1
      /\ \A i \in 1 .. Len(log) : log'[i] = log[i]
      /\ log'[Len(log) + 1] = e
  BY Appended DEF Types
<1>2. /\ Events("dispatch", log) \subseteq 1 .. Len(log)
      /\ Events("dispatch", log') =
           Events("dispatch", log) \cup (IF e.type = "dispatch" THEN {Len(log) + 1} ELSE {})
  BY EventsAppended DEF Types
<1>3. ASSUME NEW i \in DOMAIN log', NEW k \in DOMAIN log', i <= k
      PROVE  log'[i].at <= log'[k].at
  <2>1. CASE k \in 1 .. Len(log)
    BY <1>1, <1>3, <2>1 DEF OrderInv
  <2>2. CASE k = Len(log) + 1 /\ i \in 1 .. Len(log)
    BY <1>1, <2>2 DEF LogInv
  <2>3. CASE k = Len(log) + 1 /\ i = Len(log) + 1
    BY <1>1, <2>3 DEF Types
  <2> QED BY <1>1, <2>1, <2>2, <2>3
<1>4. ASSUME NEW i \in Events("dispatch", log) PROVE log[i].job \in Jobs
  <2>1. log[i].job \in JobsOf("dispatch", log)
    BY DEF JobsOf
  <2> QED BY <2>1 DEF LogInv, Dispatched
<1> QED BY <1>1, <1>2, <1>3, <1>4

LEMMA QuietInOrder ==
  ASSUME PhysicalInv, OrderInv, UNCHANGED <<input, row, nextArrival, log>>,
         clock' \in Nat, clock <= clock', \A w \in Workers : InOrder(w)'
  PROVE  OrderInv'
<1>1. Jobs' = Jobs /\ Workers' = Workers
  BY InputKept
<1>2. Completed' = Completed /\ Dispatched' = Dispatched
  BY <1>1 DEF Completed, Dispatched
<1>3. ASSUME NEW j \in Completed PROVE row[j].finish <= clock'
  <2>1. row[j].finish \in Int /\ clock \in Int
    BY DEF PhysicalInv, Types, Moments, Unknown, Completed
  <2> QED BY <2>1 DEF OrderInv
<1> QED BY <1>1, <1>2, <1>3 DEF OrderInv

LEMMA WorkersInOrder ==
  ASSUME PhysicalInv, OrderInv, NEW w \in Workers, Worker(w) \/ Crash(w)
  PROVE  OrderInv'
<1>1. UNCHANGED <<input, clock, row, nextArrival, busy, log>> /\ clock \in Nat
  BY DEF Worker, Announce, StartJob, FinishJob, LeaveOrTerminate, Crash, disp, PhysicalInv,
         Types
<1>2. /\ running \in [Workers -> Answers] /\ reply \in [Workers -> Answers]
      /\ status \in [Workers -> {"starting", "idle", "running", "exited"}]
      /\ InOrder(w) /\ WorkerInv(w) /\ RowsInv /\ Types
  BY DEF PhysicalInv, Types, OrderInv, ProcessesInv
<1>3. ASSUME NEW v \in Workers \ {w} PROVE InOrder(v)'
  <2>1. running'[v] = running[v] /\ reply'[v] = reply[v] /\ status'[v] = status[v]
    BY <1>2 DEF Worker, Announce, StartJob, FinishJob, LeaveOrTerminate, Crash, Exit
  <2>2. InOrder(v)
    BY DEF OrderInv
  <2> QED BY <1>1, <2>1, <2>2 DEF InOrder, Nothing
<1>4. ASSUME Announce(w) \/ LeaveOrTerminate(w) \/ Crash(w) PROVE InOrder(w)'
  <2>1. status'[w] # "running" /\ reply'[w] = reply[w]
    BY <1>2, <1>4 DEF Announce, LeaveOrTerminate, Crash, Exit
  <2> QED BY <1>1, <1>2, <2>1 DEF InOrder, Nothing
<1>5. ASSUME StartJob(w) PROVE InOrder(w)'
  <2>1. /\ running'[w].job = command[w] /\ running'[w].start = clock /\ reply'[w] = reply[w]
        /\ command[w] # NoJob
    BY <1>2, <1>5 DEF StartJob
  <2>2. command[w] \in Jobs
    BY <1>2, <2>1 DEF Types
  <2>3. row[command[w]].dispatch <= clock
    BY <1>2, <2>2 DEF RowsInv
  <2> QED BY <1>1, <1>2, <2>1, <2>3 DEF InOrder, Nothing
<1>6. ASSUME FinishJob(w) PROVE InOrder(w)'
  <2>1. /\ status[w] = "running" /\ status'[w] = "idle"
        /\ clock - running[w].start >= requested[running[w].job]
        /\ reply'[w] = [running[w] EXCEPT !.finish = clock]
    BY <1>2, <1>6 DEF FinishJob, Elapsed
  <2>2. running[w] \in Answers /\ running[w].job \in Jobs
    BY <1>2, <2>1 DEF WorkerInv, Types
  <2>3. /\ reply'[w].job = running[w].job /\ reply'[w].start = running[w].start
        /\ reply'[w].finish = clock
    BY <2>1, <2>2 DEF Answers
  <2>4. running[w].start < clock
    <3>1. requested[running[w].job] \in Nat \ {0} /\ running[w].start \in Nat
      BY <1>2, <2>2 DEF Types, Answers
    <3> QED BY <1>1, <2>1, <3>1
  <2> QED BY <1>1, <1>2, <2>1, <2>3, <2>4 DEF InOrder
<1>7. \A v \in Workers : InOrder(v)'
  BY <1>3, <1>4, <1>5, <1>6 DEF Worker
<1>8. clock <= clock'
  BY <1>1
<1> QED BY <1>1, <1>7, <1>8, QuietInOrder

LEMMA EnqueueInOrder ==
  ASSUME PhysicalInv, OrderInv, Enqueue
  PROVE  OrderInv'
<1> DEFINE j == nextArrival
           e == [type |-> "enqueue", job |-> j, at |-> clock, ahead |-> Cardinality(waiting)]
<1>1. /\ row' = [row EXCEPT ![j].enqueue = clock] /\ log' = Append(log, e) /\ nextArrival' = j + 1
      /\ j <= N /\ UNCHANGED <<input, clock, status, running, reply>>
  BY DEF Enqueue, Due, procs
<1>2. Types /\ RowsInv /\ LogInv /\ Jobs' = Jobs /\ Workers' = Workers
  BY <1>1, InputKept DEF PhysicalInv
<1>3. j \in Jobs /\ j \in Nat /\ clock \in Nat /\ Jobs \subseteq Nat
  <2>1. j \in 1 .. N + 1 /\ clock \in Nat
    BY <1>2 DEF Types
  <2>2. Jobs = 1 .. N /\ N \in Nat
    BY <1>2, Sizes
  <2> QED BY <1>1, <2>1, <2>2
<1>4. /\ \A i \in Jobs : /\ row'[i].dispatch = row[i].dispatch /\ row'[i].start = row[i].start
                         /\ row'[i].finish = row[i].finish
                         /\ row'[i].enqueue = IF i = j THEN clock ELSE row[i].enqueue
  BY <1>1, <1>2, <1>3 DEF Types
<1>5. Completed' = Completed /\ Dispatched' = Dispatched /\ j \notin Dispatched
  BY <1>2, <1>3, <1>4 DEF Completed, Dispatched, RowsInv
<1>6. e \in EventTypes /\ e.at = clock /\ e.type # "dispatch"
  <2>1. Cardinality(waiting) \in Nat
    BY <1>2, Sizes, FS_Subset, FS_CardinalityType DEF RowsInv
  <2> QED BY <1>3, <2>1 DEF EventTypes
<1> HIDE DEF e
<1>7. /\ \A i, k \in DOMAIN log' : i <= k => log'[i].at <= log'[k].at
      /\ Events("dispatch", log') = Events("dispatch", log)
      /\ \A i \in Events("dispatch", log) : log'[i] = log[i] /\ log[i].job \in Jobs
  BY <1>1, <1>2, <1>6, FileInOrder
<1>8. ASSUME NEW i \in Jobs, NEW k \in Jobs, i <= k, k < nextArrival'
      PROVE  row'[i].enqueue <= row'[k].enqueue
  <2>1. CASE k < j
    BY <1>3, <1>4, <1>8, <2>1 DEF OrderInv
  <2>2. CASE k = j
    BY <1>2, <1>3, <1>4, <2>2 DEF RowsInv
  <2> QED BY <1>1, <1>3, <1>8, <2>1, <2>2
<1>9. \A i \in Dispatched' : row'[i].enqueue <= row'[i].dispatch
  <2>1. \A i \in Dispatched : i \in Jobs /\ i # j
    BY <1>5 DEF Dispatched
  <2> QED BY <1>4, <1>5, <2>1 DEF OrderInv
<1>10. \A i \in Completed' : /\ row'[i].dispatch <= row'[i].start /\ row'[i].start < row'[i].finish
                             /\ row'[i].finish <= clock'
  BY <1>1, <1>4, <1>5 DEF OrderInv, Completed
<1>11. /\ \A i \in Events("dispatch", log') : log'[i].at = row'[log'[i].job].dispatch
       /\ \A i, k \in Events("dispatch", log') : i < k /\ log'[i].worker = log'[k].worker =>
            log'[i].job \in Completed' /\ row'[log'[i].job].finish <= log'[k].at
  BY <1>4, <1>5, <1>7 DEF OrderInv
<1>12. ASSUME NEW w \in Workers PROVE InOrder(w)'
  <2>1. InOrder(w) /\ WorkerInv(w) /\ busy[w] \in Jobs \cup {NoJob}
    BY <1>2 DEF OrderInv, PhysicalInv, ProcessesInv, Types
  <2>2. status[w] = "running" => row'[running[w].job].dispatch = row[running[w].job].dispatch
    BY <1>4, <2>1 DEF WorkerInv
  <2>3. reply[w] # Nothing => row'[reply[w].job].dispatch = row[reply[w].job].dispatch
    BY <1>4, <2>1 DEF WorkerInv
  <2> QED BY <1>1, <2>1, <2>2, <2>3 DEF InOrder, Nothing
<1> QED BY <1>2, <1>7, <1>8, <1>9, <1>10, <1>11, <1>12 DEF OrderInv

LEMMA ReceiveInOrder ==
  ASSUME PhysicalInv, OrderInv, NEW w \in Workers, Receive(w)
  PROVE  OrderInv'
<1> DEFINE j == reply[w].job
           e == [type |-> "completion", job |-> j, worker |-> w, at |-> clock,
                 held |-> reply[w].finish - reply[w].start]
<1>1. /\ reply[w] \in [job : Jobs, start : Nat, finish : Nat] /\ reply[w] # Nothing
      /\ busy[w] = j /\ j \in Dispatched \ Completed
      /\ reply[w].start <= reply[w].finish /\ reply[w].finish <= clock
      /\ row' = [row EXCEPT ![j].start = reply[w].start, ![j].finish = reply[w].finish]
      /\ log' = Append(log, e)
  <2>1. WorkerInv(w) /\ <<w, "reply">> \in ready
    BY DEF PhysicalInv, ProcessesInv, Receive
  <2> QED BY <2>1, ReceiveAnswers DEF Recorded, WorkerInv
<1>2. /\ UNCHANGED <<input, clock, nextArrival, status, running>>
      /\ reply' = [reply EXCEPT ![w] = Nothing]
  BY DEF Receive
<1>3. Types /\ RowsInv /\ LogInv /\ Jobs' = Jobs /\ Workers' = Workers
  BY <1>2, InputKept DEF PhysicalInv
<1>4. j \in Jobs /\ clock \in Nat
  BY <1>1, <1>3 DEF Types
<1>5. /\ \A i \in Jobs : row'[i].enqueue = row[i].enqueue /\ row'[i].dispatch = row[i].dispatch
      /\ \A i \in Jobs : /\ row'[i].start = IF i = j THEN reply[w].start ELSE row[i].start
                         /\ row'[i].finish = IF i = j THEN reply[w].finish ELSE row[i].finish
  BY <1>1, <1>3, <1>4 DEF Types
<1>6. Completed' = Completed \cup {j} /\ Dispatched' = Dispatched
  <2>1. reply[w].finish # Unknown
    BY <1>1 DEF Unknown
  <2> HIDE DEF j
  <2> QED BY <1>3, <1>4, <1>5, <2>1 DEF Completed, Dispatched
<1>7. e \in EventTypes /\ e.at = clock /\ e.type # "dispatch"
  <2>1. reply[w].finish - reply[w].start \in Nat
    BY <1>1
  <2> QED BY <1>4, <2>1 DEF EventTypes
<1> HIDE DEF e
<1>8. /\ \A i, k \in DOMAIN log' : i <= k => log'[i].at <= log'[k].at
      /\ Events("dispatch", log') = Events("dispatch", log)
      /\ \A i \in Events("dispatch", log) : log'[i] = log[i] /\ log[i].job \in Jobs
  BY <1>1, <1>3, <1>7, FileInOrder
<1>9. \A i \in Completed' : /\ row'[i].dispatch <= row'[i].start /\ row'[i].start < row'[i].finish
                            /\ row'[i].finish <= clock'
  <2>1. row[j].dispatch <= reply[w].start /\ reply[w].start < reply[w].finish
    BY <1>1 DEF OrderInv, InOrder
  <2>2. \A i \in Completed : i \in Jobs /\ i # j
    BY <1>1 DEF Completed
  <2>3. reply[w].finish <= clock
    BY <1>1
  <2> HIDE DEF j
  <2>4. /\ row'[j].dispatch <= row'[j].start /\ row'[j].start < row'[j].finish
        /\ row'[j].finish <= clock'
    BY <1>2, <1>4, <1>5, <2>1, <2>3
  <2> QED BY <1>2, <1>5, <1>6, <2>2, <2>4 DEF OrderInv
<1>10. /\ \A i \in Events("dispatch", log') : log'[i].at = row'[log'[i].job].dispatch
       /\ \A i, k \in Events("dispatch", log') : i < k /\ log'[i].worker = log'[k].worker =>
            log'[i].job \in Completed' /\ row'[log'[i].job].finish <= log'[k].at
  <2>1. \A i \in Completed : row'[i].finish = row[i].finish
    BY <1>1, <1>5 DEF Completed
  <2> QED BY <1>5, <1>6, <1>8, <2>1 DEF OrderInv
<1>11. ASSUME NEW v \in Workers PROVE InOrder(v)'
  <2>1. InOrder(v) /\ WorkerInv(v) /\ busy[v] \in Jobs \cup {NoJob}
    BY <1>3 DEF OrderInv, PhysicalInv, ProcessesInv, Types
  <2>2. reply'[v] = IF v = w THEN Nothing ELSE reply[v]
    BY <1>2, <1>3 DEF Types
  <2>3. status[v] = "running" => row'[running[v].job].dispatch = row[running[v].job].dispatch
    BY <1>5, <2>1 DEF WorkerInv
  <2>4. reply[v] # Nothing => row'[reply[v].job].dispatch = row[reply[v].job].dispatch
    BY <1>5, <2>1 DEF WorkerInv
  <2> QED BY <1>2, <2>1, <2>2, <2>3, <2>4 DEF InOrder, Nothing
<1>12. /\ \A i, k \in Jobs' : i <= k /\ k < nextArrival' => row'[i].enqueue <= row'[k].enqueue
       /\ \A i \in Dispatched' : row'[i].enqueue <= row'[i].dispatch
  BY <1>2, <1>3, <1>5, <1>6 DEF OrderInv, Dispatched
<1> QED BY <1>3, <1>8, <1>9, <1>10, <1>11, <1>12 DEF OrderInv

LEMMA DispatchInOrder ==
  ASSUME PhysicalInv, OrderInv, Dispatch, status[Min(Idle)] # "exited"
  PROVE  OrderInv'
<1> PICK w : w = Min(Idle)
  OBVIOUS
<1> PICK j : j = Chosen(clock)
  OBVIOUS
<1> DEFINE e == [type |-> "dispatch", job |-> j, worker |-> w, at |-> clock,
                 fired |-> Fired(clock)]
<1>1. /\ row' = [row EXCEPT ![j].dispatch = clock] /\ log' = Append(log, e) /\ pc = "rescan"
      /\ UNCHANGED <<input, clock, nextArrival, status, running, reply>>
  BY DEF Dispatch
<1>2. Types /\ RowsInv /\ LogInv /\ Jobs' = Jobs /\ Workers' = Workers
  BY <1>1, InputKept DEF PhysicalInv
<1>3. Idle # {} /\ waiting # {}
  BY <1>1, <1>2 DEF RowsInv, Dispatchable
<1>4. w \in Workers /\ busy[w] = NoJob
  BY <1>2, <1>3, ServedByIdle
<1>5. j \in waiting /\ waiting \subseteq Jobs /\ Fired(clock) \subseteq waiting
  BY <1>2, <1>3, ChosenIsExpected, FileTellsState DEF Fired
<1>6. /\ j \in Jobs /\ clock \in Nat /\ j \notin Dispatched /\ j \notin Completed
      /\ row[j].enqueue <= clock
  BY <1>2, <1>5 DEF RowsInv, Types
<1>7. /\ \A i \in Jobs : /\ row'[i].enqueue = row[i].enqueue /\ row'[i].start = row[i].start
                         /\ row'[i].finish = row[i].finish
                         /\ row'[i].dispatch = IF i = j THEN clock ELSE row[i].dispatch
  BY <1>1, <1>2, <1>6 DEF Types
<1>8. Completed' = Completed /\ Dispatched' = Dispatched \cup {j}
  <2>1. clock # Unknown
    BY <1>6 DEF Unknown
  <2> QED BY <1>2, <1>6, <1>7, <2>1 DEF Completed, Dispatched
<1>9. /\ e \in EventTypes /\ e.at = clock /\ e.type = "dispatch" /\ e.job = j /\ e.worker = w
  BY <1>4, <1>5, <1>6 DEF EventTypes
<1> HIDE DEF e
<1>10. /\ \A i, k \in DOMAIN log' : i <= k => log'[i].at <= log'[k].at
       /\ Events("dispatch", log') = Events("dispatch", log) \cup {Len(log) + 1}
       /\ \A i \in Events("dispatch", log) :
            /\ log'[i] = log[i] /\ log[i].job \in Jobs /\ i \in Int /\ i < Len(log) + 1
            /\ log[i].job \in Dispatched
       /\ log'[Len(log) + 1] = e /\ Len(log) \in Nat
  <2>1. \A i \in Events("dispatch", log) : log[i].job \in JobsOf("dispatch", log)
    BY DEF JobsOf
  <2> QED BY <1>1, <1>2, <1>9, <2>1, FileInOrder DEF LogInv
<1>11. ASSUME NEW i \in Events("dispatch", log), log[i].worker = w
       PROVE  log[i].job \in Completed /\ row[log[i].job].finish <= clock
  <2>1. InHand(w, log) = {}
    BY <1>2, <1>4 DEF LogInv
  <2>2. log[i].job \in JobsOf("completion", log)
    BY <1>11, <2>1 DEF InHand
  <2> QED BY <1>2, <2>2 DEF LogInv, OrderInv
<1>12. \A i \in Events("dispatch", log') : log'[i].at = row'[log'[i].job].dispatch
  <2>1. \A i \in Events("dispatch", log) : log'[i].at = row'[log'[i].job].dispatch
    BY <1>6, <1>7, <1>10 DEF OrderInv
  <2> QED BY <1>6, <1>7, <1>9, <1>10, <2>1
<1>13. ASSUME NEW i \in Events("dispatch", log'), NEW k \in Events("dispatch", log'),
              i < k, log'[i].worker = log'[k].worker
       PROVE  log'[i].job \in Completed' /\ row'[log'[i].job].finish <= log'[k].at
  <2>1. CASE i \in Events("dispatch", log) /\ k \in Events("dispatch", log)
    <3>1. log[i].job \in Completed /\ row[log[i].job].finish <= log[k].at
      BY <1>10, <1>13, <2>1 DEF OrderInv
    <3> QED BY <1>7, <1>8, <1>10, <2>1, <3>1
  <2>2. CASE i \in Events("dispatch", log) /\ k = Len(log) + 1
    <3>1. log[i].job \in Completed /\ row[log[i].job].finish <= clock
      BY <1>9, <1>10, <1>11, <1>13, <2>2
    <3>2. log'[i].job = log[i].job /\ log'[k].at = clock /\ log[i].job \in Jobs
      BY <1>9, <1>10, <2>2
    <3> QED BY <1>7, <1>8, <3>1, <3>2
  <2> QED BY <1>10, <1>13, <2>1, <2>2
<1>14. ASSUME NEW v \in Workers PROVE InOrder(v)'
  <2>1. InOrder(v) /\ WorkerInv(v) /\ busy[v] \in Jobs \cup {NoJob}
    BY <1>2 DEF OrderInv, PhysicalInv, ProcessesInv, Types
  <2>2. busy[v] # NoJob => busy[v] \in Jobs /\ busy[v] # j
    BY <1>2, <1>6, <2>1 DEF RowsInv, Given
  <2>3. status[v] = "running" => row'[running[v].job].dispatch = row[running[v].job].dispatch
    BY <1>7, <2>1, <2>2 DEF WorkerInv
  <2>4. reply[v] # Nothing => row'[reply[v].job].dispatch = row[reply[v].job].dispatch
    BY <1>7, <2>1, <2>2 DEF WorkerInv
  <2> QED BY <1>1, <2>1, <2>3, <2>4 DEF InOrder, Nothing
<1>15. \A i \in Completed' : /\ row'[i].dispatch <= row'[i].start /\ row'[i].start < row'[i].finish
                             /\ row'[i].finish <= clock'
  <2>1. \A i \in Completed : i \in Jobs /\ i # j
    BY <1>6 DEF Completed
  <2> QED BY <1>1, <1>7, <1>8, <2>1 DEF OrderInv
<1>16. /\ \A i, k \in Jobs' : i <= k /\ k < nextArrival' => row'[i].enqueue <= row'[k].enqueue
       /\ \A i \in Dispatched' : row'[i].enqueue <= row'[i].dispatch
  <2>1. \A i \in Dispatched : i \in Jobs /\ i # j
    BY <1>6 DEF Dispatched
  <2> QED BY <1>1, <1>2, <1>6, <1>7, <1>8, <2>1 DEF OrderInv
<1> QED BY <1>2, <1>10, <1>12, <1>13, <1>14, <1>15, <1>16 DEF OrderInv

LEMMA OrderStep ==
  ASSUME PhysicalInv, OrderInv, [Next]_vars
  PROVE  OrderInv'
<1>1. clock \in Nat /\ Workers' = Workers
  <2>1. UNCHANGED input
    BY DEF vars, Next, Dispatcher, ProgressWake, Tick, Closed, Worker, Crash, Announce,
           StartJob, FinishJob, LeaveOrTerminate, Begin, Received, Enqueue, Scanned, Rescan,
           Dispatch, Settle, Wake, WakeWith, Ended, Receive, WorkerExited
  <2> QED BY <2>1, InputKept DEF PhysicalInv, Types
\* Steps that touch neither the rows nor the file nor the pipes.
<1>2. ASSUME UNCHANGED <<input, row, nextArrival, log, status, running, reply>>,
             clock' = clock \/ clock' = clock + 1
      PROVE  OrderInv'
  <2>1. \A w \in Workers : InOrder(w)'
    BY <1>2 DEF OrderInv, InOrder, Nothing
  <2>2. clock' \in Nat /\ clock <= clock'
    BY <1>1, <1>2
  <2> QED BY <1>2, <2>1, <2>2, QuietInOrder
<1>3. CASE Dispatcher \/ ProgressWake
  <2>1. CASE Begin \/ Received \/ Scanned \/ Rescan \/ Settle \/ Wake \/ ProgressWake \/ Ended
    BY <1>2, <2>1
        DEF Begin, Received, Scanned, Rescan, Settle, Wake, ProgressWake, WakeWith, Ended, procs
  <2>2. ASSUME NEW w \in Workers, WorkerExited(w) PROVE OrderInv'
    BY <1>2, <2>2 DEF WorkerExited, procs
  <2>3. CASE Dispatch
    <3>1. CASE status[Min(Idle)] = "exited"
      BY <1>2, <2>3, <3>1 DEF Dispatch
    <3> QED BY <2>3, <3>1, DispatchInOrder
  <2> QED BY <1>3, <2>1, <2>2, <2>3, EnqueueInOrder, ReceiveInOrder DEF Dispatcher
<1>4. ASSUME NEW w \in Workers, Worker(w) \/ Crash(w) PROVE OrderInv'
  BY <1>4, WorkersInOrder
<1>5. CASE Tick
  BY <1>2, <1>5 DEF Tick, disp, procs
<1>6. CASE UNCHANGED vars
  BY <1>2, <1>6 DEF vars, disp, procs
<1> QED BY <1>3, <1>4, <1>5, <1>6 DEF Next, Closed

\* The instants of the rows and of the file stand in order: enqueue, dispatch, start and
\* finish of every job, arrivals in order of rank, and the jobs of one worker one after
\* the other (timestamp_order, rank_arrivals and physical_nonoverlap of the certificate).
THEOREM InstantsInOrder == Spec => []OrderInv
<1>1. Init => OrderInv
  <2> SUFFICES ASSUME Init PROVE OrderInv
    OBVIOUS
  <2>1. Completed = {} /\ Dispatched = {} /\ log = <<>> /\ DOMAIN log = {} /\ nextArrival = 1
    BY DEF Init, Completed, Dispatched
  <2>2. Events("dispatch", log) = {}
    BY <2>1 DEF Events
  <2>3. \A w \in Workers : status[w] # "running" /\ reply[w] = Nothing
    BY DEF Init
  <2>4. \A j \in Jobs : j \in Nat /\ j >= 1
    BY InitPhysical, Sizes DEF PhysicalInv
  <2> QED BY <2>1, <2>2, <2>3, <2>4 DEF OrderInv, InOrder
<1>2. PhysicalInv /\ OrderInv /\ [Next]_vars => OrderInv'
  BY OrderStep
<1> QED BY <1>1, <1>2, PhysicalInvariant, PTL DEF Spec

---------------------------------------------------------------------------
(* The wait against first come first served.  A run that is over is a      *)
(* schedule the facts of ScheduleTheorems hold for; its ranks start at 0.  *)

Schedules == INSTANCE ScheduleTheorems WITH a_us <- Arrivals, s_us <- Holding

Begun == [i \in 0 .. N - 1 |-> row[i + 1].start]

LEMMA Bridges ==
  /\ Schedules!Rank = 0 .. N - 1 /\ Schedules!Servers = 1 .. K
  /\ \A S : Schedules!Cardinality(S) = Cardinality(S)
  /\ \A S, cost : Schedules!WorkOf(S, cost) = WorkOf(S, cost)
  /\ \A i : Schedules!Start(i) = Fcfs!Start(i)
<1>1. /\ Schedules!Rank = 0 .. N - 1 /\ Schedules!Servers = 1 .. K
  BY DEF Schedules!Rank, Schedules!Servers
<1>2. /\ \A S : Schedules!Cardinality(S) = Cardinality(S)
      /\ \A S, cost : Schedules!WorkOf(S, cost) = WorkOf(S, cost)
  <2>1. ASSUME NEW S PROVE Schedules!Cardinality(S) = Cardinality(S)
    BY DEF Schedules!Cardinality, Cardinality
  <2> QED BY <2>1 DEF Schedules!WorkOf, WorkOf, Schedules!Units, Units
<1>3. Schedules!FreeAt = Fcfs!FreeAt
  BY DEF Schedules!FreeAt, Fcfs!FreeAt, Schedules!Servers, Fcfs!Servers, Schedules!FirstFree,
         Fcfs!FirstFree, Schedules!Larger, Fcfs!Larger
<1>4. ASSUME NEW i PROVE Schedules!Start(i) = Fcfs!Start(i)
  BY <1>3
      DEF Schedules!Start, Fcfs!Start, Schedules!FirstFree, Fcfs!FirstFree, Schedules!Servers,
          Fcfs!Servers, Schedules!Larger, Fcfs!Larger
<1> QED BY <1>1, <1>2, <1>4

\* The instants of a run that is over.
LEMMA FinalInstants ==
  ASSUME PhysicalInv, OrderInv, RunOver
  PROVE  /\ Completed = Jobs /\ Dispatched = Jobs
         /\ \A j \in Jobs :
              /\ row[j].enqueue \in Nat /\ row[j].dispatch \in Nat /\ row[j].start \in Nat
              /\ row[j].finish \in Nat
              /\ row[j].enqueue <= row[j].dispatch /\ row[j].dispatch <= row[j].start
              /\ row[j].start < row[j].finish
              /\ Held[j] \in 1 .. L /\ row[j].start + Held[j] = row[j].finish
         /\ \A i, j \in Jobs : i <= j => row[i].enqueue <= row[j].enqueue
<1>1. Types /\ RowsInv
  BY DEF PhysicalInv
<1>2. Completed = Jobs /\ Dispatched = Jobs
  BY <1>1 DEF RunOver, RowsInv, Dispatched
<1>3. ASSUME NEW j \in Jobs
      PROVE  /\ row[j].enqueue \in Nat /\ row[j].dispatch \in Nat /\ row[j].start \in Nat
             /\ row[j].finish \in Nat
             /\ row[j].enqueue <= row[j].dispatch /\ row[j].dispatch <= row[j].start
             /\ row[j].start < row[j].finish
             /\ Held[j] \in 1 .. L /\ row[j].start + Held[j] = row[j].finish
  <2>1. /\ row[j].enqueue \in Moments /\ row[j].dispatch \in Moments /\ row[j].start \in Moments
        /\ row[j].finish \in Moments
    BY <1>1 DEF Types
  <2>2. /\ row[j].enqueue # Unknown /\ row[j].dispatch # Unknown /\ row[j].start # Unknown
        /\ row[j].finish # Unknown
    BY <1>1, <1>2 DEF RowsInv, Dispatched, Completed
  <2>3. /\ row[j].enqueue \in Nat /\ row[j].dispatch \in Nat /\ row[j].start \in Nat
        /\ row[j].finish \in Nat
    BY <2>1, <2>2 DEF Moments
  <2>4. /\ row[j].enqueue <= row[j].dispatch /\ row[j].dispatch <= row[j].start
        /\ row[j].start < row[j].finish
    BY <1>2 DEF OrderInv
  <2>5. Held[j] = row[j].finish - row[j].start /\ Held[j] <= L /\ L \in Nat
    BY <1>1, LongestHeld DEF Held
  <2> QED BY <2>3, <2>4, <2>5
<1>4. ASSUME NEW i \in Jobs, NEW j \in Jobs, i <= j PROVE row[i].enqueue <= row[j].enqueue
  <2>1. j < nextArrival
    BY <1>1, <1>2 DEF RowsInv
  <2> QED BY <1>4, <2>1 DEF OrderInv
<1> QED BY <1>2, <1>3, <1>4

LEMMA FinalInput ==
  ASSUME PhysicalInv, OrderInv, RunOver
  PROVE  Schedules!InputOK
<1>1. Jobs = 1 .. N /\ N \in Nat \ {0} /\ L \in Nat /\ K \in Nat
  BY Sizes, LongestHeld DEF PhysicalInv
<1>2. K # 0
  BY <1>1, Sizes, FS_EmptySet DEF PhysicalInv, K
<1>3. L # 0
  <2>1. 1 \in Jobs
    BY <1>1
  <2>2. Held[1] \in 1 .. L
    BY <2>1, FinalInstants
  <2> QED BY <1>1, <2>2
<1>4. \A i \in 0 .. N - 1 : i + 1 \in Jobs
  BY <1>1
<1>5. Arrivals \in [0 .. N - 1 -> Nat] /\ Holding \in [0 .. N - 1 -> 1 .. L]
  BY <1>4, FinalInstants DEF Arrivals, Holding
<1>6. \A p, q \in 0 .. N - 1 : p <= q => Arrivals[p] <= Arrivals[q]
  <2> TAKE p, q \in 0 .. N - 1
  <2>1. p + 1 \in Jobs /\ q + 1 \in Jobs /\ (p <= q => p + 1 <= q + 1)
    BY <1>1, <1>4
  <2> QED BY <2>1, FinalInstants DEF Arrivals
<1> QED BY <1>1, <1>2, <1>3, <1>5, <1>6, Bridges DEF Schedules!InputOK

LEMMA PlaceInFile ==
  ASSUME PhysicalInv, NEW j \in Dispatched
  PROVE  /\ Position(j) \in Events("dispatch", log) /\ log[Position(j)].job = j
         /\ Position(j) \in DOMAIN log /\ Position(j) \in Nat
         /\ log[Position(j)].worker \in Workers /\ log[Position(j)].at \in Nat
<1>1. \E k \in Events("dispatch", log) : log[k].job = j
  BY DEF PhysicalInv, LogInv, JobsOf
<1>2. Position(j) \in Events("dispatch", log) /\ log[Position(j)].job = j
  BY <1>1 DEF Position
<1>3. Position(j) \in DOMAIN log /\ Position(j) \in Nat /\ log[Position(j)].type = "dispatch"
  BY <1>2 DEF Events, PhysicalInv, Types
<1>4. log[Position(j)] \in EventTypes
  BY <1>3 DEF PhysicalInv, Types
<1> QED BY <1>2, <1>3, <1>4 DEF EventTypes

\* A worker has one job at a time.
LEMMA OneJobEach ==
  ASSUME PhysicalInv, OrderInv, RunOver, NEW u \in Nat
  PROVE  IsFiniteSet(RunningAt(u)) /\ Cardinality(RunningAt(u)) <= K
<1> DEFINE f == [j \in RunningAt(u) |-> log[Position(j)].worker]
<1>1. \A j \in RunningAt(u) : j \in Jobs /\ j \in Dispatched
  BY FinalInstants DEF RunningAt
<1>2. ASSUME NEW i \in RunningAt(u), NEW j \in RunningAt(u), f[i] = f[j], Position(i) < Position(j)
      PROVE  FALSE
  <2>1. row[i].finish <= log[Position(j)].at /\ log[Position(j)].at = row[j].dispatch
    BY <1>1, <1>2, PlaceInFile DEF OrderInv
  <2>2. row[j].dispatch <= row[j].start /\ row[j].start <= u /\ u < row[i].finish
    BY <1>1, FinalInstants DEF RunningAt
  <2>3. row[i].finish \in Nat /\ row[j].dispatch \in Nat /\ row[j].start \in Nat
    BY <1>1, FinalInstants
  <2> QED BY <2>1, <2>2, <2>3
<1>3. ASSUME NEW i \in RunningAt(u), NEW j \in RunningAt(u), f[i] = f[j]
      PROVE  i = j
  <2>1. Position(i) \in Nat /\ Position(j) \in Nat
        /\ log[Position(i)].job = i /\ log[Position(j)].job = j
    BY <1>1, PlaceInFile
  <2>2. Position(i) = Position(j)
    BY <1>2, <1>3, <2>1
  <2> QED BY <2>1, <2>2
<1>4. f \in Injection(RunningAt(u), Workers)
  <2>1. \A j \in RunningAt(u) : f[j] \in Workers
    BY <1>1, PlaceInFile
  <2> QED BY <1>3, <2>1 DEF Injection, IsInjective
<1>5. IsFiniteSet(Workers)
  BY Sizes DEF PhysicalInv
<1> QED BY <1>4, <1>5, FS_Injection DEF K

\* Ranks are jobs counted from 0.
LEMMA Recounted ==
  ASSUME Types, RowsInv, NEW S \in SUBSET Jobs, NEW P, P = {j - 1 : j \in S}
  PROVE  Cardinality(P) = Cardinality(S) /\ WorkOf(P, Holding) = WorkOf(S, Held)
<1> DEFINE f == [j \in S |-> j - 1]
           g == [x \in Units(S, Held) |-> <<x[1] - 1, x[2]>>]
<1>1. /\ IsFiniteSet(S) /\ \A j \in S : j \in Nat /\ j - 1 \in 0 .. N - 1 /\ (j - 1) + 1 = j
                                        /\ Held[j] \in Nat
  BY Sizes, HeldTypes, FS_Subset
<1>2. Cardinality(P) = Cardinality(S)
  <2>1. f \in Bijection(S, P)
    BY <1>1 DEF Bijection, Injection, Surjection, IsInjective
  <2> QED BY <1>1, <2>1, FS_Bijection DEF ExistsBijection
<1>3. \A j \in S : Holding[j - 1] = Held[j]
  BY <1>1 DEF Holding
<1>4. \A x : x \in Units(S, Held) <=> \E j \in S : \E k \in 1 .. Held[j] : x = <<j, k>>
  BY UnitsOf
<1>5. \A x : x \in Units(P, Holding) <=> \E j \in S : \E k \in 1 .. Held[j] : x = <<j - 1, k>>
  <2>1. \A x : x \in Units(P, Holding) <=> \E i \in P : \E k \in 1 .. Holding[i] : x = <<i, k>>
    BY UnitsOf
  <2> QED BY <1>3, <2>1
<1>6. g \in Bijection(Units(S, Held), Units(P, Holding))
  <2>1. ASSUME NEW x \in Units(S, Held) PROVE g[x] \in Units(P, Holding)
    <3>1. PICK j \in S : \E k \in 1 .. Held[j] : x = <<j, k>>
      BY <1>4
    <3>2. PICK k \in 1 .. Held[j] : x = <<j, k>>
      BY <3>1
    <3>3. g[x] = <<j - 1, k>>
      BY <3>2
    <3> QED BY <1>5, <3>3
  <2>2. ASSUME NEW x \in Units(S, Held), NEW y \in Units(S, Held), g[x] = g[y] PROVE x = y
    <3>1. PICK i \in S : \E k \in 1 .. Held[i] : x = <<i, k>>
      BY <1>4
    <3>2. PICK k \in 1 .. Held[i] : x = <<i, k>>
      BY <3>1
    <3>3. PICK j \in S : \E l \in 1 .. Held[j] : y = <<j, l>>
      BY <1>4
    <3>4. PICK l \in 1 .. Held[j] : y = <<j, l>>
      BY <3>3
    <3>5. g[x] = <<i - 1, k>> /\ g[y] = <<j - 1, l>>
      BY <3>2, <3>4
    <3>6. i - 1 = j - 1 /\ k = l
      BY <2>2, <3>5
    <3>7. i = j
      BY <1>1, <3>6
    <3> QED BY <3>2, <3>4, <3>6, <3>7
  <2>3. ASSUME NEW y \in Units(P, Holding) PROVE \E x \in Units(S, Held) : g[x] = y
    <3>1. PICK j \in S : \E k \in 1 .. Held[j] : y = <<j - 1, k>>
      BY <1>5
    <3>2. PICK k \in 1 .. Held[j] : y = <<j - 1, k>>
      BY <3>1
    <3>3. <<j, k>> \in Units(S, Held)
      BY <1>4
    <3>4. g[<<j, k>>] = y
      BY <3>2, <3>3
    <3> QED BY <3>3, <3>4
  <2> HIDE DEF g
  <2>4. g \in [Units(S, Held) -> Units(P, Holding)]
    <3>1. DOMAIN g = Units(S, Held) /\ g = [x \in Units(S, Held) |-> g[x]]
      BY DEF g
    <3> QED BY <2>1, <3>1
  <2> QED BY <2>2, <2>3, <2>4 DEF Bijection, Injection, Surjection, IsInjective
<1>7. IsFiniteSet(Units(S, Held))
  BY <1>1, UnitsFinite
<1>8. WorkOf(P, Holding) = WorkOf(S, Held)
  <2> HIDE DEF g
  <2> QED BY <1>6, <1>7, FS_Bijection DEF ExistsBijection, WorkOf
<1> QED BY <1>2, <1>8

\* A run that is over is a schedule on K servers; where it left a server idle, so do the
\* rows.
LEMMA FinalSchedule ==
  ASSUME PhysicalInv, OrderInv, RunOver
  PROVE  /\ Schedules!OnServers(Begun)
         /\ \A t : Schedules!Cardinality(Schedules!Unused(Begun, t)) = IdleCapacity(t)
<1>1. Jobs = 1 .. N /\ N \in Nat /\ K \in Nat /\ Types /\ RowsInv
  BY Sizes DEF PhysicalInv
<1>2. ASSUME NEW i \in 0 .. N - 1
      PROVE  /\ i + 1 \in Jobs /\ Begun[i] = row[i + 1].start /\ Arrivals[i] = row[i + 1].enqueue
             /\ Begun[i] + Holding[i] = row[i + 1].finish
             /\ Begun[i] \in Nat /\ Arrivals[i] <= Begun[i]
  <2>1. i + 1 \in Jobs
    BY <1>1
  <2>2. Begun[i] = row[i + 1].start /\ Arrivals[i] = row[i + 1].enqueue /\ Holding[i] = Held[i + 1]
    BY DEF Begun, Arrivals, Holding
  <2>3. /\ row[i + 1].start \in Nat /\ row[i + 1].start + Held[i + 1] = row[i + 1].finish
        /\ row[i + 1].enqueue \in Nat /\ row[i + 1].dispatch \in Nat
        /\ row[i + 1].enqueue <= row[i + 1].dispatch /\ row[i + 1].dispatch <= row[i + 1].start
    BY <2>1, FinalInstants
  <2> QED BY <2>1, <2>2, <2>3
<1>3. \A j \in Jobs : j - 1 \in 0 .. N - 1 /\ (j - 1) + 1 = j
  BY <1>1
<1>4. ASSUME NEW u
      PROVE  Schedules!Cardinality(Schedules!Executing(Begun, Schedules!Rank, u))
               = Cardinality(RunningAt(u))
  <2>1. Schedules!Executing(Begun, Schedules!Rank, u)
          = {i \in 0 .. N - 1 : row[i + 1].start <= u /\ u < row[i + 1].finish}
    BY <1>2, Bridges DEF Schedules!Executing
  <2>2. Schedules!Executing(Begun, Schedules!Rank, u) = {j - 1 : j \in RunningAt(u)}
    BY <1>2, <1>3, <2>1 DEF RunningAt
  <2>3. RunningAt(u) \in SUBSET Jobs
    BY DEF RunningAt
  <2> QED BY <1>1, <2>2, <2>3, Recounted, Bridges
<1>5. ASSUME NEW u PROVE Schedules!SomeWait(Begun, u) <=> Unstarted(u)
  <2>1. Schedules!SomeWait(Begun, u)
          <=> \E i \in 0 .. N - 1 : row[i + 1].enqueue <= u /\ u < row[i + 1].start
    BY <1>2, Bridges DEF Schedules!SomeWait
  <2> QED BY <1>2, <1>3, <2>1 DEF Unstarted
<1>6. Schedules!OnServers(Begun)
  <2>1. Begun \in [0 .. N - 1 -> Int]
    BY <1>2 DEF Begun
  <2>2. \A u \in Nat : Cardinality(RunningAt(u)) <= K
    BY OneJobEach
  <2> QED BY <1>2, <1>4, <2>1, <2>2, Bridges DEF Schedules!OnServers
<1>7. ASSUME NEW t
      PROVE  Schedules!Cardinality(Schedules!Unused(Begun, t)) = IdleCapacity(t)
  <2>1. Schedules!Unused(Begun, t)
          = {x \in (0 .. t - 1) \X (1 .. K) :
               Unstarted(x[1]) /\ Cardinality(RunningAt(x[1])) < x[2]}
    BY <1>4, <1>5, Bridges DEF Schedules!Unused
  <2> QED BY <2>1, Bridges DEF IdleCapacity
<1> QED BY <1>6, <1>7

\* The job waits no more than what was dispatched past it, the idle capacity and twice
\* what the other workers can have in hand account for.
LEMMA WaitDespiteStalls ==
  ASSUME PhysicalInv, OrderInv, RunOver, NEW j \in Jobs
  PROVE  /\ In(j) \in Nat /\ IdleCapacity(row[j].dispatch) \in Nat /\ FcfsStart(j) \in Nat
         /\ K * (row[j].dispatch - FcfsStart(j))
              <= In(j) + 2 * ((K - 1) * L) + IdleCapacity(row[j].dispatch)
<1> DEFINE i == j - 1
           now == row[j].dispatch
           P == {q - 1 : q \in Passers(j)}
<1>1. Jobs = 1 .. N /\ N \in Nat /\ Types /\ RowsInv
  BY Sizes DEF PhysicalInv
<1>2. i \in 0 .. N - 1 /\ i + 1 = j /\ j \in Nat
  BY <1>1
<1>3. /\ now \in Nat /\ Arrivals[i] <= now /\ now <= Begun[i]
  BY <1>2, FinalInstants DEF Arrivals, Begun
<1>4. Passers(j) \in SUBSET Jobs /\ P \in SUBSET (0 .. N - 1)
  BY <1>1 DEF Passers
<1>5. ASSUME NEW r \in 0 .. N - 1, r > i, Begun[r] < now PROVE r \in P
  <2>1. r + 1 \in Jobs /\ r + 1 > j /\ (r + 1) - 1 = r
    BY <1>1, <1>2, <1>5
  <2>2. row[r + 1].start < row[j].dispatch
    BY <1>5 DEF Begun
  <2>3. row[r + 1].dispatch < row[j].dispatch
    BY <2>1, <2>2, FinalInstants
  <2>4. /\ Position(r + 1) \in DOMAIN log /\ Position(j) \in DOMAIN log
        /\ Position(r + 1) \in Nat /\ Position(j) \in Nat
        /\ log[Position(r + 1)].at = row[r + 1].dispatch
        /\ log[Position(j)].at = row[j].dispatch
    BY <2>1, FinalInstants, PlaceInFile DEF OrderInv
  <2>5. ~(Position(j) <= Position(r + 1))
    <3>1. SUFFICES ASSUME Position(j) <= Position(r + 1) PROVE FALSE
      OBVIOUS
    <3>2. row[j].dispatch <= row[r + 1].dispatch
      BY <2>4, <3>1 DEF OrderInv
    <3> QED BY <2>1, <2>3, <3>2, FinalInstants
  <2>6. r + 1 \in Passers(j)
    BY <2>1, <2>4, <2>5 DEF Passers
  <2> QED BY <2>1, <2>6
<1>6. /\ Schedules!Start(i) \in Nat
      /\ Schedules!Cardinality(Schedules!Unused(Begun, now)) \in Nat
      /\ K * (now - Schedules!Start(i))
           <= Schedules!WorkOf(P, Holding) + 2 * ((K - 1) * L)
                + Schedules!Cardinality(Schedules!Unused(Begun, now))
  <2> HIDE DEF i, P, now
  <2> QED BY <1>2, <1>3, <1>4, <1>5, FinalInput, FinalSchedule, Bridges,
        Schedules!DelayDespiteIdling
<1>7. Schedules!WorkOf(P, Holding) = In(j)
  BY <1>1, <1>4, Recounted, Bridges DEF In, Work
<1>8. In(j) \in Nat
  <2>1. IsFiniteSet(Passers(j)) /\ \A q \in Passers(j) : Held[q] \in Nat
    BY <1>1, <1>4, Sizes, HeldTypes, FS_Subset
  <2> QED BY <2>1, WorkType DEF In, Work
<1>9. Schedules!Start(i) = FcfsStart(j)
  BY Bridges DEF FcfsStart
<1>10. Schedules!Cardinality(Schedules!Unused(Begun, now)) = IdleCapacity(now)
  BY FinalSchedule
<1> QED BY <1>6, <1>7, <1>8, <1>9, <1>10

\* The stall-corrected bounds of check_stall_bound.py: what a job waits for its dispatch
\* more than under first come first served on ideal workers is its budget, 3 K - 2 jobs
\* and the capacity that stood idle while jobs waited, whatever the delays were.
THEOREM StallBoundHolds == Spec => []WaitBoundedDespiteStalls
<1>1. ASSUME PhysicalInv, OrderInv, OvertakingCapped PROVE WaitBoundedDespiteStalls
  <2> SUFFICES ASSUME RunOver, policy = "Guard", NEW j \in Jobs
               PROVE  LET excess == K * (row[j].dispatch - FcfsStart(j))
                          stalls == (3 * K - 2) * L + IdleCapacity(row[j].dispatch)
                      IN  /\ excess < Bmax + stalls
                          /\ excess < B0 + EtaK * WaitToDispatch(j) + stalls
    BY DEF WaitBoundedDespiteStalls
  <2> DEFINE excess == K * (row[j].dispatch - FcfsStart(j))
             idle   == IdleCapacity(row[j].dispatch)
             grown  == EtaK * WaitToDispatch(j)
  <2>1. /\ K \in Nat \ {0} /\ L \in Nat \ {0} /\ Bmax \in Nat /\ B0 \in Nat /\ EtaK \in Nat
    BY <1>1, FinalInput, Sizes DEF Schedules!InputOK, PhysicalInv
  <2>2. grown \in Nat
    <3>1. WaitToDispatch(j) \in Nat
      BY <1>1, FinalInstants DEF WaitToDispatch
    <3> QED BY <2>1, <3>1
  <2>3. /\ In(j) \in Nat /\ idle \in Nat /\ FcfsStart(j) \in Nat
        /\ excess <= In(j) + 2 * ((K - 1) * L) + idle
    BY <1>1, WaitDespiteStalls
  <2>4. In(j) < Bmax + K * L /\ In(j) < B0 + grown + K * L
    <3>1. CASE Passers(j) = {}
      <4>1. In(j) = 0
        BY <3>1, WorkEmpty DEF In, Work
      <4>2. K * L \in Nat \ {0}
        BY <2>1
      <4> QED BY <2>1, <2>2, <4>1, <4>2
    <3>2. CASE Passers(j) # {}
      BY <1>1, <3>2 DEF OvertakingCapped
    <3> QED BY <3>1, <3>2
  <2>5. K * L \in Nat /\ (K - 1) * L = K * L - L /\ (3 * K - 2) * L = 3 * (K * L) - 2 * L
    BY <2>1
  <2>6. excess \in Int
    BY <1>1, <2>1, <2>3, FinalInstants
  <2> HIDE DEF excess, idle, grown
  <2>7. /\ excess < Bmax + ((3 * K - 2) * L + idle)
        /\ excess < B0 + grown + ((3 * K - 2) * L + idle)
    BY <2>1, <2>2, <2>3, <2>4, <2>5, <2>6
  <2> QED BY <2>7 DEF excess, idle, grown
<1> QED BY <1>1, PhysicalInvariant, InstantsInOrder, OvertakingIsCapped, PTL
=============================================================================
