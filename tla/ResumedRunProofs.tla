-------------------------- MODULE ResumedRunProofs --------------------------
(***************************************************************************)
(* Proofs, for any number of versions, cells, items, workers, tables, runs *)
(* and edits, of what ResumedRun.tla says of a run that is killed and      *)
(* started again.                                                          *)
(***************************************************************************)
EXTENDS ResumedRun, TLAPS

PayloadType == [rows : Versions, delta : Versions \cup {Absent}]
CheckpointType == [signature : Versions, payload : PayloadType]
TableType == [Pieces -> PayloadType \cup {Absent}]
WorkerType == [task : 0 .. Cells, item : 0 .. Items,
               loaded : Versions \cup {Absent}, saved : BOOLEAN]

Types ==
  /\ phase \in {"idle", "cells", "tables", "manifest", "failed"} /\ resume \in BOOLEAN
  /\ inputs \in Versions /\ nextTask \in 1 .. Cells + 1 /\ nextTable \in Nat \ {0}
  /\ delta \in [Pieces -> Versions \cup {Absent, Torn}]
  /\ checkpoint \in [Pieces -> CheckpointType \cup {Absent}]
  /\ gathered \in TableType
  /\ tables \in [1 .. Tables -> TableType \cup {Absent, Torn}]
  /\ worker \in [Workers -> WorkerType]

\* A run, and every worker of it, has the version that is on disk.
OneVersion ==
  /\ phase # "idle" => signature = inputs
  /\ phase = "idle" => nextTask = 1 /\ \A w \in Workers : worker[w] = Starting
  /\ \A w \in Workers : worker[w].loaded \in {Absent, inputs}
                          /\ (Busy(w) => worker[w].loaded = inputs)

\* Workers are busy with tasks of their own that were handed out, and only while cells
\* are computed.
OwnTasks ==
  /\ \A w \in Workers : Busy(w) => /\ phase = "cells" /\ worker[w].task < nextTask
                                   /\ worker[w].item # 0
  /\ \A v, w \in Workers : Busy(v) /\ worker[v].task = worker[w].task => v = w
  /\ phase \in {"tables", "manifest", "failed"} => nextTask = Cells + 1

\* A delta that was saved is there as long as its item is in hand.
DeltasSaved ==
  \A w \in Workers : Busy(w) /\ worker[w].saved => delta[InHand(w)] = inputs

\* A checkpoint holds what a fresh run from the version it names computes.
CheckpointsFresh ==
  \A p \in Pieces : checkpoint[p] # Absent =>
    checkpoint[p].payload = FreshTable(checkpoint[p].signature)[p]

\* The parent has exactly the items that were passed, as a fresh run computes them, and
\* their deltas are still on disk.
Passed(p) ==
  p[1] < nextTask /\ \A w \in Workers : worker[w].task = p[1] => p[2] < worker[w].item
PassedAreFresh ==
  \A p \in Pieces :
    IF Passed(p)
      THEN gathered[p] = FreshTable(inputs)[p] /\ ArtifactsValid(p, gathered[p])
      ELSE gathered[p] = Absent

\* The tables written so far are those of this run, and a manifest lists the files of a
\* version and names the tables that a fresh run from it writes.
TablesWritten ==
  /\ phase # "failed"
  /\ phase \in {"idle", "cells"} => nextTable = 1
  /\ phase = "tables" => nextTable \in 1 .. Tables
       /\ \A t \in 1 .. Tables : t < nextTable => tables[t] = gathered
  /\ phase = "manifest" => \A t \in 1 .. Tables : tables[t] = gathered
  /\ manifest \notin {Absent, Torn} =>
       \E v \in Versions : /\ manifest.inputs = Listed[v]
                           /\ \A t \in 1 .. Tables : manifest.outputs[t] = FreshTable(v)

\* The inductive invariant of the run.
RunInv ==
  /\ Types /\ OneVersion /\ OwnTasks /\ DeltasSaved
  /\ CheckpointsFresh /\ PassedAreFresh /\ TablesWritten
\* STEPS
-----------------------------------------------------------------------------
\* A fresh table has a payload for every piece.
LEMMA FreshEntry ==
  ASSUME NEW version \in Versions, NEW p \in Pieces
  PROVE  /\ FreshTable(version)[p] = Payload(version, DeltaOf(p, version))
         /\ FreshTable(version)[p] \in PayloadType
BY DEF FreshTable, PayloadType, Payload, DeltaOf

\* The sizes are positive.
LEMMA Sizes ==
  /\ Cells \in Nat \ {0} /\ Items \in Nat \ {0} /\ Tables \in Nat \ {0}
  /\ WithDelta \subseteq 1 .. Items /\ Absent \notin Versions /\ Torn \notin Versions
BY SizesAssumption DEF SizesAssumption

\* What a worker may hold.
LEMMA HoldTyped ==
  ASSUME Types, NEW w \in Workers, NEW task \in 0 .. Cells, NEW item \in 0 .. Items,
         NEW saved \in BOOLEAN, Hold(w, task, item, saved)
  PROVE  /\ worker' \in [Workers -> WorkerType]
         /\ worker'[w] = [task |-> task, item |-> item,
                          loaded |-> worker[w].loaded, saved |-> saved]
         /\ \A v \in Workers \ {w} : worker'[v] = worker[v]
BY DEF Hold, Types, WorkerType

\* What is in hand is a piece that was not passed.
LEMMA InHandIsPiece ==
  ASSUME Types, OwnTasks, NEW w \in Workers, Busy(w)
  PROVE  /\ InHand(w) \in Pieces /\ ~Passed(InHand(w))
         /\ InHand(w)[1] = worker[w].task /\ InHand(w)[2] = worker[w].item
         /\ worker[w].task \in 1 .. Cells /\ worker[w].item \in 1 .. Items
BY Sizes DEF Types, WorkerType, OwnTasks, Busy, InHand, Pieces, Passed

\* A worker that proceeds goes to the next item of its task or returns the cell.
LEMMA ProceedTyped ==
  ASSUME Types, OwnTasks, NEW w \in Workers, Busy(w), Proceed(w)
  PROVE  /\ worker' \in [Workers -> WorkerType]
         /\ worker'[w].loaded = worker[w].loaded /\ ~worker'[w].saved
         /\ \/ /\ worker[w].item < Items /\ worker'[w].task = worker[w].task
               /\ worker'[w].item = worker[w].item + 1
            \/ worker[w].item = Items /\ worker'[w].task = 0
         /\ \A v \in Workers \ {w} : worker'[v] = worker[v]
<1>1. worker[w].task \in 1 .. Cells /\ worker[w].item \in 1 .. Items
  BY InHandIsPiece
<1>2. CASE worker[w].item < Items
  <2>1. worker[w].item + 1 \in 0 .. Items /\ worker[w].task \in 0 .. Cells
    BY <1>1, <1>2, Sizes
  <2>2. Hold(w, worker[w].task, worker[w].item + 1, FALSE)
    BY <1>2 DEF Proceed
  <2>3. /\ worker' \in [Workers -> WorkerType]
        /\ worker'[w] = [task |-> worker[w].task, item |-> worker[w].item + 1,
                         loaded |-> worker[w].loaded, saved |-> FALSE]
        /\ \A v \in Workers \ {w} : worker'[v] = worker[v]
    BY <2>1, <2>2, HoldTyped, Zenon
  <2> QED BY <1>2, <2>3
<1>3. CASE ~(worker[w].item < Items)
  <2>1. worker[w].item = Items /\ 0 \in 0 .. Items /\ 0 \in 0 .. Cells
    BY <1>1, <1>3, Sizes
  <2>2. Hold(w, 0, 0, FALSE)
    BY <1>3 DEF Proceed
  <2>3. /\ worker' \in [Workers -> WorkerType]
        /\ worker'[w] = [task |-> 0, item |-> 0,
                         loaded |-> worker[w].loaded, saved |-> FALSE]
        /\ \A v \in Workers \ {w} : worker'[v] = worker[v]
    BY <2>1, <2>2, HoldTyped, Zenon
  <2> QED BY <2>1, <2>3
<1> QED BY <1>2, <1>3

\* A worker that proceeds passes the piece it had in hand and no other.
LEMMA OnePassed ==
  ASSUME Types, OwnTasks, NEW w \in Workers, Busy(w), Proceed(w),
         nextTask' = nextTask, NEW q \in Pieces
  PROVE  Passed(q)' <=> Passed(q) \/ q = InHand(w)
<1>1. q[1] \in 1 .. Cells /\ q[2] \in 1 .. Items /\ q = <<q[1], q[2]>>
  BY DEF Pieces
<1>2. worker[w].task \in 1 .. Cells /\ worker[w].item \in 1 .. Items
        /\ worker[w].task < nextTask
  BY InHandIsPiece DEF OwnTasks
<1>3. \A v \in Workers \ {w} :
        worker'[v] = worker[v] /\ worker[v].task # worker[w].task
  BY ProceedTyped DEF OwnTasks
<1> QED BY <1>1, <1>2, <1>3, ProceedTyped, Sizes DEF Passed, InHand

\* Between runs nobody holds anything.
LEMMA IdleTyped ==
  ASSUME Types, GoIdle
  PROVE  /\ phase' = "idle" /\ resume' \in BOOLEAN
         /\ nextTask' \in 1 .. Cells + 1 /\ nextTable' \in Nat \ {0}
         /\ worker' \in [Workers -> WorkerType] /\ gathered' \in TableType
<1>1. Starting \in WorkerType /\ 1 \in 1 .. Cells + 1
  BY Sizes DEF Starting, WorkerType
<1>2. [p \in Pieces |-> Absent] \in TableType
  BY DEF TableType
<1>3. worker' \in [Workers -> WorkerType]
  BY <1>1 DEF GoIdle
<1>4. gathered' \in TableType
  BY <1>2 DEF GoIdle
<1>5. phase' = "idle" /\ resume' \in BOOLEAN
  BY DEF GoIdle
<1>6. nextTask' \in 1 .. Cells + 1 /\ nextTable' \in Nat \ {0}
  BY <1>1 DEF GoIdle
<1> QED BY <1>3, <1>4, <1>5, <1>6

\* Once an item needs no saving any more, its delta is of the version on disk.
LEMMA ComputedDelta ==
  ASSUME Types, OneVersion, OwnTasks, DeltasSaved, NEW w \in Workers,
         Computed(w)
  PROVE  DeltaOf(InHand(w), delta[InHand(w)]) = DeltaOf(InHand(w), inputs)
<1>1. Busy(w) /\ InHand(w)[2] = worker[w].item
  BY InHandIsPiece DEF Computed
<1>2. CASE worker[w].saved
  BY <1>1, <1>2 DEF DeltasSaved
<1>3. CASE ~worker[w].saved
  BY <1>1, <1>3 DEF Computed, MustSave, DeltaOf
<1> QED BY <1>2, <1>3

\* Types.
LEMMA TypesStep ==
  ASSUME Types, OneVersion, OwnTasks, DeltasSaved, [Next]_vars
  PROVE  Types'
<1> USE DEF Types, files, parent
<1>1. ASSUME NEW w \in Workers, Initialize(w) PROVE Types'
  BY <1>1, ZenonT(40) DEF Initialize, WorkerType
<1>2. ASSUME NEW w \in Workers, TakeTask(w) PROVE Types'
  <2>1. nextTask \in 0 .. Cells /\ nextTask + 1 \in 1 .. Cells + 1 /\ 1 \in 0 .. Items
    BY <1>2, Sizes DEF TakeTask
  <2>2. worker' \in [Workers -> WorkerType]
    BY <1>2, <2>1, HoldTyped DEF TakeTask
  <2> QED BY <1>2, <2>1, <2>2 DEF TakeTask
<1>3. ASSUME NEW w \in Workers, TakeCheckpoint(w) PROVE Types'
  <2>1. InHand(w) \in Pieces /\ checkpoint[InHand(w)] \in CheckpointType
    BY <1>3, InHandIsPiece DEF TakeCheckpoint, Reuses, Reusable
  <2>2. checkpoint[InHand(w)].payload \in PayloadType
    BY <2>1 DEF CheckpointType
  <2>3. worker' \in [Workers -> WorkerType]
    BY <1>3, ProceedTyped DEF TakeCheckpoint, Gather
  <2> QED BY <1>3, <2>2, <2>3 DEF TakeCheckpoint, Gather, TableType
<1>4. ASSUME NEW w \in Workers, SaveDelta(w) PROVE Types'
  <2>1. Busy(w) /\ worker[w].loaded \in Versions
    BY <1>4 DEF SaveDelta, MustSave, OneVersion
  <2>2. worker[w].task \in 0 .. Cells /\ worker[w].item \in 0 .. Items
    BY DEF WorkerType
  <2>3. worker' \in [Workers -> WorkerType]
    BY <1>4, <2>2, HoldTyped DEF SaveDelta
  <2> QED BY <1>4, <2>1, <2>3 DEF SaveDelta
<1>5. ASSUME NEW w \in Workers, WriteCheckpoint(w) PROVE Types'
  <2> DEFINE payload == Payload(worker[w].loaded, DeltaOf(InHand(w), delta[InHand(w)]))
  <2>1. Busy(w) /\ worker[w].loaded = inputs
    BY <1>5 DEF WriteCheckpoint, Computed, OneVersion
  <2>2. DeltaOf(InHand(w), delta[InHand(w)]) \in Versions \cup {Absent}
    BY <1>5, <2>1, ComputedDelta DEF WriteCheckpoint, DeltaOf
  <2>3. payload \in PayloadType
    BY <2>1, <2>2 DEF Payload, PayloadType
  <2>4. signature \in Versions
    BY <1>5 DEF WriteCheckpoint, OneVersion
  <2>5. [signature |-> signature, payload |-> payload] \in CheckpointType
    BY <2>3, <2>4 DEF CheckpointType
  <2>6. worker' \in [Workers -> WorkerType]
    BY <1>5, <2>1, ProceedTyped DEF WriteCheckpoint, Gather
  <2> HIDE DEF payload
  <2> QED BY <1>5, <2>3, <2>5, <2>6 DEF WriteCheckpoint, Gather, TableType, payload
<1>6. CASE Edit
  BY <1>6 DEF Edit
<1>7. ASSUME NEW again \in BOOLEAN, Start(again) PROVE Types'
  <2>1. Starting \in WorkerType /\ 1 \in 1 .. Cells + 1
    BY Sizes DEF Starting, WorkerType
  <2> QED BY <1>7, <2>1 DEF Start
<1>8. CASE CheckDeltas
  BY <1>8 DEF CheckDeltas
<1>9. CASE WriteTable
  <2>1. tables' \in [1 .. Tables -> TableType \cup {Absent, Torn}]
    BY <1>9 DEF WriteTable
  <2> QED BY <1>9, <2>1 DEF WriteTable
<1>10. CASE WriteManifest
  BY <1>10, IdleTyped DEF WriteManifest
<1>11. CASE Kill
  <2>1. delta' \in [Pieces -> Versions \cup {Absent, Torn}]
    BY <1>11 DEF Kill
  <2>2. tables' \in [1 .. Tables -> TableType \cup {Absent, Torn}]
    BY <1>11 DEF Kill
  <2> QED BY <1>11, <2>1, <2>2, IdleTyped DEF Kill
<1>12. CASE UNCHANGED vars
  BY <1>12 DEF vars, files, parent
<1> QED BY <1>1, <1>2, <1>3, <1>4, <1>5, <1>6, <1>7, <1>8, <1>9, <1>10, <1>11, <1>12
    DEF Next, Work, Finish, Stopped

\* A worker takes the first item of the next task.
LEMMA TaskTaken ==
  ASSUME Types, NEW w \in Workers, TakeTask(w)
  PROVE  /\ nextTask \in 1 .. Cells /\ ~Busy(w)
         /\ worker'[w].task = nextTask /\ worker'[w].item = 1 /\ ~worker'[w].saved
         /\ worker'[w].loaded = worker[w].loaded
         /\ \A v \in Workers \ {w} : worker'[v] = worker[v]
<1>1. nextTask \in 1 .. Cells /\ nextTask \in 0 .. Cells /\ 1 \in 0 .. Items
  BY Sizes DEF TakeTask, Types
<1>2. Hold(w, nextTask, 1, FALSE) /\ ~Busy(w)
  BY DEF TakeTask
<1>3. /\ worker'[w] = [task |-> nextTask, item |-> 1,
                       loaded |-> worker[w].loaded, saved |-> FALSE]
      /\ \A v \in Workers \ {w} : worker'[v] = worker[v]
  BY <1>1, <1>2, HoldTyped, Zenon
<1> QED BY <1>1, <1>2, <1>3

\* A worker that has saved a delta still has its item in hand.
LEMMA DeltaSaved ==
  ASSUME Types, NEW w \in Workers, SaveDelta(w)
  PROVE  /\ Busy(w) /\ worker'[w].task = worker[w].task
         /\ worker'[w].item = worker[w].item /\ worker'[w].loaded = worker[w].loaded
         /\ \A v \in Workers \ {w} : worker'[v] = worker[v]
<1>1. worker[w].task \in 0 .. Cells /\ worker[w].item \in 0 .. Items
  BY DEF Types, WorkerType
<1>2. Hold(w, worker[w].task, worker[w].item, TRUE) /\ Busy(w)
  BY DEF SaveDelta, MustSave
<1>3. /\ worker'[w] = [task |-> worker[w].task, item |-> worker[w].item,
                       loaded |-> worker[w].loaded, saved |-> TRUE]
      /\ \A v \in Workers \ {w} : worker'[v] = worker[v]
  BY <1>1, <1>2, HoldTyped, Zenon
<1> QED BY <1>2, <1>3

\* What a step of a worker does to the records of the workers.
LEMMA OnlyOneWorker ==
  ASSUME Types, OwnTasks, NEW w \in Workers, Work(w)
  PROVE  /\ UNCHANGED <<inputs, phase, resume, signature, tables, manifest, nextTable>>
         /\ phase = "cells"
         /\ \A v \in Workers \ {w} : worker'[v] = worker[v]
         /\ worker'[w].loaded \in {worker[w].loaded, inputs}
         /\ Initialize(w) \/ worker'[w].loaded = worker[w].loaded
<1>1. CASE Initialize(w)
  BY <1>1 DEF Initialize, Types, WorkerType, files, parent
<1>2. CASE TakeTask(w)
  BY <1>2, TaskTaken DEF TakeTask, files
<1>3. CASE TakeCheckpoint(w)
  BY <1>3, ProceedTyped DEF TakeCheckpoint, Gather, files, parent
<1>4. CASE SaveDelta(w)
  BY <1>4, DeltaSaved DEF SaveDelta, parent
<1>5. CASE WriteCheckpoint(w)
  BY <1>5, ProceedTyped DEF WriteCheckpoint, Computed, Gather, parent
<1> QED BY <1>1, <1>2, <1>3, <1>4, <1>5 DEF Work

\* Whoever loads the inputs while a run is going on loads the version of its start.
LEMMA OneVersionStep ==
  ASSUME Types, OneVersion, OwnTasks, [Next]_vars
  PROVE  OneVersion'
<1>1. ASSUME NEW w \in Workers, Work(w) PROVE OneVersion'
  <2>1. \A v \in Workers : worker'[v].loaded \in {Absent, inputs}
    BY <1>1, OnlyOneWorker DEF OneVersion
  <2>2. Busy(w)' => worker'[w].loaded = inputs
    <3>1. CASE Busy(w)
      BY <1>1, <3>1, OnlyOneWorker DEF OneVersion
    <3>2. CASE Initialize(w)
      BY <3>2 DEF Initialize, Types, WorkerType
    <3>3. CASE TakeTask(w)
      BY <1>1, <3>3, OnlyOneWorker DEF TakeTask, OneVersion
    <3> QED
      BY <1>1, <3>1, <3>2, <3>3
      DEF Work, TakeCheckpoint, SaveDelta, MustSave, WriteCheckpoint, Computed
  <2>3. \A v \in Workers \ {w} : Busy(v)' => Busy(v)
    BY <1>1, OnlyOneWorker DEF Busy
  <2>4. phase' = "cells" /\ signature' = signature /\ inputs' = inputs /\ phase = "cells"
    BY <1>1, OnlyOneWorker
  <2>5. \A v \in Workers : Busy(v)' => worker'[v].loaded = inputs
    BY <1>1, <2>2, <2>3, OnlyOneWorker DEF OneVersion
  <2> QED BY <2>1, <2>4, <2>5 DEF OneVersion
<1>2. CASE Edit
  <2>1. phase = "idle" /\ UNCHANGED <<phase, nextTask, worker>>
    BY <1>2 DEF Edit, parent
  <2>2. \A w \in Workers : worker[w].loaded = Absent /\ ~Busy(w)
    BY <2>1 DEF OneVersion, Starting, Busy
  <2> QED BY <2>1, <2>2 DEF OneVersion, Busy
<1>3. ASSUME NEW again \in BOOLEAN, Start(again) PROVE OneVersion'
  BY <1>3 DEF Start, OneVersion, Busy
<1>4. CASE Finish /\ ~WriteManifest
  BY <1>4 DEF Finish, CheckDeltas, WriteTable, OneVersion, Busy
<1>5. CASE WriteManifest \/ Kill
  <2>1. GoIdle /\ inputs' = inputs
    BY <1>5 DEF WriteManifest, Kill
  <2> QED BY <2>1 DEF GoIdle, OneVersion, Starting, Busy
<1>6. CASE UNCHANGED vars
  BY <1>6 DEF vars, parent, OneVersion, Busy
<1> QED BY <1>1, <1>2, <1>3, <1>4, <1>5, <1>6 DEF Next, Finish, Stopped

\* A task is handed out once.
LEMMA OwnTasksStep ==
  ASSUME Types, OneVersion, OwnTasks, [Next]_vars
  PROVE  OwnTasks'
<1>1. ASSUME NEW w \in Workers, Work(w), ~TakeTask(w) PROVE OwnTasks'
  <2>1. nextTask' = nextTask
    BY <1>1
    DEF Work, Initialize, TakeCheckpoint, SaveDelta, WriteCheckpoint, parent
  <2>2. Busy(w)' => /\ Busy(w) /\ worker'[w].task = worker[w].task
                    /\ worker'[w].item # 0
    <3>1. CASE Initialize(w)
      BY <3>1 DEF Initialize, Types, WorkerType, Busy, OwnTasks
    <3>2. CASE TakeCheckpoint(w) \/ WriteCheckpoint(w)
      <4>1. Busy(w) /\ Proceed(w)
        BY <3>2 DEF TakeCheckpoint, WriteCheckpoint, Computed, Gather
      <4>2. worker[w].item \in 1 .. Items
        BY <4>1, InHandIsPiece
      <4> QED BY <4>1, <4>2, ProceedTyped, Sizes DEF Busy
    <3>3. CASE SaveDelta(w)
      BY <3>3, DeltaSaved DEF OwnTasks
    <3> QED BY <1>1, <3>1, <3>2, <3>3 DEF Work
  <2> QED BY <1>1, <2>1, <2>2, OnlyOneWorker DEF OwnTasks, Busy
<1>2. ASSUME NEW w \in Workers, TakeTask(w) PROVE OwnTasks'
  <2>1. nextTask \in 1 .. Cells /\ nextTask' = nextTask + 1
    BY <1>2, TaskTaken DEF TakeTask
  <2>2. worker'[w].task = nextTask /\ worker'[w].item = 1
    BY <1>2, TaskTaken
  <2>3. \A v \in Workers \ {w} : worker'[v] = worker[v]
    BY <1>2, TaskTaken
  <2>4. phase' = "cells"
    BY <1>2 DEF TakeTask
  <2>5. \A v \in Workers : Busy(v) => worker[v].task < nextTask /\ phase = "cells"
                                        /\ worker[v].item # 0
    BY DEF OwnTasks
  <2>6. \A v \in Workers \ {w} : Busy(v)' => Busy(v) /\ worker'[v].task < nextTask
    BY <2>3, <2>5 DEF Busy
  <2>7. \A v \in Workers : Busy(v)' => /\ worker'[v].task < nextTask'
                                       /\ worker'[v].item # 0
    BY <2>1, <2>2, <2>3, <2>5, <2>6 DEF Types, WorkerType
  <2>8. \A u, v \in Workers : Busy(u)' /\ worker'[u].task = worker'[v].task => u = v
    BY <2>1, <2>2, <2>3, <2>6 DEF OwnTasks, Busy
  <2> QED BY <2>4, <2>7, <2>8 DEF OwnTasks
<1>3. CASE Edit
  BY <1>3 DEF Edit, OwnTasks, Busy, parent
<1>4. ASSUME NEW again \in BOOLEAN, Start(again) PROVE OwnTasks'
  BY <1>4 DEF Start, OwnTasks, OneVersion, Starting, Busy
<1>5. CASE CheckDeltas
  <2>1. nextTask = Cells + 1
    BY <1>5, Sizes DEF CheckDeltas, Types
  <2> QED BY <1>5, <2>1 DEF CheckDeltas, OwnTasks, Busy
<1>6. CASE WriteTable
  BY <1>6 DEF WriteTable, OwnTasks, Busy
<1>7. CASE WriteManifest \/ Kill
  <2>1. GoIdle
    BY <1>7 DEF WriteManifest, Kill
  <2> QED BY <2>1 DEF GoIdle, OwnTasks, Starting, Busy
<1>8. CASE UNCHANGED vars
  BY <1>8 DEF vars, parent, OwnTasks, Busy
<1> QED BY <1>1, <1>2, <1>3, <1>4, <1>5, <1>6, <1>7, <1>8 DEF Next, Finish, Stopped

\* A saved delta is not written over while its item is in hand.
LEMMA DeltasSavedStep ==
  ASSUME Types, OneVersion, OwnTasks, DeltasSaved, [Next]_vars
  PROVE  DeltasSaved'
<1>1. ASSUME NEW w \in Workers, SaveDelta(w) PROVE DeltasSaved'
  <2>1. /\ delta' = [delta EXCEPT ![InHand(w)] = inputs] /\ inputs' = inputs
        /\ InHand(w) \in Pieces
    BY <1>1, DeltaSaved, InHandIsPiece DEF SaveDelta, OneVersion
  <2>2. \A v \in Workers : /\ Busy(v)' <=> Busy(v)
                           /\ InHand(v)' = InHand(v)
                           /\ v # w => worker'[v] = worker[v]
    BY <1>1, DeltaSaved DEF Busy, InHand
  <2>3. \A v \in Workers : Busy(v) /\ InHand(v) = InHand(w) => v = w
    BY <1>1, DeltaSaved, InHandIsPiece DEF OwnTasks
  <2>4. \A v \in Workers : Busy(v) => InHand(v) \in Pieces
    BY InHandIsPiece
  <2>5. delta'[InHand(w)] = inputs
    BY <2>1 DEF Types
  <2>6. \A v \in Workers \ {w} : Busy(v) => delta'[InHand(v)] = delta[InHand(v)]
    BY <2>1, <2>3, <2>4 DEF Types
  <2> QED BY <2>1, <2>2, <2>5, <2>6 DEF DeltasSaved
<1>2. ASSUME NEW w \in Workers, Work(w), ~SaveDelta(w) PROVE DeltasSaved'
  <2>1. delta' = delta /\ inputs' = inputs
    BY <1>2 DEF Work, Initialize, TakeTask, TakeCheckpoint, WriteCheckpoint, files
  <2>2. \A v \in Workers \ {w} : worker'[v] = worker[v]
    BY <1>2, OnlyOneWorker
  <2>3. CASE Initialize(w)
    BY <2>1, <2>3 DEF Initialize, Types, WorkerType, DeltasSaved, Busy, InHand
  <2>4. CASE ~Initialize(w)
    <3>1. ~worker'[w].saved
      BY <1>2, <2>4, TaskTaken, ProceedTyped
      DEF Work, TakeCheckpoint, WriteCheckpoint, Computed, Gather
    <3> QED BY <2>1, <2>2, <3>1 DEF DeltasSaved, Busy, InHand
  <2> QED BY <2>3, <2>4
<1>3. CASE Edit
  BY <1>3 DEF Edit, DeltasSaved, OneVersion, Starting, Busy, parent
<1>4. ASSUME NEW again \in BOOLEAN, Start(again) PROVE DeltasSaved'
  BY <1>4 DEF Start, DeltasSaved, Busy, InHand, files
<1>5. CASE Finish /\ ~WriteManifest
  BY <1>5 DEF Finish, CheckDeltas, WriteTable, DeltasSaved, Busy, InHand, files
<1>6. CASE WriteManifest \/ Kill
  <2>1. GoIdle
    BY <1>6 DEF WriteManifest, Kill
  <2> QED BY <2>1 DEF GoIdle, DeltasSaved, Starting, Busy
<1>7. CASE UNCHANGED vars
  BY <1>7 DEF vars, files, DeltasSaved, Busy, InHand
<1> QED BY <1>1, <1>2, <1>3, <1>4, <1>5, <1>6, <1>7 DEF Next, Finish, Stopped

\* A checkpoint is written with what a fresh run computes.
LEMMA CheckpointsStep ==
  ASSUME Types, OneVersion, OwnTasks, DeltasSaved, CheckpointsFresh, [Next]_vars
  PROVE  CheckpointsFresh'
<1>1. ASSUME NEW w \in Workers, WriteCheckpoint(w) PROVE CheckpointsFresh'
  <2> DEFINE payload == Payload(worker[w].loaded, DeltaOf(InHand(w), delta[InHand(w)]))
             entry == [signature |-> signature, payload |-> payload]
  <2>1. /\ InHand(w) \in Pieces /\ signature = inputs /\ worker[w].loaded = inputs
        /\ checkpoint' = [checkpoint EXCEPT ![InHand(w)] = entry]
    BY <1>1, InHandIsPiece DEF WriteCheckpoint, Computed, OneVersion
  <2>2. payload = FreshTable(inputs)[InHand(w)]
    BY <1>1, <2>1, ComputedDelta, FreshEntry DEF WriteCheckpoint, Types
  <2>3. entry.payload = FreshTable(entry.signature)[InHand(w)]
    BY <2>1, <2>2
  <2> HIDE DEF entry
  <2> QED BY <2>1, <2>3 DEF CheckpointsFresh, Types
<1>2. CASE checkpoint' = checkpoint
  BY <1>2 DEF CheckpointsFresh
<1>3. (\A w \in Workers : ~WriteCheckpoint(w)) => checkpoint' = checkpoint
  BY DEF Next, Work, Initialize, TakeTask, TakeCheckpoint, SaveDelta, Edit, Start, Finish,
         CheckDeltas, WriteTable, WriteManifest, Kill, Stopped, vars, files
<1> QED BY <1>1, <1>2, <1>3

\* A step that moves no worker and no task passes nothing.
LEMMA PassedKept ==
  ASSUME UNCHANGED <<nextTask, worker>>, NEW p \in Pieces
  PROVE  Passed(p)' <=> Passed(p)
BY DEF Passed

\* The parent gets the item in hand, as a fresh run computes it.
LEMMA PassedGather ==
  ASSUME Types, OneVersion, OwnTasks, PassedAreFresh, NEW w \in Workers, Busy(w),
         NEW payload, Gather(w, payload), UNCHANGED <<inputs, delta, nextTask>>,
         payload = FreshTable(inputs)[InHand(w)], ArtifactsValid(InHand(w), payload)
  PROVE  PassedAreFresh'
<1>1. /\ InHand(w) \in Pieces /\ Proceed(w)
      /\ gathered' = [gathered EXCEPT ![InHand(w)] = payload]
  BY InHandIsPiece DEF Gather
<1> SUFFICES ASSUME NEW p \in Pieces
             PROVE  IF Passed(p)'
                      THEN gathered'[p] = FreshTable(inputs)[p] /\ ArtifactsValid(p, gathered'[p])
                      ELSE gathered'[p] = Absent
  BY DEF PassedAreFresh, ArtifactsValid
<1>2. Passed(p)' <=> Passed(p) \/ p = InHand(w)
  BY <1>1, OnePassed
<1>3. CASE p = InHand(w)
  BY <1>1, <1>2, <1>3 DEF Types, TableType
<1>4. CASE p # InHand(w)
  BY <1>1, <1>2, <1>4 DEF Types, TableType, PassedAreFresh
<1> QED BY <1>3, <1>4

\* The parent has what was passed.
LEMMA PassedStep ==
  ASSUME Types, OneVersion, OwnTasks, DeltasSaved, CheckpointsFresh, PassedAreFresh,
         [Next]_vars
  PROVE  PassedAreFresh'
<1>1. ASSUME NEW w \in Workers, TakeCheckpoint(w) PROVE PassedAreFresh'
  <2> DEFINE payload == checkpoint[InHand(w)].payload
  <2>1. /\ Busy(w) /\ InHand(w) \in Pieces /\ Gather(w, payload) /\ signature = inputs
        /\ UNCHANGED <<inputs, delta, nextTask>> /\ Reusable(InHand(w), inputs)
    BY <1>1, InHandIsPiece DEF TakeCheckpoint, Reuses, OneVersion, files, parent
  <2>2. payload = FreshTable(inputs)[InHand(w)]
    BY <2>1 DEF Reusable, CheckpointsFresh
  <2>3. ArtifactsValid(InHand(w), payload)
    BY <2>1 DEF Reusable
  <2> HIDE DEF payload
  <2> QED BY <2>1, <2>2, <2>3, PassedGather
<1>2. ASSUME NEW w \in Workers, WriteCheckpoint(w) PROVE PassedAreFresh'
  <2> DEFINE payload == Payload(worker[w].loaded, DeltaOf(InHand(w), delta[InHand(w)]))
  <2>1. /\ Busy(w) /\ InHand(w) \in Pieces /\ Gather(w, payload)
        /\ worker[w].loaded = inputs /\ UNCHANGED <<inputs, delta, nextTask>>
    BY <1>2, InHandIsPiece DEF WriteCheckpoint, Computed, OneVersion, parent
  <2>2. payload = FreshTable(inputs)[InHand(w)]
    BY <1>2, <2>1, ComputedDelta, FreshEntry DEF WriteCheckpoint, Types
  <2>3. ArtifactsValid(InHand(w), payload)
    BY DEF ArtifactsValid, Payload
  <2> HIDE DEF payload
  <2> QED BY <2>1, <2>2, <2>3, PassedGather
<1>3. ASSUME NEW w \in Workers, SaveDelta(w) PROVE PassedAreFresh'
  <2>1. /\ InHand(w) \in Pieces /\ ~Passed(InHand(w)) /\ UNCHANGED <<inputs, nextTask, gathered>>
        /\ delta' = [delta EXCEPT ![InHand(w)] = worker[w].loaded]
    BY <1>3, DeltaSaved, InHandIsPiece DEF SaveDelta, parent
  <2>2. \A p \in Pieces : Passed(p)' <=> Passed(p)
    BY <1>3, <2>1, DeltaSaved DEF Passed
  <2>3. \A p \in Pieces : Passed(p) => delta'[p] = delta[p]
    BY <2>1 DEF Types
  <2> QED BY <2>1, <2>2, <2>3 DEF PassedAreFresh, ArtifactsValid
<1>4. ASSUME NEW w \in Workers, TakeTask(w) PROVE PassedAreFresh'
  <2>1. UNCHANGED <<inputs, delta, gathered>> /\ nextTask' = nextTask + 1
    BY <1>4 DEF TakeTask, files
  <2>2. ASSUME NEW p \in Pieces PROVE Passed(p)' <=> Passed(p)
    <3>1. p[1] \in 1 .. Cells /\ p[2] \in 1 .. Items /\ worker[w].task # p[1]
      BY <1>4, TaskTaken DEF Pieces, Busy
    <3>2. CASE p[1] = nextTask
      <4>1. worker'[w].task = p[1] /\ ~(p[2] < worker'[w].item)
        BY <1>4, <3>1, <3>2, TaskTaken
      <4>2. ~(p[1] < nextTask)
        BY <3>1, <3>2
      <4> QED BY <4>1, <4>2 DEF Passed
    <3>3. CASE p[1] # nextTask
      <4>1. p[1] < nextTask' <=> p[1] < nextTask
        BY <1>4, <2>1, <3>1, <3>3, TaskTaken, Sizes
      <4>2. worker'[w].task # p[1]
        BY <1>4, <3>3, TaskTaken
      <4> QED BY <1>4, <3>1, <4>1, <4>2, TaskTaken DEF Passed
    <3> QED BY <3>2, <3>3
  <2> QED BY <2>1, <2>2 DEF PassedAreFresh, ArtifactsValid
<1>5. ASSUME NEW w \in Workers, Initialize(w) PROVE PassedAreFresh'
  <2>1. UNCHANGED <<inputs, delta, gathered, nextTask>>
    BY <1>5 DEF Initialize, files, parent
  <2>2. \A p \in Pieces : Passed(p)' <=> Passed(p)
    BY <1>5, <2>1 DEF Initialize, Types, WorkerType, Passed
  <2> QED BY <2>1, <2>2 DEF PassedAreFresh, ArtifactsValid
<1>6. CASE Edit
  <2>1. nextTask = 1 /\ UNCHANGED <<nextTask, worker, gathered>>
    BY <1>6 DEF Edit, OneVersion, parent
  <2>2. \A p \in Pieces : ~Passed(p) /\ ~Passed(p)'
    BY <2>1 DEF Passed, Pieces
  <2> QED BY <2>1, <2>2 DEF PassedAreFresh
<1>7. ASSUME NEW again \in BOOLEAN, Start(again) PROVE PassedAreFresh'
  BY <1>7 DEF Start, PassedAreFresh, Passed, ArtifactsValid, files
<1>8. CASE CheckDeltas \/ WriteTable
  BY <1>8 DEF CheckDeltas, WriteTable, PassedAreFresh, Passed, ArtifactsValid, files
<1>9. CASE WriteManifest \/ Kill
  <2>1. GoIdle
    BY <1>9 DEF WriteManifest, Kill
  <2>2. \A p \in Pieces : ~Passed(p)' /\ gathered'[p] = Absent
    BY <2>1 DEF GoIdle, Passed, Pieces
  <2> QED BY <2>2 DEF PassedAreFresh
<1>10. CASE UNCHANGED vars
  BY <1>10 DEF vars, files, parent, PassedAreFresh, Passed, ArtifactsValid
<1> QED
  BY <1>1, <1>2, <1>3, <1>4, <1>5, <1>6, <1>7, <1>8, <1>9, <1>10
  DEF Next, Work, Finish, Stopped

\* After the last cell the parent has a fresh table.
LEMMA GatheredAll ==
  ASSUME Types, OwnTasks, PassedAreFresh, nextTask = Cells + 1, \A w \in Workers : ~Busy(w)
  PROVE  /\ gathered = FreshTable(inputs)
         /\ \A p \in Pieces : ArtifactsValid(p, gathered[p])
<1>1. \A p \in Pieces : Passed(p)
  BY Sizes DEF Passed, Pieces, Busy
<1>2. \A p \in Pieces : gathered[p] = FreshTable(inputs)[p] /\ ArtifactsValid(p, gathered[p])
  BY <1>1 DEF PassedAreFresh
<1>3. gathered = [p \in Pieces |-> gathered[p]]
  BY DEF Types, TableType
<1> QED BY <1>2, <1>3 DEF FreshTable

\* The last delta check passes, and the tables are written before the manifest.
LEMMA TablesStep ==
  ASSUME Types, OneVersion, OwnTasks, PassedAreFresh, TablesWritten, [Next]_vars
  PROVE  TablesWritten'
<1>1. CASE CheckDeltas
  <2>1. nextTask = Cells + 1 /\ \A w \in Workers : ~Busy(w)
    BY <1>1, Sizes DEF CheckDeltas, Types
  <2>2. phase' = "tables" /\ UNCHANGED <<tables, manifest, gathered, nextTable>>
    BY <1>1, <2>1, GatheredAll DEF CheckDeltas, files
  <2>3. nextTable = 1
    BY <1>1 DEF CheckDeltas, TablesWritten
  <2>4. 1 \in 1 .. Tables /\ ~(\E t \in 1 .. Tables : t < 1)
    BY Sizes
  <2> QED BY <2>2, <2>3, <2>4 DEF TablesWritten
<1>2. CASE WriteTable
  <2>1. /\ tables' = [tables EXCEPT ![nextTable] = gathered]
        /\ nextTable' = nextTable + 1 /\ UNCHANGED <<manifest, gathered>>
        /\ phase' = IF nextTable = Tables THEN "manifest" ELSE "tables"
        /\ nextTable \in 1 .. Tables
    BY <1>2 DEF WriteTable, TablesWritten
  <2>2. \A t \in 1 .. Tables : t < nextTable' => tables'[t] = gathered
    BY <1>2, <2>1 DEF WriteTable, TablesWritten, Types
  <2>3. CASE nextTable = Tables
    <3>1. \A t \in 1 .. Tables : t < nextTable'
      BY <2>1, <2>3, Sizes
    <3> QED BY <2>1, <2>2, <2>3, <3>1 DEF TablesWritten
  <2>4. CASE nextTable # Tables
    <3>1. nextTable' \in 1 .. Tables
      BY <2>1, <2>4, Sizes
    <3> QED BY <2>1, <2>2, <2>4, <3>1 DEF TablesWritten
  <2> QED BY <2>3, <2>4
<1>3. CASE WriteManifest
  <2>1. nextTask = Cells + 1 /\ \A w \in Workers : ~Busy(w)
    BY <1>3 DEF WriteManifest, OwnTasks
  <2>2. \A t \in 1 .. Tables : tables[t] = FreshTable(inputs)
    BY <1>3, <2>1, GatheredAll DEF WriteManifest, TablesWritten
  <2>3. manifest'.outputs = tables /\ manifest'.inputs = Listed[inputs]
    BY <1>3 DEF WriteManifest, ManifestOf
  <2>4. phase' = "idle" /\ nextTable' = 1
    BY <1>3 DEF WriteManifest, GoIdle
  <2>5. \E v \in Versions : /\ manifest'.inputs = Listed[v]
                            /\ \A t \in 1 .. Tables : manifest'.outputs[t] = FreshTable(v)
    BY <2>2, <2>3 DEF Types
  <2>6. nextTable' = 1 /\ phase' \notin {"failed", "tables", "manifest"}
    BY <2>4
  <2> QED BY <2>5, <2>6 DEF TablesWritten
<1>4. CASE Kill
  <2>1. phase' = "idle" /\ nextTable' = 1 /\ manifest' \in {manifest, Torn}
    BY <1>4 DEF Kill, GoIdle
  <2> QED BY <2>1 DEF TablesWritten
<1>5. ASSUME NEW w \in Workers, Work(w) PROVE TablesWritten'
  BY <1>5, OnlyOneWorker DEF TablesWritten
<1>6. CASE Edit
  BY <1>6 DEF Edit, TablesWritten, files, parent
<1>7. ASSUME NEW again \in BOOLEAN, Start(again) PROVE TablesWritten'
  BY <1>7 DEF Start, TablesWritten, files
<1>8. CASE UNCHANGED vars
  BY <1>8 DEF vars, files, parent, TablesWritten
<1> QED BY <1>1, <1>2, <1>3, <1>4, <1>5, <1>6, <1>7, <1>8 DEF Next, Finish, Stopped

-----------------------------------------------------------------------------
\* Nothing has run yet.
LEMMA InvInit ==
  ASSUME Init
  PROVE  RunInv
<1>1. Starting \in WorkerType /\ 1 \in 1 .. Cells + 1 /\ [p \in Pieces |-> Absent] \in TableType
  BY Sizes DEF Starting, WorkerType, TableType
<1>2. Types
  <2>1. /\ phase \in {"idle", "cells", "tables", "manifest", "failed"}
        /\ resume \in BOOLEAN /\ inputs \in Versions
        /\ nextTask \in 1 .. Cells + 1
    BY <1>1 DEF Init
  <2>2. /\ delta \in [Pieces -> Versions \cup {Absent, Torn}]
        /\ checkpoint \in [Pieces -> CheckpointType \cup {Absent}]
        /\ tables \in [1 .. Tables -> TableType \cup {Absent, Torn}]
    BY DEF Init
  <2>3. gathered \in TableType /\ worker \in [Workers -> WorkerType]
    BY <1>1 DEF Init
  <2>4. nextTable \in Nat \ {0}
    BY DEF Init
  <2> QED BY <2>1, <2>2, <2>3, <2>4 DEF Types
<1>3. \A w \in Workers : worker[w] = Starting /\ ~Busy(w) /\ worker[w].loaded = Absent
  BY DEF Init, Starting, Busy
<1>4. OneVersion /\ OwnTasks /\ DeltasSaved
  BY <1>3 DEF Init, OneVersion, OwnTasks, DeltasSaved
<1>5. CheckpointsFresh /\ TablesWritten
  BY DEF Init, CheckpointsFresh, TablesWritten
<1>6. \A p \in Pieces : ~Passed(p) /\ gathered[p] = Absent
  BY DEF Init, Passed, Pieces
<1>7. PassedAreFresh
  BY <1>6 DEF PassedAreFresh
<1> QED BY <1>2, <1>4, <1>5, <1>7 DEF RunInv

\* Every step keeps the invariant.
LEMMA InvStep ==
  ASSUME RunInv, [Next]_vars
  PROVE  RunInv'
<1>1. Types' /\ OneVersion' /\ OwnTasks' /\ DeltasSaved'
  BY TypesStep, OneVersionStep, OwnTasksStep, DeltasSavedStep DEF RunInv
<1>2. CheckpointsFresh' /\ PassedAreFresh' /\ TablesWritten'
  BY CheckpointsStep, PassedStep, TablesStep DEF RunInv
<1> QED BY <1>1, <1>2 DEF RunInv

\* The invariant of runs that are killed, resumed and started over.
THEOREM RunInvariant == Spec => []RunInv
<1>1. Init => RunInv
  BY InvInit
<1>2. RunInv /\ [Next]_vars => RunInv'
  BY InvStep
<1> QED BY <1>1, <1>2, PTL DEF Spec

\* A resumed run hands on only payloads that its own inputs produce (CheckpointStore.load
\* in consistent_cells.py).
THEOREM PayloadsAreFresh == Spec => []GatheredIsFresh
<1>1. RunInv => GatheredIsFresh
  <2> SUFFICES ASSUME RunInv, NEW p \in Pieces, gathered[p] # Absent
               PROVE  gathered[p] = FreshTable(signature)[p]
    BY DEF GatheredIsFresh
  <2>1. Passed(p) /\ gathered[p] = FreshTable(inputs)[p]
    BY DEF RunInv, PassedAreFresh
  <2>2. phase # "idle"
    BY <2>1 DEF RunInv, OneVersion, Passed, Pieces
  <2> QED BY <2>1, <2>2 DEF RunInv, OneVersion
<1> QED BY <1>1, RunInvariant, PTL

\* All tables of a directory whose manifest verifies are those of one fresh run from
\* listed files that agree with those on disk (provenance.verify, main of
\* run_consistent_visibility.py).
THEOREM VerifiedIsOneRun == Spec => []VerifiedTablesFollow
<1>1. RunInv => VerifiedTablesFollow
  <2> SUFFICES ASSUME RunInv, Verified(manifest, Listed[inputs], tables)
               PROVE  \E v \in Versions : /\ Agree(Listed[v], Listed[inputs])
                                          /\ \A t \in 1 .. Tables : tables[t] = FreshTable(v)
    BY DEF VerifiedTablesFollow
  <2>1. PICK v \in Versions : /\ manifest.inputs = Listed[v]
                              /\ \A t \in 1 .. Tables : manifest.outputs[t] = FreshTable(v)
    BY DEF RunInv, TablesWritten, Verified
  <2> QED BY <2>1 DEF Verified
<1> QED BY <1>1, RunInvariant, PTL

\* The last check of the deltas, the only error that would end a run without its tables,
\* never fails (run_consistent_visibility.py:1308).
THEOREM DeltaCheckPasses == Spec => [](phase # "failed")
<1>1. RunInv => phase # "failed"
  BY DEF RunInv, TablesWritten
<1> QED BY <1>1, RunInvariant, PTL

\* No step takes away a checkpoint, or the delta it names, that this run or the next
\* resumed one could use.
LEMMA KeptStep ==
  ASSUME RunInv, [Next]_vars, NEW p \in Pieces, Reusable(p, inputs), inputs' = inputs,
         phase = "idle" \/ resume
  PROVE  Reusable(p, inputs)'
<1> USE DEF RunInv
<1>1. (checkpoint'[p] = checkpoint[p] /\ delta'[p] = delta[p]) => Reusable(p, inputs)'
  BY DEF Reusable, ArtifactsValid, DeltaOf
<1>2. ASSUME NEW w \in Workers, InHand(w) = p, phase = "cells" PROVE Reuses(w)
  <2>1. phase # "idle" /\ signature = inputs
    BY <1>2 DEF OneVersion
  <2>2. resume
    BY <2>1, Zenon
  <2> QED BY <1>2, <2>1, <2>2, Zenon DEF Reuses
<1>3. ASSUME NEW w \in Workers, SaveDelta(w)
      PROVE  checkpoint'[p] = checkpoint[p] /\ delta'[p] = delta[p]
  <2>1. phase = "cells" /\ ~Reuses(w)
    BY <1>3, Zenon DEF SaveDelta, MustSave
  <2>2. InHand(w) # p
    BY <1>2, <2>1, Zenon
  <2> QED BY <1>3, <2>2 DEF SaveDelta, Types
<1>4. ASSUME NEW w \in Workers, WriteCheckpoint(w)
      PROVE  checkpoint'[p] = checkpoint[p] /\ delta'[p] = delta[p]
  <2> DEFINE payload == Payload(worker[w].loaded, DeltaOf(InHand(w), delta[InHand(w)]))
  <2>1. /\ signature = inputs /\ worker[w].loaded = inputs /\ delta' = delta
        /\ checkpoint' = [checkpoint EXCEPT ![InHand(w)] =
                            [signature |-> signature, payload |-> payload]]
    BY <1>4 DEF WriteCheckpoint, Computed, OneVersion
  <2>2. payload = Payload(inputs, DeltaOf(InHand(w), inputs))
    BY <1>4, <2>1, ComputedDelta DEF WriteCheckpoint
  <2>3. checkpoint[p] = [signature |-> inputs, payload |-> FreshTable(inputs)[p]]
    <3>1. checkpoint[p] # Absent /\ checkpoint[p].signature = inputs
      BY DEF Reusable
    <3>2. checkpoint[p].payload = FreshTable(inputs)[p]
      BY <3>1 DEF CheckpointsFresh
    <3>3. checkpoint[p] \in CheckpointType
      BY <3>1 DEF Types
    <3> QED BY <3>1, <3>2, <3>3 DEF CheckpointType
  <2>4. InHand(w) = p => payload = FreshTable(inputs)[p]
    BY <2>2, FreshEntry DEF Types
  <2> HIDE DEF payload
  <2> QED BY <2>1, <2>3, <2>4 DEF Types
<1>5. CASE Kill
  <2>1. ASSUME NEW w \in Workers, MustSave(w) PROVE InHand(w) # p
    <3>1. phase = "cells" /\ ~Reuses(w)
      BY <2>1 DEF MustSave, OwnTasks
    <3> QED BY <1>2, <3>1, Zenon
  <2>2. PICK torn \in SUBSET {InHand(w) : w \in {v \in Workers : MustSave(v)}} :
          delta' = [q \in Pieces |-> IF q \in torn THEN Torn ELSE delta[q]]
    BY <1>5, Zenon DEF Kill
  <2>3. p \notin torn
    BY <2>1, <2>2, Zenon
  <2>4. checkpoint' = checkpoint
    BY <1>5, Zenon DEF Kill
  <2> QED BY <1>1, <2>2, <2>3, <2>4
<1>6. \/ \E w \in Workers : SaveDelta(w) \/ WriteCheckpoint(w)
      \/ Kill \/ (checkpoint' = checkpoint /\ delta' = delta)
  BY DEF Next, Work, Initialize, TakeTask, TakeCheckpoint, Edit, Start, Finish, CheckDeltas,
         WriteTable, WriteManifest, Stopped, vars, files
<1> QED BY <1>1, <1>3, <1>4, <1>5, <1>6

\* What a resumed run could use again before a step, it still can after it, kills
\* included (_save_delta and CheckpointStore.write in consistent_cells.py).
THEOREM WorkIsKept == Spec => FinishedWorkIsKept
<1> DEFINE Kept == \A p \in Pieces :
                     /\ Reusable(p, inputs) /\ inputs' = inputs
                     /\ phase = "idle" \/ resume
                     => Reusable(p, inputs)'
<1>1. RunInv /\ [Next]_vars => Kept
  BY KeptStep
<1>2. Spec => [][Kept]_vars
  <2> HIDE DEF Kept
  <2> QED BY <1>1, RunInvariant, PTL DEF Spec
<1> QED BY <1>2 DEF FinishedWorkIsKept
=============================================================================
