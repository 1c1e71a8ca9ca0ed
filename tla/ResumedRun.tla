----------------------------- MODULE ResumedRun -----------------------------
(* The exact-visibility experiment as a run that may be killed and resumed   *)
(* (scripts/run_consistent_visibility.py with consistent_cells.py).  Two     *)
(* workers take the cells (overlay, level) in order and go through a cell's  *)
(* items; a finished item leaves a checkpoint, and some items first leave a  *)
(* sparse delta file that the checkpoint hashes.  The parent then checks the *)
(* deltas, writes the tables and at last the manifest.                       *)
(*                                                                           *)
(* Everything a run's results depend on (code, configuration, scores,        *)
(* overlays, controls) is one version, and run_signature is taken of all of  *)
(* it; the manifest lists the files of a version without its code.  An       *)
(* item's result is the version it was computed from, and so is the content  *)
(* of its delta: both are functions of the inputs.                           *)
(* Bug_X is a mutated form of the definition X that follows it.              *)
EXTENDS Manifest, Naturals, FiniteSets

CONSTANTS
  Versions,          \* versions of the inputs
  Listed,            \* Listed[v]: the contents of the files a manifest lists, by name
  Cells,             \* tasks 1 .. Cells
  Items,             \* the items of a cell, 1 .. Items, in this order
  WithDelta,         \* the items that write a delta file
  Workers,           \* the two processes of the pool
  Tables,            \* the tables 1 .. Tables, in the order of TABLE_NAMES
  MaxRuns, MaxEdits  \* bounds on the number of runs and of edits

ASSUME SizesAssumption ==
  /\ {Cells, Items, Tables, MaxRuns, MaxEdits} \subseteq Nat \ {0}
  /\ WithDelta \subseteq 1 .. Items
  /\ {Absent, Torn} \cap Versions = {}

VARIABLES
  inputs,      \* the version on disk
  delta,       \* the delta file of every (cell, item)
  checkpoint,  \* its checkpoint
  tables,      \* the tables on disk
  manifest,    \* manifest.json
  phase,       \* "idle" | "cells" | "tables" | "manifest" | "failed"
  resume,      \* --resume
  signature,   \* run_signature, taken by the parent when it starts
  nextTask,    \* the first task executor.map has not handed out
  worker,      \* the task, the item in it and the inputs of every worker
  gathered,    \* the payloads returned to the parent, by cell and item
  nextTable,   \* the table to be written next
  runs, edits  \* counters for the bounds

files == <<delta, checkpoint, tables, manifest>>
parent == <<phase, resume, signature, nextTask, nextTable, runs>>
vars == <<inputs, files, parent, worker, gathered, edits>>

Pieces == (1 .. Cells) \X (1 .. Items)
Starting == [task |-> 0, item |-> 0, loaded |-> Absent, saved |-> FALSE]

(* What a payload holds: its rows, and the manifest entry of its delta.      *)
Payload(version, entry) == [rows |-> version, delta |-> entry]
DeltaOf(p, version) == IF p[2] \in WithDelta THEN version ELSE Absent

(* artifacts_valid for the one entry of a payload.                           *)
ArtifactsValid(p, payload) == payload.delta = DeltaOf(p, delta[p])

(* A checkpoint's signature is not compared.                                 *)
Bug_Reusable(p, sig) ==
  checkpoint[p] # Absent /\ ArtifactsValid(p, checkpoint[p].payload)
(* A checkpoint's artifacts are not hashed when it is loaded.                *)
Bug_Reusable2(p, sig) ==
  checkpoint[p] # Absent /\ checkpoint[p].signature = sig
(* CheckpointStore.load: the payload may be used again.                      *)
Reusable(p, sig) ==
  /\ checkpoint[p] # Absent
  /\ checkpoint[p].signature = sig
  /\ ArtifactsValid(p, checkpoint[p].payload)

InHand(w) == <<worker[w].task, worker[w].item>>
Busy(w) == worker[w].task # 0
Reuses(w) == resume /\ Reusable(InHand(w), signature)
(* The delta is written before the checkpoint is looked for.                 *)
Bug_MustSave(w) == Busy(w) /\ ~worker[w].saved /\ worker[w].item \in WithDelta
MustSave(w) ==
  Busy(w) /\ ~worker[w].saved /\ ~Reuses(w) /\ worker[w].item \in WithDelta

Init ==
  /\ inputs \in Versions
  /\ delta = [p \in Pieces |-> Absent]
  /\ checkpoint = [p \in Pieces |-> Absent]
  /\ tables = [t \in 1 .. Tables |-> Absent]
  /\ manifest = Absent
  /\ phase = "idle" /\ resume = FALSE /\ signature = Absent
  /\ nextTask = 1 /\ nextTable = 1 /\ runs = 0 /\ edits = 0
  /\ worker = [w \in Workers |-> Starting]
  /\ gathered = [p \in Pieces |-> Absent]

(* The processes of the run are gone, and what they held in memory with them. *)
GoIdle ==
  /\ phase' = "idle" /\ resume' = FALSE /\ signature' = Absent
  /\ nextTask' = 1 /\ nextTable' = 1
  /\ worker' = [w \in Workers |-> Starting]
  /\ gathered' = [p \in Pieces |-> Absent]

-----------------------------------------------------------------------------
(* Someone changes the code, the configuration or a data file between runs,  *)
(* or takes a data file away.                                                *)
Edit ==
  /\ phase = "idle"
  /\ edits < MaxEdits
  /\ edits' = edits + 1
  /\ inputs' \in Versions \ {inputs}
  /\ UNCHANGED <<files, parent, worker, gathered>>

Start(again) ==
  /\ phase = "idle" /\ runs < MaxRuns /\ Present(Listed[inputs])
  /\ runs' = runs + 1
  /\ phase' = "cells" /\ resume' = again /\ signature' = inputs
  /\ UNCHANGED <<inputs, files, nextTask, nextTable, worker, gathered, edits>>

(* _initialize_cell_worker: a worker loads the inputs for itself.            *)
Initialize(w) ==
  /\ phase = "cells" /\ worker[w].loaded = Absent
  /\ worker' = [worker EXCEPT ![w].loaded = inputs]
  /\ UNCHANGED <<inputs, files, parent, gathered, edits>>

(* A worker has this item of this task in hand, and has saved its delta.     *)
Hold(w, task, item, saved) ==
  worker' = [worker EXCEPT ![w] = [task |-> task, item |-> item,
                                   loaded |-> worker[w].loaded, saved |-> saved]]

TakeTask(w) ==
  /\ phase = "cells" /\ worker[w].loaded # Absent /\ ~Busy(w)
  /\ nextTask <= Cells
  /\ Hold(w, nextTask, 1, FALSE)
  /\ nextTask' = nextTask + 1
  /\ UNCHANGED <<inputs, files, phase, resume, signature, nextTable, runs,
                 gathered, edits>>

(* The item in hand has its payload; the worker goes to the next one, or     *)
(* returns the cell.                                                         *)
Proceed(w) ==
  IF worker[w].item < Items THEN Hold(w, worker[w].task, worker[w].item + 1, FALSE)
                            ELSE Hold(w, 0, 0, FALSE)
Gather(w, payload) ==
  /\ gathered' = [gathered EXCEPT ![InHand(w)] = payload]
  /\ Proceed(w)

TakeCheckpoint(w) ==
  /\ phase = "cells" /\ Busy(w) /\ ~worker[w].saved /\ Reuses(w)
  /\ Gather(w, checkpoint[InHand(w)].payload)
  /\ UNCHANGED <<inputs, files, parent, edits>>

(* _save_delta writes over the file of an earlier run.                       *)
SaveDelta(w) ==
  /\ phase = "cells" /\ MustSave(w)
  /\ delta' = [delta EXCEPT ![InHand(w)] = worker[w].loaded]
  /\ Hold(w, worker[w].task, worker[w].item, TRUE)
  /\ UNCHANGED <<inputs, checkpoint, tables, manifest, parent, gathered, edits>>

Computed(w) == Busy(w) /\ ~MustSave(w) /\ (worker[w].saved \/ ~Reuses(w))

(* CheckpointStore.write: a temporary file takes the place of the old one.   *)
WriteCheckpoint(w) ==
  LET payload == Payload(worker[w].loaded, DeltaOf(InHand(w), delta[InHand(w)]))
  IN  /\ phase = "cells" /\ Computed(w)
      /\ checkpoint' = [checkpoint EXCEPT ![InHand(w)] =
                          [signature |-> signature, payload |-> payload]]
      /\ Gather(w, payload)
      /\ UNCHANGED <<inputs, delta, tables, manifest, parent, edits>>

(* Every cell is back: the deltas of the manifest table are checked.         *)
CheckDeltas ==
  /\ phase = "cells" /\ nextTask > Cells /\ \A w \in Workers : ~Busy(w)
  /\ phase' = IF \A p \in Pieces : ArtifactsValid(p, gathered[p])
                THEN "tables" ELSE "failed"
  /\ UNCHANGED <<inputs, files, resume, signature, nextTask, nextTable, runs,
                 worker, gathered, edits>>

(* The last table is left out.                                               *)
Bug_WriteTable ==
  /\ phase = "tables"
  /\ tables' = [tables EXCEPT ![nextTable] = gathered]
  /\ nextTable' = nextTable + 1
  /\ phase' = IF nextTable + 1 = Tables THEN "manifest" ELSE "tables"
  /\ UNCHANGED <<inputs, delta, checkpoint, manifest, resume, signature,
                 nextTask, runs, worker, gathered, edits>>
WriteTable ==
  /\ phase = "tables"
  /\ tables' = [tables EXCEPT ![nextTable] = gathered]
  /\ nextTable' = nextTable + 1
  /\ phase' = IF nextTable = Tables THEN "manifest" ELSE "tables"
  /\ UNCHANGED <<inputs, delta, checkpoint, manifest, resume, signature,
                 nextTask, runs, worker, gathered, edits>>

WriteManifest ==
  /\ phase = "manifest"
  /\ manifest' = ManifestOf(Listed[inputs], tables)
  /\ GoIdle
  /\ UNCHANGED <<inputs, delta, checkpoint, tables, runs, edits>>

(* The machine stops.  A file that was being written over in place may be    *)
(* torn: the deltas in hand, the table or the manifest in hand.  A           *)
(* checkpoint is whole, because it is renamed into place.                    *)
Kill ==
  /\ phase # "idle"
  /\ GoIdle
  /\ \E torn \in SUBSET {InHand(w) : w \in {v \in Workers : MustSave(v)}} :
       delta' = [p \in Pieces |-> IF p \in torn THEN Torn ELSE delta[p]]
  /\ tables' \in {tables} \cup
       (IF phase = "tables" THEN {[tables EXCEPT ![nextTable] = Torn]} ELSE {})
  /\ manifest' \in {manifest} \cup (IF phase = "manifest" THEN {Torn} ELSE {})
  /\ UNCHANGED <<inputs, checkpoint, runs, edits>>

Work(w) == \/ Initialize(w) \/ TakeTask(w) \/ TakeCheckpoint(w)
           \/ SaveDelta(w) \/ WriteCheckpoint(w)
Finish == CheckDeltas \/ WriteTable \/ WriteManifest

(* Nobody starts another run.                                                *)
Stopped == phase = "idle" /\ UNCHANGED vars

Next ==
  \/ Edit
  \/ \E again \in BOOLEAN : Start(again)
  \/ \E w \in Workers : Work(w)
  \/ Finish
  \/ Kill
  \/ Stopped

Spec == Init /\ [][Next]_vars

(* The operating system runs a process that can go on; nothing says that it  *)
(* is killed, or that a person edits a file or starts a run.                 *)
FairSpec == Spec /\ WF_vars(Finish) /\ \A w \in Workers : WF_vars(Work(w))
-----------------------------------------------------------------------------
(* What a run that resumes nothing writes into every table.                  *)
FreshTable(version) ==
  [p \in Pieces |-> Payload(version, DeltaOf(p, version))]

(* consistent_cells.py:5-7: a resumed run hands on only payloads that its    *)
(* own inputs produce, whatever earlier runs, killed runs and changes of the *)
(* inputs left behind.                                                       *)
GatheredIsFresh ==
  \A p \in Pieces :
    gathered[p] # Absent => gathered[p] = FreshTable(signature)[p]

(* provenance.verify: the tables "follow from what is on disk".  All tables  *)
(* of a directory whose manifest verifies are those of one fresh run from    *)
(* listed files that agree with those on disk: none is torn, and none is     *)
(* left over from a killed run or from other files.  The code that run had   *)
(* need not be the code on disk, and a listed file that is gone need not be  *)
(* the one it had.                                                           *)
VerifiedTablesFollow ==
  Verified(manifest, Listed[inputs], tables) =>
    \E v \in Versions : /\ Agree(Listed[v], Listed[inputs])
                        /\ \A t \in 1 .. Tables : tables[t] = FreshTable(v)

(* A finished item is never computed again by a resumed run and never lost   *)
(* by a kill: what could be used again before a step still can after it, as  *)
(* long as the inputs stay and the run was started with --resume.            *)
FinishedWorkIsKept ==
  [][\A p \in Pieces :
       /\ Reusable(p, inputs) /\ inputs' = inputs
       /\ (phase = "idle" \/ resume)
       => Reusable(p, inputs)']_vars

(* A run ends (executor.map returns every cell, the tables are written and   *)
(* the manifest last, or somebody kills it): no worker waits for a task that *)
(* is never given, no cell is left out, and the final check of the deltas    *)
(* (run_consistent_visibility.py:1308), after which only a kill would end    *)
(* the run, never fails: no payload is left with a delta file that another   *)
(* run, or a torn write, has replaced.                                       *)
RunsEnd == (phase = "cells") ~> (phase = "idle")
=============================================================================
