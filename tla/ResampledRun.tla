---------------------------- MODULE ResampledRun ----------------------------
(* The class-term bootstrap as a run that may be killed and started again    *)
(* (scripts/run_online_cluster_bootstrap.py and run_cluster_bootstrap.py).   *)
(* A worker takes a resample and computes its rows overlay by overlay.  A    *)
(* resample's rows are one file under a name that holds its number; the      *)
(* online script also keeps a file for every overlay of a resample.  A file  *)
(* that is there is used, and every file is renamed into place.              *)
(*                                                                           *)
(* As in ResumedRun, rows are the version of the inputs they come from, code *)
(* included.  The development cells are the output of another script; they   *)
(* too are the version they were computed from, and nothing makes anyone     *)
(* produce them again when the inputs change.                                *)
(* Bug_X is a mutated form of the definition X that follows it.              *)
EXTENDS Manifest, Naturals, FiniteSets

CONSTANTS
  Versions,   \* versions of the inputs
  Listed,     \* Listed[v]: the contents of the files a manifest lists, by name
  P99,        \* P99[v]: the column p99_dl_s of rows of this version
  Resamples,  \* resamples 0 .. Resamples; 0 stands for the code's -1
  Overlays,   \* overlays 1 .. Overlays
  Workers,
  MaxRuns, MaxEdits

ASSUME SizesAssumption ==
  /\ {Resamples, Overlays, MaxRuns} \subseteq Nat \ {0} /\ MaxEdits \in Nat
  /\ {Absent, Torn} \cap Versions = {}

VARIABLES
  keepsParts, \* the online script: a file of its own for every overlay
  inputs,     \* the version on disk
  devCells,   \* the development cells that resample -1 must reproduce, or Absent
  part,       \* resamples/b<b>_o<o>.json
  resample,   \* resamples/b<b>.json: rows by overlay
  phase,      \* "idle" | "resamples" | "tables" | "manifest"
  nextTask,   \* the first task executor.map has not handed out
  worker,     \* the resample, the overlay in it, the rows so far, the inputs
  tables,     \* the written summary: rows by resample and overlay
  manifest,
  runs, edits

vars == <<keepsParts, inputs, devCells, part, resample, phase, nextTask, worker, tables,
          manifest, runs, edits>>

Tasks == 0 .. Resamples
Rows == [1 .. Overlays -> Versions \cup {Absent}]
NoRows == [o \in 1 .. Overlays |-> Absent]
Nothing == Resamples + 1
Starting == [task |-> Nothing, overlay |-> 1, rows |-> NoRows, loaded |-> Absent]
Busy(w) == worker[w].task # Nothing

Init ==
  /\ keepsParts \in BOOLEAN
  /\ inputs \in Versions /\ devCells = Absent
  /\ part = [b \in Tasks |-> NoRows]
  /\ resample = [b \in Tasks |-> Absent]
  /\ phase = "idle" /\ nextTask = 0
  /\ worker = [w \in Workers |-> Starting]
  /\ tables = Absent /\ manifest = Absent
  /\ runs = 0 /\ edits = 0

GoIdle ==
  /\ phase' = "idle" /\ nextTask' = 0
  /\ worker' = [w \in Workers |-> Starting]

-----------------------------------------------------------------------------
(* The inputs change between runs.                                           *)
Edit ==
  /\ phase = "idle" /\ edits < MaxEdits
  /\ edits' = edits + 1
  /\ inputs' \in Versions \ {inputs}
  /\ UNCHANGED <<keepsParts, devCells, part, resample, phase, nextTask, worker, tables,
                 manifest, runs>>

(* The other script produces the cells from the inputs on disk; or they are  *)
(* taken away.                                                               *)
ReplaceCells ==
  /\ phase = "idle"
  /\ devCells' \in {Absent} \cup (IF Present(Listed[inputs]) THEN {inputs} ELSE {})
  /\ UNCHANGED <<keepsParts, inputs, part, resample, phase, nextTask, worker, tables,
                 manifest, runs, edits>>

Start ==
  /\ phase = "idle" /\ runs < MaxRuns /\ Present(Listed[inputs])
  /\ runs' = runs + 1 /\ phase' = "resamples"
  /\ UNCHANGED <<keepsParts, inputs, devCells, part, resample, nextTask, worker, tables,
                 manifest, edits>>

(* A worker loads the inputs once (_initialize), then takes resamples.       *)
TakeTask(w) ==
  /\ phase = "resamples" /\ ~Busy(w) /\ nextTask \in Tasks
  /\ worker' = [worker EXCEPT ![w] =
                  [Starting EXCEPT !.task = nextTask, !.loaded = inputs]]
  /\ nextTask' = nextTask + 1
  /\ UNCHANGED <<keepsParts, inputs, devCells, part, resample, phase, tables, manifest,
                 runs, edits>>

(* The resample's file is there: it is taken as it is.                       *)
ReuseResample(w) ==
  /\ Busy(w) /\ worker[w].overlay = 1 /\ resample[worker[w].task] # Absent
  /\ worker' = [worker EXCEPT ![w] = Starting]
  /\ UNCHANGED <<keepsParts, inputs, devCells, part, resample, phase, nextTask, tables,
                 manifest, runs, edits>>

(* The next overlay: its part is computed unless its file is there, then the *)
(* file is read back.  Without parts the rows are always computed.           *)
HasPart(b, o) == keepsParts /\ part[b][o] # Absent
RowsOfOverlay(w) ==
  LET b == worker[w].task  o == worker[w].overlay
  IN  IF HasPart(b, o) THEN part[b][o] ELSE worker[w].loaded
Bug_SavedPart(w) ==
  [part EXCEPT ![worker[w].task][worker[w].overlay] = worker[w].loaded]
SavedPart(w) ==
  IF keepsParts
    THEN [part EXCEPT ![worker[w].task][worker[w].overlay] = RowsOfOverlay(w)]
    ELSE part
(* The worker goes on to the next overlay with one more group of rows.       *)
Extended(w) ==
  [task |-> worker[w].task, overlay |-> worker[w].overlay + 1,
   rows |-> [worker[w].rows EXCEPT ![worker[w].overlay] = RowsOfOverlay(w)],
   loaded |-> worker[w].loaded]
ComputeOverlay(w) ==
  /\ Busy(w) /\ worker[w].overlay <= Overlays
  /\ worker[w].overlay = 1 => resample[worker[w].task] = Absent
  /\ part' = SavedPart(w)
  /\ worker' = [worker EXCEPT ![w] = Extended(w)]
  /\ UNCHANGED <<keepsParts, inputs, devCells, resample, phase, nextTask, tables, manifest,
                 runs, edits>>

(* The file of a resample is written when its last overlay is there.         *)
Complete(w) == worker[w].overlay > Overlays
WriteResample(w) ==
  /\ Busy(w) /\ Complete(w)
  /\ resample' = [resample EXCEPT ![worker[w].task] = worker[w].rows]
  /\ worker' = [worker EXCEPT ![w] = Starting]
  /\ UNCHANGED <<keepsParts, inputs, devCells, part, phase, nextTask, tables, manifest,
                 runs, edits>>

(* These rows show the p99_dl_s of these cells, the one column compared.     *)
Reproduces(rows, cells) == \A o \in 1 .. Overlays : P99[rows[o]] = P99[cells]

(* The cells are not looked at.                                              *)
Bug_Identity == TRUE
(* _check_identity: a difference, or no file of cells, ends the run with an  *)
(* error.                                                                    *)
Identity == devCells # Absent /\ Reproduces(resample[0], devCells)

(* The tables are written; in run_cluster_bootstrap.py, which keeps no parts, *)
(* _beside_weeks may still fail after the first of them.                     *)
Summarise ==
  /\ phase = "resamples" /\ nextTask = Nothing /\ \A w \in Workers : ~Busy(w)
  /\ \/ /\ Identity
        /\ tables' = resample /\ phase' = "manifest" /\ UNCHANGED <<nextTask, worker>>
     \/ /\ Identity /\ ~keepsParts
        /\ tables' = IF tables = resample THEN resample ELSE Torn
        /\ GoIdle
     \/ ~Identity /\ GoIdle /\ UNCHANGED tables
  /\ UNCHANGED <<keepsParts, inputs, devCells, part, resample, manifest, runs, edits>>

(* What the manifest lists: files of the inputs, and the development cells.  *)
CellsFile == "dev_cells"
ListedOnDisk ==
  [f \in DOMAIN Listed[inputs] \cup {CellsFile} |->
     IF f = CellsFile THEN devCells ELSE Listed[inputs][f]]
WriteManifest ==
  /\ phase = "manifest"
  /\ manifest' = ManifestOf(ListedOnDisk, tables)
  /\ GoIdle
  /\ UNCHANGED <<keepsParts, inputs, devCells, part, resample, tables, runs, edits>>

(* A file renamed into place is never torn; the tables and the manifest can  *)
(* be.                                                                       *)
Kill ==
  /\ phase # "idle" /\ GoIdle
  /\ tables' \in {tables} \cup (IF phase = "resamples" /\ nextTask = Nothing
                                  THEN {Torn} ELSE {})
  /\ manifest' \in {manifest} \cup (IF phase = "manifest" THEN {Torn} ELSE {})
  /\ UNCHANGED <<keepsParts, inputs, devCells, part, resample, runs, edits>>

Work(w) == TakeTask(w) \/ ReuseResample(w) \/ ComputeOverlay(w) \/ WriteResample(w)
(* Nobody starts another run.                                                *)
Stopped == phase = "idle" /\ UNCHANGED vars

Next ==
  \/ Edit \/ ReplaceCells \/ Start \/ Kill \/ Summarise \/ WriteManifest \/ Stopped
  \/ \E w \in Workers : Work(w)

Spec == Init /\ [][Next]_vars

-----------------------------------------------------------------------------
(* run_online_cluster_bootstrap.py:20 "an interrupted run continues where it *)
(* stopped": rows that were saved are never computed again, whoever saved    *)
(* them, and no kill loses them.                                             *)
SavedRowsAreKept ==
  [][\A b \in Tasks :
       /\ resample[b] # Absent => resample'[b] = resample[b]
       /\ \A o \in 1 .. Overlays :
            part[b][o] # Absent => part'[b][o] = part[b][o]]_vars

(* What the check of resample -1 comes to: where the manifest verifies and   *)
(* the development cells are there, the rows of resample -1 in the tables    *)
(* show the p99_dl_s of the cells on disk, whatever files of older runs were *)
(* used, however often the cells were replaced and wherever runs were        *)
(* killed.  It does not come to more: rows and cells may both be of older    *)
(* inputs than those on disk.                                                *)
CellsReproduced ==
  Verified(manifest, ListedOnDisk, tables) /\ devCells # Absent =>
    Reproduces(tables[0], devCells)
=============================================================================
