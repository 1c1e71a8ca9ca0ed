---------------------------- MODULE CommandProofs ----------------------------
(***************************************************************************)
(* Proofs about the two kinds of command that share files and can be       *)
(* killed: for any number of commands, of sealed files, of kills and of    *)
(* archived locks, what SealedLedger.tla says of the ledger; and for any   *)
(* number of versions, resamples, overlays, workers, runs and edits, what  *)
(* ResampledRun.tla says of the files of a bootstrap.                      *)
(***************************************************************************)
EXTENDS SealedLedger, ResampledRun, TLAPS

ShutPlaces == {"start", "block", "refused"}
BlockPlaces == {"block", "reading", "working"}
OpenPlaces == {"reading", "working"}
RowPlaces == {"record", "rewrite", "truncated"}
LockPlaces == {"lock", "lock truncated"}
Places == ShutPlaces \cup OpenPlaces \cup RowPlaces \cup LockPlaces
            \cup {"hashing", "ended", "killed"}

RowType == [by : Commands, of : Files \cup {Terms}, says : {"done", "interrupted", "hashed"}]

\* Types, and each kind of command keeps to its own part of the code.
Types ==
  /\ call \in [Commands -> Invocations]
  /\ lock \in {"absent", "partial", "frozen"} /\ ledger \in SUBSET RowType
  /\ pc \in [Commands -> Places]
  /\ todo \in [Commands -> SUBSET RowType] /\ text \in [Commands -> SUBSET RowType]
  /\ opened \in [Commands -> SUBSET (Files \cup {Terms})]
  /\ {frozen, overlapped, torn} \subseteq BOOLEAN
  /\ \A c \in Runs : pc[c] \notin LockPlaces \cup {"hashing"}
  /\ \A c \in Freezes : pc[c] \notin OpenPlaces \cup {"block"}

\* A run opens sealed terms only after a whole lock was written, and none before; one that
\* loads its data once has opened nothing before it reads.
RunsReleased ==
  /\ lock = "frozen" => frozen
  /\ \A c \in Runs :
       /\ pc[c] = "start" => opened[c] = {}
       /\ pc[c] \in ShutPlaces \cup {"reading"} /\ ~call[c].again => opened[c] = {}
       /\ pc[c] \in BlockPlaces /\ call[c].names => frozen /\ call[c].unseal
       /\ pc[c] \in OpenPlaces /\ call[c].reads => frozen /\ call[c].unseal
       /\ pc[c] = "working" /\ call[c].reads => opened[c] = {Terms}
       /\ opened[c] # {} => frozen /\ call[c].unseal /\ call[c].reads /\ opened[c] = {Terms}

\* A freeze records and locks only when it has hashed every file.
FreezesHashed ==
  \A c \in Freezes :
    /\ opened[c] \subseteq Files
    /\ pc[c] \in ShutPlaces => opened[c] = {}
    /\ pc[c] = "hashing" => ~call[c].dryRun
    /\ pc[c] \in RowPlaces \cup LockPlaces =>
         opened[c] = Files /\ call[c].yes /\ ~call[c].dryRun
    /\ pc[c] = "ended" /\ call[c].yes =>
         opened[c] = (IF call[c].dryRun THEN {} ELSE Files)

\* Every row, on its way to the ledger or in it, is true.
InHand(r) == r \in ledger \/ \E c \in Commands : r \in todo[c] \cup text[c]
TrueRow(r) ==
  /\ r.by \in Freezes \/ r.says = "done" => r.of \in opened[r.by]
  /\ r.by \in Runs =>
       call[r.by].unseal /\ (call[r.by].names \/ r.says = "done" => frozen)
RowsTrue == \A r \in RowType : InHand(r) => TrueRow(r)

\* Without an overlap one command at a time rewrites the ledger, and it writes back
\* every row it found.
OneRewrite ==
  ~overlapped =>
    /\ \A c, d \in Commands : Updating(c) /\ Updating(d) => c = d
    /\ \A c \in Commands : Updating(c) => ledger \subseteq text[c]

\* Only a command that is recording has rows to record.
RowsPending == \A c \in Commands : pc[c] \notin RowPlaces \cup {"killed"} => todo[c] = {}

\* A row that a command owes is still to be recorded, in the text it is writing back,
\* or shown: in the ledger, or in the text of a command that has truncated it.
Shown(r) == r \in ledger \/ \E d \in Commands : pc[d] = "truncated" /\ r \in text[d]
Held(c, r) == r \in todo[c] \/ Shown(r) \/ (Updating(c) /\ r \in text[c])
Owes(c) ==
  /\ pc[c] \in RowPlaces \cup LockPlaces \cup {"ended"}
  /\ (c \in Runs /\ call[c].listed) \/ (c \in Freezes /\ call[c].yes)
HasRow(c, what) == \E r \in RowType : Held(c, r) /\ r.by = c /\ r.of = what
RowsHeld ==
  ~overlapped /\ ~torn =>
    \A c \in Commands : Owes(c) => \A what \in opened[c] : HasRow(c, what)

\* The inductive invariant of the ledger.
LedgerInv ==
  /\ Types /\ RunsReleased /\ FreezesHashed
  /\ RowsTrue /\ OneRewrite /\ RowsPending /\ RowsHeld
-----------------------------------------------------------------------------
\* Rows have their type, and their fields are what they were made of.
LEMMA RowTyped ==
  ASSUME NEW c \in Commands, NEW what \in Files \cup {Terms},
         NEW says \in {"done", "interrupted", "hashed"}
  PROVE  /\ Row(c, what, says) \in RowType
         /\ Row(c, what, says).by = c /\ Row(c, what, says).of = what
         /\ Row(c, what, says).says = says
BY DEF Row, RowType

\* The rows of a run and of a freeze.
LEMMA RowsTyped ==
  ASSUME NEW c \in Commands
  PROVE  /\ \A says \in {"done", "interrupted"} : RowOfRun(c, says) \in SUBSET RowType
         /\ {Row(c, f, "hashed") : f \in Files} \in SUBSET RowType
BY RowTyped DEF RowOfRun

\* A run reads what it lists, and where no guard of its block checks a reading, the guard
\* before it has.
LEMMA ReadsWhatItLists ==
  ASSUME call \in [Commands -> Invocations], NEW c \in Runs
  PROVE  /\ call[c].listed => call[c].reads
         /\ call[c].reads /\ ~call[c].guarded => call[c].names
<1>1. call[c] \in Invocations /\ call[c].kind = "run"
  BY DEF Runs
<1>2. call[c] \in RunType
  BY <1>1, InvocationAssumption DEF RunType, FreezeType
<1> QED BY <1>1, <1>2, InvocationAssumption

-----------------------------------------------------------------------------
\* Types.
LEMMA TypesStep ==
  ASSUME Types, [LedgerNext]_ledgerVars
  PROVE  Types'
<1> USE DEF Types, Places, ShutPlaces, OpenPlaces, RowPlaces, LockPlaces, Goto, At, Over,
      Runs, Freezes, files, histories
<1>1. ASSUME NEW c \in Commands, Enter(c) PROVE Types'
  BY <1>1 DEF Enter
<1>2. ASSUME NEW c \in Commands, GuardInBlock(c) PROVE Types'
  BY <1>2 DEF GuardInBlock
<1>3. ASSUME NEW c \in Commands, OpenData(c) PROVE Types'
  BY <1>3 DEF OpenData
<1>17. ASSUME NEW c \in Commands, LoadAgain(c) PROVE Types'
  BY <1>17 DEF LoadAgain
<1>4. ASSUME NEW c \in Commands, NEW says \in {"done", "interrupted"}, LeaveBlock(c, says)
      PROVE  Types'
  <2>1. RowOfRun(c, says) \in SUBSET RowType
    BY RowsTyped
  <2> QED BY <1>4, <2>1 DEF LeaveBlock
<1>5. ASSUME NEW c \in Commands, NEW row \in todo[c], ReadLedger(c, row) PROVE Types'
  BY <1>5 DEF ReadLedger
<1>6. ASSUME NEW c \in Commands, Truncate(c) PROVE Types'
  BY <1>6 DEF Truncate
<1>7. ASSUME NEW c \in Commands, WriteBack(c) PROVE Types'
  BY <1>7 DEF WriteBack
<1>8. ASSUME NEW c \in Commands, AllRecorded(c) PROVE Types'
  BY <1>8 DEF AllRecorded, FreezeOrder
<1>9. ASSUME NEW c \in Commands, NEW gatesGreen \in BOOLEAN, StartFreeze(c, gatesGreen) PROVE Types'
  BY <1>9 DEF StartFreeze, AfterGates
<1>10. ASSUME NEW c \in Commands, NEW f \in Files, HashFile(c, f) PROVE Types'
  BY <1>10 DEF HashFile
<1>11. ASSUME NEW c \in Commands, Decide(c) PROVE Types'
  <2>1. {Row(c, f, "hashed") : f \in Files} \in SUBSET RowType
    BY RowsTyped
  <2> QED BY <1>11, <2>1, ZenonT(40) DEF Decide, FreezeOrder
<1>12. ASSUME NEW c \in Commands, TruncateLock(c) PROVE Types'
  BY <1>12 DEF TruncateLock
<1>13. ASSUME NEW c \in Commands, WriteLock(c) PROVE Types'
  BY <1>13 DEF WriteLock, FreezeOrder
<1>14. ASSUME NEW c \in Commands, KillCommand(c) PROVE Types'
  BY <1>14 DEF KillCommand
<1>15. CASE Archive
  BY <1>15 DEF Archive
<1>16. CASE UNCHANGED ledgerVars
  BY <1>16 DEF ledgerVars, files, histories
<1> QED BY <1>1, <1>2, <1>3, <1>4, <1>5, <1>6, <1>7, <1>8, <1>9, <1>10, <1>11, <1>12,
      <1>13, <1>14, <1>15, <1>16, <1>17 DEF LedgerNext, Quiet

\* Only a whole lock lets a run pass the second guard.
LEMMA ReleasedStep ==
  ASSUME Types, RunsReleased, [LedgerNext]_ledgerVars
  PROVE  RunsReleased'
<1> USE DEF Types, Places, ShutPlaces, OpenPlaces, RowPlaces, LockPlaces, Goto, At, Over,
      Runs, Freezes, files, histories, RunsReleased, BlockPlaces
<1>1. ASSUME NEW c \in Commands, Enter(c) PROVE RunsReleased'
  BY <1>1 DEF Enter, Permitted
<1>2. ASSUME NEW c \in Commands, GuardInBlock(c) PROVE RunsReleased'
  <2>1. c \in Runs
    BY <1>2 DEF GuardInBlock
  <2>2. call[c].reads /\ ~call[c].guarded => call[c].names
    BY <2>1, ReadsWhatItLists
  <2> QED BY <1>2, <2>1, <2>2 DEF GuardInBlock, Permitted
<1>3. ASSUME NEW c \in Commands, OpenData(c) PROVE RunsReleased'
  BY <1>3 DEF OpenData
<1>17. ASSUME NEW c \in Commands, LoadAgain(c) PROVE RunsReleased'
  BY <1>17 DEF LoadAgain
<1>4. ASSUME NEW c \in Commands, NEW says \in {"done", "interrupted"}, LeaveBlock(c, says)
      PROVE  RunsReleased'
  BY <1>4 DEF LeaveBlock, RowOfRun
<1>5. ASSUME NEW c \in Commands, NEW row \in todo[c], ReadLedger(c, row) PROVE RunsReleased'
  BY <1>5 DEF ReadLedger
<1>6. ASSUME NEW c \in Commands, Truncate(c) PROVE RunsReleased'
  BY <1>6 DEF Truncate
<1>7. ASSUME NEW c \in Commands, WriteBack(c) PROVE RunsReleased'
  BY <1>7 DEF WriteBack
<1>8. ASSUME NEW c \in Commands, AllRecorded(c) PROVE RunsReleased'
  BY <1>8 DEF AllRecorded, FreezeOrder
<1>9. ASSUME NEW c \in Commands, NEW gatesGreen \in BOOLEAN, StartFreeze(c, gatesGreen)
      PROVE  RunsReleased'
  BY <1>9 DEF StartFreeze, AfterGates
<1>10. ASSUME NEW c \in Commands, NEW f \in Files, HashFile(c, f) PROVE RunsReleased'
  BY <1>10 DEF HashFile
<1>11. ASSUME NEW c \in Commands, Decide(c) PROVE RunsReleased'
  BY <1>11, ZenonT(40) DEF Decide, FreezeOrder
<1>12. ASSUME NEW c \in Commands, TruncateLock(c) PROVE RunsReleased'
  BY <1>12 DEF TruncateLock
<1>13. ASSUME NEW c \in Commands, WriteLock(c) PROVE RunsReleased'
  BY <1>13 DEF WriteLock, FreezeOrder
<1>14. ASSUME NEW c \in Commands, KillCommand(c) PROVE RunsReleased'
  BY <1>14 DEF KillCommand
<1>15. CASE Archive
  BY <1>15 DEF Archive
<1>16. CASE UNCHANGED ledgerVars
  BY <1>16 DEF ledgerVars, files, histories
<1> QED BY <1>1, <1>2, <1>3, <1>4, <1>5, <1>6, <1>7, <1>8, <1>9, <1>10, <1>11, <1>12,
      <1>13, <1>14, <1>15, <1>16, <1>17 DEF LedgerNext, Quiet

\* A freeze gets to its rows with every file hashed.
LEMMA HashedStep ==
  ASSUME Types, FreezesHashed, [LedgerNext]_ledgerVars
  PROVE  FreezesHashed'
<1> USE DEF Types, Places, ShutPlaces, OpenPlaces, RowPlaces, LockPlaces, Goto, At, Over,
      Runs, Freezes, files, histories, FreezesHashed
<1>1. ASSUME NEW c \in Commands, Enter(c) PROVE FreezesHashed'
  BY <1>1 DEF Enter, Permitted
<1>2. ASSUME NEW c \in Commands, GuardInBlock(c) PROVE FreezesHashed'
  BY <1>2, ZenonT(40) DEF GuardInBlock, Permitted
<1>3. ASSUME NEW c \in Commands, OpenData(c) PROVE FreezesHashed'
  BY <1>3 DEF OpenData
<1>17. ASSUME NEW c \in Commands, LoadAgain(c) PROVE FreezesHashed'
  BY <1>17 DEF LoadAgain
<1>4. ASSUME NEW c \in Commands, NEW says \in {"done", "interrupted"}, LeaveBlock(c, says)
      PROVE  FreezesHashed'
  BY <1>4 DEF LeaveBlock, RowOfRun
<1>5. ASSUME NEW c \in Commands, NEW row \in todo[c], ReadLedger(c, row) PROVE FreezesHashed'
  BY <1>5 DEF ReadLedger
<1>6. ASSUME NEW c \in Commands, Truncate(c) PROVE FreezesHashed'
  BY <1>6 DEF Truncate
<1>7. ASSUME NEW c \in Commands, WriteBack(c) PROVE FreezesHashed'
  BY <1>7 DEF WriteBack
<1>8. ASSUME NEW c \in Commands, AllRecorded(c) PROVE FreezesHashed'
  BY <1>8 DEF AllRecorded, FreezeOrder
<1>9. ASSUME NEW c \in Commands, NEW gatesGreen \in BOOLEAN, StartFreeze(c, gatesGreen)
      PROVE  FreezesHashed'
  BY <1>9 DEF StartFreeze, AfterGates
<1>10. ASSUME NEW c \in Commands, NEW f \in Files, HashFile(c, f) PROVE FreezesHashed'
  BY <1>10 DEF HashFile
<1>11. ASSUME NEW c \in Commands, Decide(c) PROVE FreezesHashed'
  BY <1>11, ZenonT(40) DEF Decide, FreezeOrder
<1>12. ASSUME NEW c \in Commands, TruncateLock(c) PROVE FreezesHashed'
  BY <1>12 DEF TruncateLock
<1>13. ASSUME NEW c \in Commands, WriteLock(c) PROVE FreezesHashed'
  BY <1>13 DEF WriteLock, FreezeOrder
<1>14. ASSUME NEW c \in Commands, KillCommand(c) PROVE FreezesHashed'
  BY <1>14 DEF KillCommand
<1>15. CASE Archive
  BY <1>15 DEF Archive
<1>16. CASE UNCHANGED ledgerVars
  BY <1>16 DEF ledgerVars, files, histories
<1> QED BY <1>1, <1>2, <1>3, <1>4, <1>5, <1>6, <1>7, <1>8, <1>9, <1>10, <1>11, <1>12,
      <1>13, <1>14, <1>15, <1>16, <1>17 DEF LedgerNext, Quiet

\* No invocation changes, and what was read or written stays so.
LEMMA HistoriesGrow ==
  ASSUME Types, RunsReleased, [LedgerNext]_ledgerVars
  PROVE  /\ call' = call /\ (frozen => frozen')
         /\ \A c \in Commands : opened[c] \subseteq opened'[c]
<1> DEFINE Goal == /\ call' = call /\ (frozen => frozen')
                   /\ \A c \in Commands : opened[c] \subseteq opened'[c]
<1> USE DEF files, histories
<1>1. ASSUME NEW c \in Commands, OpenData(c) PROVE Goal
  <2>1. opened[c] \subseteq {Terms}
    BY <1>1 DEF OpenData, At, Types, RunsReleased, Freezes, OpenPlaces
  <2> QED BY <1>1, <2>1 DEF OpenData, Types
<1>2. ASSUME NEW c \in Commands, NEW f \in Files, HashFile(c, f) PROVE Goal
  BY <1>2 DEF HashFile, Types
<1>3. ASSUME NEW c \in Commands, WriteLock(c) PROVE Goal
  BY <1>3 DEF WriteLock
<1>4. ASSUME NEW c \in Commands, Enter(c) \/ GuardInBlock(c) \/ LoadAgain(c) \/ Truncate(c)
                                   \/ WriteBack(c) \/ AllRecorded(c)
      PROVE  Goal
  BY <1>4 DEF Enter, GuardInBlock, LoadAgain, Truncate, WriteBack, AllRecorded
<1>5. ASSUME NEW c \in Commands, TruncateLock(c) \/ KillCommand(c) PROVE Goal
  <2>1. call' = call /\ frozen' = frozen /\ opened' = opened
    BY <1>5, Zenon DEF TruncateLock, KillCommand
  <2> QED BY <2>1
<1>11. ASSUME NEW c \in Commands, Decide(c) PROVE Goal
  <2>1. call' = call /\ frozen' = frozen /\ opened' = opened
    BY <1>11, Zenon DEF Decide
  <2> QED BY <2>1
<1>6. ASSUME NEW c \in Commands, NEW says \in {"done", "interrupted"}, LeaveBlock(c, says)
      PROVE  Goal
  BY <1>6 DEF LeaveBlock
<1>7. ASSUME NEW c \in Commands, NEW row \in todo[c], ReadLedger(c, row) PROVE Goal
  BY <1>7 DEF ReadLedger
<1>8. ASSUME NEW c \in Commands, NEW gatesGreen \in BOOLEAN, StartFreeze(c, gatesGreen)
      PROVE  Goal
  BY <1>8 DEF StartFreeze
<1>9. CASE Archive
  BY <1>9 DEF Archive
<1>10. CASE UNCHANGED ledgerVars
  BY <1>10 DEF ledgerVars
<1> QED
  BY <1>1, <1>2, <1>3, <1>4, <1>5, <1>6, <1>7, <1>8, <1>9, <1>10, <1>11 DEF LedgerNext, Quiet

\* A true row stays true.
LEMMA TrueRowKept ==
  ASSUME Types, RunsReleased, [LedgerNext]_ledgerVars, NEW r \in RowType, TrueRow(r)
  PROVE  TrueRow(r)'
<1>1. r.by \in Commands
  BY DEF RowType
<1> QED BY <1>1, HistoriesGrow DEF TrueRow, Runs, Freezes

\* A row is made true.
LEMMA TrueStep ==
  ASSUME Types, RunsReleased, FreezesHashed, RowsTrue, [LedgerNext]_ledgerVars
  PROVE  RowsTrue'
<1> SUFFICES ASSUME NEW r \in RowType, InHand(r)'
             PROVE  InHand(r) \/ TrueRow(r)'
  BY TrueRowKept DEF RowsTrue
<1> DEFINE Goal == InHand(r) \/ TrueRow(r)'
<1> USE DEF files, histories
<1>1. ASSUME NEW c \in Commands, NEW says \in {"done", "interrupted"}, LeaveBlock(c, says)
      PROVE  Goal
  <2>1. CASE InHand(r)
    BY <2>1
  <2>2. CASE ~InHand(r)
    <3>1. /\ call[c].listed /\ call[c].unseal /\ pc[c] \in BlockPlaces
          /\ r = Row(c, Terms, says) /\ says \in Outcomes(c)
      BY <1>1, <2>2 DEF LeaveBlock, InHand, RowOfRun, Types, BlockPlaces
    <3>2. c \in Runs /\ call[c].reads
      BY <3>1, ReadsWhatItLists DEF Types, Freezes, BlockPlaces, OpenPlaces
    <3>3. says = "done" => frozen /\ opened[c] = {Terms}
      BY <3>1, <3>2 DEF Outcomes, RunsReleased
    <3>4. call[c].names => frozen
      BY <3>1, <3>2 DEF RunsReleased
    <3>5. r.by = c /\ r.of = Terms /\ r.says = says
      BY <3>1, RowTyped
    <3>6. frozen' = frozen /\ call' = call /\ opened' = opened
      BY <1>1 DEF LeaveBlock
    <3> QED BY <3>1, <3>2, <3>3, <3>4, <3>5, <3>6 DEF TrueRow, Runs, Freezes
  <2> QED BY <2>1, <2>2
<1>2. ASSUME NEW c \in Commands, Decide(c) PROVE Goal
  <2>1. CASE InHand(r)
    BY <2>1
  <2>2. CASE ~InHand(r)
    <3>1. PICK f \in Files : r = Row(c, f, "hashed")
      BY <1>2, <2>2 DEF Decide, InHand, Types
    <3>2. c \in Freezes /\ opened[c] = Files /\ opened' = opened /\ call' = call
      BY <1>2 DEF Decide, At, Types, Freezes
    <3>3. r.by = c /\ r.of = f
      BY <3>1, RowTyped
    <3> QED BY <3>2, <3>3 DEF TrueRow, Runs, Freezes
  <2> QED BY <2>1, <2>2
<1>3. ASSUME NEW c \in Commands, GuardInBlock(c) PROVE Goal
  BY <1>3 DEF GuardInBlock, InHand
<1>4. ASSUME NEW c \in Commands, NEW row \in todo[c], ReadLedger(c, row) PROVE Goal
  BY <1>4 DEF ReadLedger, InHand, Types
<1>5. ASSUME NEW c \in Commands, Truncate(c) \/ WriteBack(c) PROVE Goal
  BY <1>5 DEF Truncate, WriteBack, InHand
<1>6. ASSUME NEW c \in Commands, Enter(c) \/ OpenData(c) \/ LoadAgain(c) \/ AllRecorded(c)
      PROVE  Goal
  BY <1>6 DEF Enter, OpenData, LoadAgain, AllRecorded, InHand
<1>7. ASSUME NEW c \in Commands, TruncateLock(c) \/ WriteLock(c) \/ KillCommand(c) PROVE Goal
  BY <1>7 DEF TruncateLock, WriteLock, KillCommand, InHand
<1>8. ASSUME NEW c \in Commands, NEW gatesGreen \in BOOLEAN, StartFreeze(c, gatesGreen)
      PROVE  Goal
  BY <1>8 DEF StartFreeze, InHand
<1>9. ASSUME NEW c \in Commands, NEW f \in Files, HashFile(c, f) PROVE Goal
  BY <1>9 DEF HashFile, InHand
<1>10. CASE Archive
  BY <1>10 DEF Archive, InHand
<1>11. CASE UNCHANGED ledgerVars
  BY <1>11 DEF ledgerVars, InHand
<1> QED
  BY <1>1, <1>2, <1>3, <1>4, <1>5, <1>6, <1>7, <1>8, <1>9, <1>10, <1>11
  DEF LedgerNext, Quiet

\* Reading the ledger while another command rewrites it is an overlap.
LEMMA OneStep ==
  ASSUME Types, OneRewrite, [LedgerNext]_ledgerVars
  PROVE  OneRewrite'
<1> USE DEF Types, Places, ShutPlaces, OpenPlaces, RowPlaces, LockPlaces, Goto, At, Over,
      Runs, Freezes, files, histories, OneRewrite, Updating
<1>1. ASSUME NEW c \in Commands, Enter(c) PROVE OneRewrite'
  BY <1>1 DEF Enter, Permitted
<1>2. ASSUME NEW c \in Commands, GuardInBlock(c) PROVE OneRewrite'
  BY <1>2, ZenonT(40) DEF GuardInBlock, Permitted
<1>3. ASSUME NEW c \in Commands, OpenData(c) PROVE OneRewrite'
  BY <1>3 DEF OpenData
<1>17. ASSUME NEW c \in Commands, LoadAgain(c) PROVE OneRewrite'
  BY <1>17 DEF LoadAgain
<1>4. ASSUME NEW c \in Commands, NEW says \in {"done", "interrupted"}, LeaveBlock(c, says)
      PROVE  OneRewrite'
  BY <1>4 DEF LeaveBlock, RowOfRun
<1>5. ASSUME NEW c \in Commands, NEW row \in todo[c], ReadLedger(c, row) PROVE OneRewrite'
  BY <1>5 DEF ReadLedger
<1>6. ASSUME NEW c \in Commands, Truncate(c) PROVE OneRewrite'
  BY <1>6 DEF Truncate
<1>7. ASSUME NEW c \in Commands, WriteBack(c) PROVE OneRewrite'
  BY <1>7 DEF WriteBack
<1>8. ASSUME NEW c \in Commands, AllRecorded(c) PROVE OneRewrite'
  BY <1>8 DEF AllRecorded, FreezeOrder
<1>9. ASSUME NEW c \in Commands, NEW gatesGreen \in BOOLEAN, StartFreeze(c, gatesGreen)
      PROVE  OneRewrite'
  BY <1>9 DEF StartFreeze, AfterGates
<1>10. ASSUME NEW c \in Commands, NEW f \in Files, HashFile(c, f) PROVE OneRewrite'
  BY <1>10 DEF HashFile
<1>11. ASSUME NEW c \in Commands, Decide(c) PROVE OneRewrite'
  BY <1>11, ZenonT(40) DEF Decide, FreezeOrder
<1>12. ASSUME NEW c \in Commands, TruncateLock(c) PROVE OneRewrite'
  BY <1>12 DEF TruncateLock
<1>13. ASSUME NEW c \in Commands, WriteLock(c) PROVE OneRewrite'
  BY <1>13 DEF WriteLock, FreezeOrder
<1>14. ASSUME NEW c \in Commands, KillCommand(c) PROVE OneRewrite'
  BY <1>14 DEF KillCommand
<1>15. CASE Archive
  BY <1>15 DEF Archive
<1>16. CASE UNCHANGED ledgerVars
  BY <1>16 DEF ledgerVars, files, histories
<1> QED BY <1>1, <1>2, <1>3, <1>4, <1>5, <1>6, <1>7, <1>8, <1>9, <1>10, <1>11, <1>12,
      <1>13, <1>14, <1>15, <1>16, <1>17 DEF LedgerNext, Quiet

\* Only a command that is recording has rows to record.
LEMMA PendingStep ==
  ASSUME Types, RowsPending, [LedgerNext]_ledgerVars
  PROVE  RowsPending'
<1> USE DEF Types, Places, ShutPlaces, OpenPlaces, RowPlaces, LockPlaces, Goto, At, Over,
      Runs, Freezes, files, histories, RowsPending
<1>1. ASSUME NEW c \in Commands, Enter(c) PROVE RowsPending'
  BY <1>1 DEF Enter
<1>2. ASSUME NEW c \in Commands, GuardInBlock(c) PROVE RowsPending'
  BY <1>2 DEF GuardInBlock
<1>3. ASSUME NEW c \in Commands, OpenData(c) PROVE RowsPending'
  BY <1>3 DEF OpenData
<1>17. ASSUME NEW c \in Commands, LoadAgain(c) PROVE RowsPending'
  BY <1>17 DEF LoadAgain
<1>4. ASSUME NEW c \in Commands, NEW says \in {"done", "interrupted"}, LeaveBlock(c, says)
      PROVE  RowsPending'
  BY <1>4 DEF LeaveBlock
<1>5. ASSUME NEW c \in Commands, NEW row \in todo[c], ReadLedger(c, row) PROVE RowsPending'
  BY <1>5 DEF ReadLedger
<1>6. ASSUME NEW c \in Commands, Truncate(c) PROVE RowsPending'
  BY <1>6 DEF Truncate
<1>7. ASSUME NEW c \in Commands, WriteBack(c) PROVE RowsPending'
  BY <1>7 DEF WriteBack
<1>8. ASSUME NEW c \in Commands, AllRecorded(c) PROVE RowsPending'
  BY <1>8 DEF AllRecorded, FreezeOrder
<1>9. ASSUME NEW c \in Commands, NEW gatesGreen \in BOOLEAN, StartFreeze(c, gatesGreen)
      PROVE  RowsPending'
  BY <1>9 DEF StartFreeze, AfterGates
<1>10. ASSUME NEW c \in Commands, NEW f \in Files, HashFile(c, f) PROVE RowsPending'
  BY <1>10 DEF HashFile
<1>11. ASSUME NEW c \in Commands, Decide(c) PROVE RowsPending'
  BY <1>11 DEF Decide, FreezeOrder
<1>12. ASSUME NEW c \in Commands, TruncateLock(c) PROVE RowsPending'
  BY <1>12 DEF TruncateLock
<1>13. ASSUME NEW c \in Commands, WriteLock(c) PROVE RowsPending'
  BY <1>13 DEF WriteLock, FreezeOrder
<1>14. ASSUME NEW c \in Commands, KillCommand(c) PROVE RowsPending'
  BY <1>14 DEF KillCommand
<1>15. CASE Archive
  BY <1>15 DEF Archive
<1>16. CASE UNCHANGED ledgerVars
  BY <1>16 DEF ledgerVars
<1> QED BY <1>1, <1>2, <1>3, <1>4, <1>5, <1>6, <1>7, <1>8, <1>9, <1>10, <1>11, <1>12,
      <1>13, <1>14, <1>15, <1>16, <1>17 DEF LedgerNext, Quiet

\* A command that is not rewriting the ledger moves on: every row stays where it was.
LEMMA HeldKept ==
  ASSUME Types, NEW c \in Commands, NEW to \in Places \ {"rewrite", "truncated"},
         ~Updating(c), pc' = [pc EXCEPT ![c] = to], ledger' = ledger, text' = text,
         \A d \in Commands : todo[d] \subseteq todo'[d],
         NEW d \in Commands, NEW r \in RowType, Held(d, r)
  PROVE  Held(d, r)'
BY DEF Types, Held, Shown, Updating

\* What the commands owe stays owed when no row is lost and the moving command holds what
\* it owes.
LEMMA HeldStays ==
  ASSUME Types, RowsHeld, NEW c \in Commands, call' = call,
         overlapped => overlapped', torn => torn',
         \A d \in Commands \ {c} : pc'[d] = pc[d] /\ opened'[d] = opened[d],
         ~overlapped' /\ ~torn' =>
           \A d \in Commands, r \in RowType : Owes(d)' /\ Held(d, r) => Held(d, r)',
         ~overlapped' /\ ~torn' /\ Owes(c)' =>
           (Owes(c) /\ opened'[c] = opened[c]) \/ \A what \in opened'[c] : HasRow(c, what)'
  PROVE  RowsHeld'
<1> SUFFICES ASSUME ~overlapped', ~torn', NEW d \in Commands, Owes(d)', NEW what \in opened'[d]
             PROVE  HasRow(d, what)'
  BY DEF RowsHeld
<1>1. CASE Owes(d) /\ opened'[d] = opened[d]
  <2>1. HasRow(d, what)
    BY <1>1 DEF RowsHeld
  <2> QED BY <2>1 DEF HasRow
<1>2. CASE d # c
  <2>1. Owes(d)
    BY <1>2 DEF Owes, Runs, Freezes
  <2> QED BY <1>1, <1>2, <2>1
<1> QED BY <1>1, <1>2

\* What a command owes moves from its rows to its text and to the ledger.
LEMMA HeldStep ==
  ASSUME LedgerInv, [LedgerNext]_ledgerVars
  PROVE  RowsHeld'
<1> USE DEF LedgerInv, files, histories
<1>1. ASSUME NEW c \in Commands, Enter(c) PROVE RowsHeld'
  <2>1. PICK to \in {"refused", "block"} : pc' = [pc EXCEPT ![c] = to]
    BY <1>1 DEF Enter, Goto
  <2>2. ~Updating(c) /\ UNCHANGED <<call, ledger, todo, text, opened, overlapped, torn>>
    BY <1>1 DEF Enter, At, Updating
  <2>3. \A d \in Commands, r \in RowType : Held(d, r) => Held(d, r)'
    BY <2>1, <2>2, HeldKept DEF Places, ShutPlaces
  <2>4. ~Owes(c)'
    BY <2>1 DEF Owes, RowPlaces, LockPlaces, Types
  <2> QED BY <2>1, <2>2, <2>3, <2>4, HeldStays DEF Types
<1>2. ASSUME NEW c \in Commands, GuardInBlock(c) PROVE RowsHeld'
  <2>1. PICK to \in {"refused", "reading"} : pc' = [pc EXCEPT ![c] = to]
    BY <1>2 DEF GuardInBlock, Goto
  <2>2. ~Updating(c) /\ UNCHANGED <<call, ledger, todo, text, opened, overlapped, torn>>
    BY <1>2 DEF GuardInBlock, At, Updating
  <2>3. \A d \in Commands, r \in RowType : Held(d, r) => Held(d, r)'
    BY <2>1, <2>2, HeldKept DEF Places, ShutPlaces, OpenPlaces
  <2>4. ~Owes(c)'
    BY <2>1 DEF Owes, RowPlaces, LockPlaces, Types
  <2> QED BY <2>1, <2>2, <2>3, <2>4, HeldStays DEF Types
<1>3. ASSUME NEW c \in Commands, OpenData(c) PROVE RowsHeld'
  <2>1. pc' = [pc EXCEPT ![c] = "working"]
    BY <1>3 DEF OpenData, Goto
  <2>2. /\ ~Updating(c) /\ UNCHANGED <<call, ledger, todo, text, overlapped, torn>>
        /\ \A d \in Commands \ {c} : opened'[d] = opened[d]
    BY <1>3 DEF OpenData, At, Updating, Types
  <2>3. \A d \in Commands, r \in RowType : Held(d, r) => Held(d, r)'
    BY <2>1, <2>2, HeldKept DEF Places, OpenPlaces
  <2>4. ~Owes(c)'
    BY <2>1 DEF Owes, RowPlaces, LockPlaces, Types
  <2> QED BY <2>1, <2>2, <2>3, <2>4, HeldStays DEF Types
<1>16. ASSUME NEW c \in Commands, LoadAgain(c) PROVE RowsHeld'
  <2>1. pc' = [pc EXCEPT ![c] = "block"]
    BY <1>16 DEF LoadAgain, Goto
  <2>2. ~Updating(c) /\ UNCHANGED <<call, ledger, todo, text, opened, overlapped, torn>>
    BY <1>16 DEF LoadAgain, At, Updating
  <2>3. \A d \in Commands, r \in RowType : Held(d, r) => Held(d, r)'
    BY <2>1, <2>2, HeldKept DEF Places, ShutPlaces
  <2>4. ~Owes(c)'
    BY <2>1 DEF Owes, RowPlaces, LockPlaces, Types
  <2> QED BY <2>1, <2>2, <2>3, <2>4, HeldStays DEF Types
<1>4. ASSUME NEW c \in Commands, NEW says \in {"done", "interrupted"}, LeaveBlock(c, says)
      PROVE  RowsHeld'
  <2>1. pc' = [pc EXCEPT ![c] = "record"] /\ pc[c] \in BlockPlaces
    BY <1>4 DEF LeaveBlock, Goto, BlockPlaces
  <2>2. ~Updating(c) /\ UNCHANGED <<call, ledger, text, opened, overlapped, torn>>
    BY <1>4 DEF LeaveBlock, Updating
  <2>3. todo[c] = {}
    BY <2>1 DEF RowsPending, BlockPlaces, RowPlaces
  <2>4. \A d \in Commands : todo[d] \subseteq todo'[d]
    BY <1>4, <2>3 DEF LeaveBlock, Types
  <2>5. \A d \in Commands, r \in RowType : Held(d, r) => Held(d, r)'
    BY <2>1, <2>2, <2>4, HeldKept DEF Places, RowPlaces
  <2>6. c \in Runs
    BY <2>1 DEF Types, Freezes, BlockPlaces, OpenPlaces
  <2>7. Owes(c)' => \A what \in opened'[c] : HasRow(c, what)'
    <3> SUFFICES ASSUME call[c].listed, NEW what \in opened[c] PROVE HasRow(c, what)'
      BY <2>2, <2>6 DEF Owes, Runs, Freezes
    <3>1. call[c].unseal /\ what = Terms
      BY <2>6 DEF RunsReleased
    <3>2. todo'[c] = {Row(c, Terms, says)}
      BY <1>4, <3>1 DEF LeaveBlock, RowOfRun, Types
    <3> QED BY <3>1, <3>2, RowTyped DEF HasRow, Held
  <2> QED BY <2>1, <2>2, <2>5, <2>7, HeldStays DEF Types
<1>5. ASSUME NEW c \in Commands, NEW row \in todo[c], ReadLedger(c, row) PROVE RowsHeld'
  <2>1. /\ pc[c] = "record" /\ pc' = [pc EXCEPT ![c] = "rewrite"]
        /\ text' = [text EXCEPT ![c] = ledger \cup {row}]
        /\ todo' = [todo EXCEPT ![c] = todo[c] \ {row}]
        /\ UNCHANGED <<call, ledger, opened, torn>>
    BY <1>5 DEF ReadLedger, Goto, At
  <2>2. overlapped => overlapped'
    BY <1>5 DEF ReadLedger
  <2>3. ASSUME ~overlapped', NEW d \in Commands, NEW r \in RowType, Held(d, r)
        PROVE  Held(d, r)'
    <3>1. \A e \in Commands : ~Updating(e)
      BY <1>5, <2>3 DEF ReadLedger
    <3>2. r \in todo[d] \/ r \in ledger
      BY <2>3, <3>1 DEF Held, Shown, Updating
    <3> QED BY <2>1, <3>2 DEF Held, Shown, Updating, Types
  <2>4. Owes(c)' => Owes(c)
    BY <2>1 DEF Owes, Runs, Freezes, RowPlaces
  <2> QED BY <2>1, <2>2, <2>3, <2>4, HeldStays DEF Types
<1>6. ASSUME NEW c \in Commands, Truncate(c) PROVE RowsHeld'
  <2>1. /\ pc[c] = "rewrite" /\ pc' = [pc EXCEPT ![c] = "truncated"]
        /\ UNCHANGED <<call, todo, text, opened, overlapped, torn>>
    BY <1>6 DEF Truncate, Goto, At
  <2>2. ASSUME ~overlapped, NEW d \in Commands, NEW r \in RowType, Held(d, r)
        PROVE  Held(d, r)'
    <3>1. r \in ledger => r \in text[c]
      BY <2>1, <2>2 DEF OneRewrite, Updating
    <3> QED BY <2>1, <2>2, <3>1 DEF Held, Shown, Updating, Types
  <2>3. Owes(c)' => Owes(c)
    BY <2>1 DEF Owes, Runs, Freezes, RowPlaces
  <2> QED BY <2>1, <2>2, <2>3, HeldStays DEF Types
<1>7. ASSUME NEW c \in Commands, WriteBack(c) PROVE RowsHeld'
  <2>1. /\ pc[c] = "truncated" /\ pc' = [pc EXCEPT ![c] = "record"] /\ ledger' = text[c]
        /\ UNCHANGED <<call, todo, text, opened, overlapped, torn>>
    BY <1>7 DEF WriteBack, Goto, At
  <2>2. ASSUME ~overlapped, NEW d \in Commands, NEW r \in RowType, Held(d, r)
        PROVE  Held(d, r)'
    <3>1. /\ r \in ledger => r \in text[c]
          /\ \A e \in Commands : Updating(e) => e = c
      BY <2>1, <2>2 DEF OneRewrite, Updating
    <3> QED BY <2>1, <2>2, <3>1 DEF Held, Shown, Updating, Types
  <2>3. Owes(c)' => Owes(c)
    BY <2>1 DEF Owes, Runs, Freezes, RowPlaces
  <2> QED BY <2>1, <2>2, <2>3, HeldStays DEF Types
<1>8. ASSUME NEW c \in Commands, AllRecorded(c) PROVE RowsHeld'
  <2>1. PICK to \in {"lock", "ended"} : pc' = [pc EXCEPT ![c] = to]
    BY <1>8 DEF AllRecorded, FreezeOrder, Goto
  <2>2. pc[c] = "record" /\ UNCHANGED <<call, ledger, todo, text, opened, overlapped, torn>>
    BY <1>8 DEF AllRecorded, At
  <2>3. \A d \in Commands, r \in RowType : Held(d, r) => Held(d, r)'
    BY <2>1, <2>2, HeldKept DEF Places, LockPlaces, Updating
  <2>4. Owes(c)' => Owes(c)
    BY <2>2 DEF Owes, Runs, Freezes, RowPlaces
  <2> QED BY <2>1, <2>2, <2>3, <2>4, HeldStays DEF Types
<1>9. ASSUME NEW c \in Commands, NEW gatesGreen \in BOOLEAN, StartFreeze(c, gatesGreen)
      PROVE  RowsHeld'
  <2>1. PICK to \in {"ended", "hashing", "refused"} : pc' = [pc EXCEPT ![c] = to]
    BY <1>9 DEF StartFreeze, AfterGates, Goto
  <2>2. ~Updating(c) /\ UNCHANGED <<call, ledger, todo, text, opened, overlapped, torn>>
    BY <1>9 DEF StartFreeze, At, Updating
  <2>3. \A d \in Commands, r \in RowType : Held(d, r) => Held(d, r)'
    BY <2>1, <2>2, HeldKept DEF Places, ShutPlaces
  <2>4. opened'[c] = {}
    BY <1>9, <2>2 DEF StartFreeze, At, FreezesHashed, ShutPlaces
  <2> QED BY <2>1, <2>2, <2>3, <2>4, HeldStays DEF Types
<1>10. ASSUME NEW c \in Commands, NEW f \in Files, HashFile(c, f) PROVE RowsHeld'
  <2>1. /\ pc[c] = "hashing" /\ UNCHANGED <<call, pc, ledger, todo, text, overlapped, torn>>
        /\ \A d \in Commands \ {c} : opened'[d] = opened[d]
    BY <1>10 DEF HashFile, At, Types
  <2>2. \A d \in Commands, r \in RowType : Held(d, r) => Held(d, r)'
    BY <2>1 DEF Held, Shown, Updating
  <2>3. ~Owes(c)'
    BY <2>1 DEF Owes, RowPlaces, LockPlaces
  <2> QED BY <2>1, <2>2, <2>3, HeldStays
<1>11. ASSUME NEW c \in Commands, Decide(c) PROVE RowsHeld'
  <2>1. /\ pc[c] = "hashing" /\ opened[c] = Files
        /\ UNCHANGED <<call, ledger, text, opened, overlapped, torn>>
    BY <1>11, Zenon DEF Decide, At
  <2>2. c \in Freezes /\ todo[c] = {}
    BY <2>1 DEF Types, Freezes, RowsPending, RowPlaces
  <2>3. CASE call[c].yes
    <3>1. /\ pc' = [pc EXCEPT ![c] = "record"]
          /\ todo' = [todo EXCEPT ![c] = {Row(c, f, "hashed") : f \in Files}]
      BY <1>11, <2>3 DEF Decide, FreezeOrder, Goto
    <3>2. \A d \in Commands : todo[d] \subseteq todo'[d]
      BY <2>2, <3>1 DEF Types
    <3>3. \A d \in Commands, r \in RowType : Held(d, r) => Held(d, r)'
      BY <2>1, <3>1, <3>2, HeldKept DEF Places, RowPlaces, Updating
    <3>4. \A what \in opened'[c] : HasRow(c, what)'
      <4> SUFFICES ASSUME NEW what \in Files PROVE HasRow(c, what)'
        BY <2>1
      <4>1. Row(c, what, "hashed") \in todo'[c]
        BY <3>1 DEF Types
      <4> QED BY <4>1, RowTyped DEF HasRow, Held
    <3> QED BY <2>1, <3>1, <3>3, <3>4, HeldStays DEF Types
  <2>4. CASE ~call[c].yes
    <3>1. pc' = [pc EXCEPT ![c] = "ended"] /\ todo' = todo
      BY <1>11, <2>4 DEF Decide, Goto
    <3>2. \A d \in Commands, r \in RowType : Held(d, r) => Held(d, r)'
      BY <2>1, <3>1, HeldKept DEF Places, Updating
    <3>3. ~Owes(c)'
      BY <2>1, <2>2, <2>4 DEF Owes, Freezes, Runs
    <3> QED BY <2>1, <3>1, <3>2, <3>3, HeldStays DEF Types
  <2> QED BY <2>3, <2>4
<1>12. ASSUME NEW c \in Commands, TruncateLock(c) \/ WriteLock(c) PROVE RowsHeld'
  <2>1. PICK to \in {"lock truncated", "ended"} : pc' = [pc EXCEPT ![c] = to]
    BY <1>12 DEF TruncateLock, WriteLock, FreezeOrder, Goto
  <2>2. /\ pc[c] \in LockPlaces
        /\ UNCHANGED <<call, ledger, todo, text, opened, overlapped, torn>>
    BY <1>12 DEF TruncateLock, WriteLock, At, LockPlaces
  <2>3. \A d \in Commands, r \in RowType : Held(d, r) => Held(d, r)'
    BY <2>1, <2>2, HeldKept DEF Places, LockPlaces, Updating
  <2>4. Owes(c)' => Owes(c)
    BY <2>2 DEF Owes, Runs, Freezes
  <2> QED BY <2>1, <2>2, <2>3, <2>4, HeldStays DEF Types
<1>13. ASSUME NEW c \in Commands, KillCommand(c) PROVE RowsHeld'
  <2>1. /\ pc' = [pc EXCEPT ![c] = "killed"]
        /\ UNCHANGED <<call, ledger, todo, text, opened, overlapped>>
    BY <1>13, Zenon DEF KillCommand, Goto
  <2>2. (torn => torn') /\ (~torn' => pc[c] # "truncated")
    BY <1>13, Zenon DEF KillCommand, At
  <2>3. ASSUME ~torn', NEW d \in Commands, NEW r \in RowType, Held(d, r), d # c
        PROVE  Held(d, r)'
    BY <2>1, <2>2, <2>3 DEF Held, Shown, Updating, Types
  <2>4. ~Owes(c)'
    BY <2>1 DEF Owes, RowPlaces, LockPlaces, Types
  <2> QED BY <2>1, <2>2, <2>3, <2>4, HeldStays DEF Types
<1>14. CASE Archive
  BY <1>14 DEF Archive, RowsHeld, HasRow, Held, Shown, Owes, Updating, Runs, Freezes
<1>15. CASE UNCHANGED ledgerVars
  BY <1>15 DEF ledgerVars, RowsHeld, HasRow, Held, Shown, Owes, Updating, Runs, Freezes
<1> QED
  BY <1>1, <1>2, <1>3, <1>4, <1>5, <1>6, <1>7, <1>8, <1>9, <1>10, <1>11, <1>12, <1>13,
     <1>14, <1>15, <1>16
  DEF LedgerNext, Quiet
-----------------------------------------------------------------------------
\* No command has begun.
LEMMA InvInit ==
  ASSUME LedgerInit
  PROVE  LedgerInv
<1>1. \A c \in Commands : /\ pc[c] = "start" /\ todo[c] = {} /\ text[c] = {}
                          /\ opened[c] = {} /\ ~Updating(c) /\ ~Owes(c)
  BY DEF LedgerInit, Updating, Owes, RowPlaces, LockPlaces
<1>2. Types
  BY <1>1 DEF LedgerInit, Types, Places, ShutPlaces, OpenPlaces, LockPlaces, Runs, Freezes
<1>3. RunsReleased
  BY <1>1 DEF LedgerInit, RunsReleased, OpenPlaces, BlockPlaces, Runs
<1>4. FreezesHashed
  BY <1>1 DEF FreezesHashed, Freezes, RowPlaces, LockPlaces
<1>5. RowsTrue
  BY <1>1 DEF LedgerInit, RowsTrue, InHand
<1>6. OneRewrite /\ RowsPending /\ RowsHeld
  BY <1>1 DEF OneRewrite, RowsPending, RowsHeld
<1> QED BY <1>2, <1>3, <1>4, <1>5, <1>6 DEF LedgerInv

\* Every step keeps the invariant.
LEMMA InvStep ==
  ASSUME LedgerInv, [LedgerNext]_ledgerVars
  PROVE  LedgerInv'
<1>1. Types' /\ RunsReleased' /\ FreezesHashed'
  BY TypesStep, ReleasedStep, HashedStep DEF LedgerInv
<1>2. RowsTrue' /\ OneRewrite' /\ RowsPending' /\ RowsHeld'
  BY TrueStep, OneStep, PendingStep, HeldStep DEF LedgerInv
<1> QED BY <1>1, <1>2 DEF LedgerInv

\* The invariant of the commands that share the lock and the ledger.
THEOREM LedgerInvariant == LedgerSpec => []LedgerInv
<1>1. LedgerInit => LedgerInv
  BY InvInit
<1>2. LedgerInv /\ [LedgerNext]_ledgerVars => LedgerInv'
  BY InvStep
<1> QED BY <1>1, <1>2, PTL DEF LedgerSpec

\* No run reads a sealed term before some freeze has written its whole lock
\* (guard_semesters in sealed.py, main of freeze_protocol.py).
THEOREM TermsStaySealed == LedgerSpec => []NothingReadBeforeFreeze
<1>1. LedgerInv => NothingReadBeforeFreeze
  BY DEF LedgerInv, RunsReleased, NothingReadBeforeFreeze
<1> QED BY <1>1, LedgerInvariant, PTL

\* A row of a freeze names a file it hashed, and one that says what a run produced, terms
\* it read; a row of a run whose first guard was given sealed terms, and one that says what
\* was produced, stands for terms that a whole lock had released (recording and record_run
\* in sealed.py).
THEOREM LedgerTellsTruth == LedgerSpec => []RowsAreTrue
<1>1. LedgerInv => RowsAreTrue
  <2> SUFFICES ASSUME LedgerInv, NEW r \in ledger PROVE TrueRow(r)
    BY DEF RowsAreTrue, TrueRow
  <2> QED BY DEF LedgerInv, Types, RowsTrue, InHand
<1> QED BY <1>1, LedgerInvariant, PTL

\* With the ledger whole, what a command that is over owes is in the ledger.
LEMMA OwedIsShown ==
  ASSUME LedgerInv, LedgerIntact, NEW c \in Commands, Owes(c),
         pc[c] \in LockPlaces \cup {"ended"}, NEW what \in opened[c]
  PROVE  \E r \in RowsBy(c) : r.of = what
<1>1. PICK r \in RowType : Held(c, r) /\ r.by = c /\ r.of = what
  BY DEF LedgerInv, RowsHeld, LedgerIntact, HasRow
<1>2. todo[c] = {} /\ ~Updating(c)
  BY DEF LedgerInv, RowsPending, RowPlaces, LockPlaces, Updating
<1>3. r \in ledger
  BY <1>1, <1>2 DEF Held, Shown, LedgerIntact, At
<1> QED BY <1>1, <1>3 DEF RowsBy

\* Unless rewrites of the ledger collided or one was cut short, a command that is over, was
\* not killed and lists what it reads has left a row for all it opened, if it was not
\* refused on loading again (recording in sealed.py, write_ledger_rows in
\* freeze_protocol.py).
THEOREM EverythingRecorded == LedgerSpec => []RecordedWhenOver
<1>1. LedgerInv => RecordedWhenOver
  <2> SUFFICES ASSUME LedgerInv, LedgerIntact, NEW c \in Commands,
                      \/ pc[c] = "ended"
                      \/ pc[c] = "refused" /\ ~(c \in Runs /\ call[c].again),
                      (c \in Runs /\ call[c].listed) \/ (c \in Freezes /\ call[c].yes)
               PROVE  Recorded(c)
    BY DEF RecordedWhenOver, At
  <2>1. CASE pc[c] = "ended"
    BY <2>1, OwedIsShown DEF Owes, Recorded
  <2>2. CASE pc[c] = "refused"
    <3>1. opened[c] = {}
      BY <2>2 DEF LedgerInv, RunsReleased, FreezesHashed, Freezes, ShutPlaces
    <3> QED BY <3>1 DEF Recorded
  <2> QED BY <2>1, <2>2
<1> QED BY <1>1, LedgerInvariant, PTL

\* With the same exception, a lock is never in place before the ledger shows every file
\* that was hashed for it (the order of main in freeze_protocol.py).
THEOREM RowsPrecedeLock == LedgerSpec => []LockImpliesRows
<1>1. LedgerInv => LockImpliesRows
  <2> SUFFICES ASSUME LedgerInv, LedgerIntact, NEW c \in Freezes, NEW f \in Files,
                      At(c, "lock truncated")
                        \/ (At(c, "ended") /\ call[c].yes /\ ~call[c].dryRun)
               PROVE  \E r \in RowsBy(c) : r.of = f
    BY DEF LockImpliesRows
  <2>1. c \in Commands /\ pc[c] \in LockPlaces \cup {"ended"}
    BY DEF At, LockPlaces, Freezes
  <2>2. opened[c] = Files /\ call[c].yes
    BY DEF At, LedgerInv, FreezesHashed, LockPlaces
  <2> QED BY <2>1, <2>2, OwedIsShown DEF Owes
<1> QED BY <1>1, LedgerInvariant, PTL

-----------------------------------------------------------------------------
\* The files of a bootstrap that is killed and started again.

WorkerType == [task : 0 .. Nothing, overlay : 1 .. Overlays + 1, rows : Rows,
               loaded : Versions \cup {Absent}]

FileTypes ==
  /\ keepsParts \in BOOLEAN /\ inputs \in Versions /\ devCells \in Versions \cup {Absent}
  /\ part \in [Tasks -> Rows] /\ resample \in [Tasks -> Rows \cup {Absent}]
  /\ phase \in {"idle", "resamples", "manifest"} /\ nextTask \in 0 .. Nothing
  /\ worker \in [Workers -> WorkerType]
  /\ \A w \in Workers : Busy(w) => worker[w].loaded \in Versions

\* A resample has one worker, which was given it and writes a file only where none is.
OneWriter ==
  /\ phase = "idle" => nextTask = 0
  /\ \A w \in Workers : Busy(w) => /\ phase = "resamples" /\ worker[w].task < nextTask
                                   /\ worker[w].overlay > 1 =>
                                        resample[worker[w].task] = Absent
  /\ \A v, w \in Workers : Busy(v) /\ worker[v].task = worker[w].task => v = w

\* The rows were checked against the cells on disk when the tables were written, and a
\* manifest names tables that passed the check against the cells it lists.
IdentityChecked ==
  /\ phase = "manifest" => devCells # Absent /\ Reproduces(tables[0], devCells)
  /\ manifest \notin {Absent, Torn} =>
       /\ manifest.inputs[CellsFile] # Absent
       /\ Reproduces(manifest.outputs[0], manifest.inputs[CellsFile])

\* The inductive invariant of the bootstrap.
BootstrapInv == FileTypes /\ OneWriter /\ IdentityChecked
-----------------------------------------------------------------------------
\* The sizes are positive, and no file is no version.
LEMMA Sizes ==
  /\ Resamples \in Nat \ {0} /\ Overlays \in Nat \ {0} /\ Nothing = Resamples + 1
  /\ Nothing \in Nat /\ Tasks = 0 .. Resamples /\ Absent \notin Versions
BY SizesAssumption DEF SizesAssumption, Nothing, Tasks

\* Starting workers have no task.
LEMMA StartingTyped ==
  /\ Starting \in WorkerType /\ NoRows \in Rows /\ Starting.task = Nothing
  /\ Starting.overlay = 1
<1>1. NoRows \in Rows
  BY DEF NoRows, Rows
<1> QED BY <1>1, Sizes DEF Starting, WorkerType

\* What a worker has in hand is a resample, and the rows of its overlay are rows.
LEMMA InHandTyped ==
  ASSUME FileTypes, NEW w \in Workers, Busy(w)
  PROVE  /\ worker[w].task \in Tasks /\ worker[w].loaded \in Versions
         /\ worker[w].overlay \in 1 .. Overlays => RowsOfOverlay(w) \in Versions
<1>1. worker[w].task \in Tasks /\ worker[w].loaded \in Versions
  BY Sizes DEF FileTypes, WorkerType, Busy
<1>2. part[worker[w].task] \in Rows
  BY <1>1 DEF FileTypes
<1> QED BY <1>1, <1>2 DEF RowsOfOverlay, HasPart, Rows

\* The rows a worker collects are rows.
LEMMA RowAdded ==
  ASSUME NEW rows \in Rows, NEW o \in 1 .. Overlays, NEW value \in Versions
  PROVE  [rows EXCEPT ![o] = value] \in Rows
BY DEF Rows

\* What ComputeOverlay makes of its worker and of the parts.
LEMMA OverlayComputed ==
  ASSUME FileTypes, NEW w \in Workers, ComputeOverlay(w)
  PROVE  /\ worker' \in [Workers -> WorkerType] /\ part' \in [Tasks -> Rows]
         /\ worker'[w].task = worker[w].task /\ worker'[w].loaded = worker[w].loaded
         /\ worker'[w].overlay = worker[w].overlay + 1
         /\ \A v \in Workers \ {w} : worker'[v] = worker[v]
         /\ \A b \in Tasks : \A o \in 1 .. Overlays :
              part[b][o] # Absent => part'[b][o] = part[b][o]
<1> DEFINE b == worker[w].task
           o == worker[w].overlay
           value == RowsOfOverlay(w)
           record == [task |-> b, overlay |-> o + 1, loaded |-> worker[w].loaded,
                      rows |-> [worker[w].rows EXCEPT ![o] = value]]
<1>1. worker[w] \in WorkerType /\ b \in Tasks
  BY InHandTyped DEF ComputeOverlay, FileTypes
<1>2. o \in 1 .. Overlays /\ o + 1 \in 1 .. Overlays + 1
  BY <1>1, Sizes DEF ComputeOverlay, WorkerType
<1>3. value \in Versions
  BY <1>2, InHandTyped DEF ComputeOverlay
<1>4. [worker[w].rows EXCEPT ![o] = value] \in Rows
  BY <1>1, <1>2, <1>3, RowAdded DEF WorkerType
<1>5. record \in WorkerType
  BY <1>1, <1>2, <1>4 DEF WorkerType
<1>6. worker' = [worker EXCEPT ![w] = record]
  BY DEF ComputeOverlay, Extended
<1>7. ASSUME keepsParts
      PROVE  /\ part' \in [Tasks -> Rows]
             /\ \A c \in Tasks : \A p \in 1 .. Overlays :
                  part[c][p] # Absent => part'[c][p] = part[c][p]
  <2>1. part' = [part EXCEPT ![b] = [part[b] EXCEPT ![o] = value]]
    BY <1>7 DEF ComputeOverlay, SavedPart
  <2>2. part[b] \in Rows /\ [part[b] EXCEPT ![o] = value] \in Rows
    BY <1>1, <1>2, <1>3, RowAdded DEF FileTypes
  <2>3. part[b][o] # Absent => value = part[b][o]
    BY <1>7 DEF RowsOfOverlay, HasPart
  <2> HIDE DEF value, b, o
  <2>4. part' \in [Tasks -> Rows]
    BY <1>1, <2>1, <2>2 DEF FileTypes
  <2>5. \A c \in Tasks : \A p \in 1 .. Overlays :
          part[c][p] # Absent => part'[c][p] = part[c][p]
    BY <1>1, <2>1, <2>2, <2>3 DEF FileTypes, Rows
  <2> QED BY <2>4, <2>5
<1>8. ASSUME ~keepsParts PROVE part' = part /\ part \in [Tasks -> Rows]
  BY <1>8 DEF ComputeOverlay, SavedPart, FileTypes
<1> HIDE DEF record
<1>9. /\ worker' \in [Workers -> WorkerType] /\ worker'[w] = record
       /\ \A v \in Workers \ {w} : worker'[v] = worker[v]
  BY <1>5, <1>6 DEF FileTypes
<1> QED BY <1>7, <1>8, <1>9 DEF record

\* FileTypes.
LEMMA FileTypesStep ==
  ASSUME FileTypes, [Next]_vars
  PROVE  FileTypes'
<1>1. ASSUME NEW w \in Workers, ComputeOverlay(w) PROVE FileTypes'
  <2>1. Busy(w) /\ worker[w].loaded \in Versions
    BY <1>1, InHandTyped DEF ComputeOverlay
  <2>2. \A v \in Workers : Busy(v)' => worker'[v].loaded \in Versions
    BY <1>1, <2>1, OverlayComputed DEF Busy, FileTypes
  <2> QED BY <1>1, <2>2, OverlayComputed DEF FileTypes, ComputeOverlay
<1>2. ASSUME NEW w \in Workers, TakeTask(w) PROVE FileTypes'
  <2> DEFINE record == [Starting EXCEPT !.task = nextTask, !.loaded = inputs]
  <2>1. nextTask \in 0 .. Nothing /\ nextTask + 1 \in 0 .. Nothing
    BY <1>2, Sizes DEF TakeTask
  <2>2. record \in WorkerType /\ record.loaded = inputs
    BY <2>1, StartingTyped DEF FileTypes, WorkerType, Starting
  <2>3. worker' = [worker EXCEPT ![w] = record]
    BY <1>2 DEF TakeTask
  <2> HIDE DEF record
  <2>4. worker' \in [Workers -> WorkerType]
    BY <2>2, <2>3 DEF FileTypes
  <2>5. \A v \in Workers : Busy(v)' => worker'[v].loaded \in Versions
    BY <2>2, <2>3 DEF FileTypes, Busy
  <2> QED BY <1>2, <2>1, <2>4, <2>5 DEF FileTypes, TakeTask
<1>3. ASSUME NEW w \in Workers, ReuseResample(w) PROVE FileTypes'
  BY <1>3, StartingTyped DEF FileTypes, ReuseResample, Busy
<1>4. ASSUME NEW w \in Workers, WriteResample(w) PROVE FileTypes'
  <2>1. worker[w].task \in Tasks /\ worker[w].rows \in Rows
    BY <1>4, InHandTyped DEF WriteResample, FileTypes, WorkerType
  <2>2. resample' \in [Tasks -> Rows \cup {Absent}]
    BY <1>4, <2>1 DEF WriteResample, FileTypes
  <2> QED BY <1>4, <2>2, StartingTyped DEF FileTypes, WriteResample, Busy
<1>5. ASSUME GoIdle, UNCHANGED <<keepsParts, inputs, devCells, part, resample>>
      PROVE  FileTypes'
  <2>1. worker' \in [Workers -> WorkerType] /\ \A w \in Workers : ~Busy(w)'
    BY <1>5, StartingTyped DEF GoIdle, Busy
  <2> QED BY <1>5, <2>1, Sizes DEF FileTypes, GoIdle
<1>6. CASE Edit \/ ReplaceCells
  BY <1>6 DEF Edit, ReplaceCells, FileTypes, Busy
<1>7. CASE Start
  BY <1>7 DEF Start, FileTypes, Busy
<1>8. CASE Summarise /\ ~GoIdle
  BY <1>8 DEF Summarise, FileTypes, Busy
<1>9. CASE UNCHANGED vars
  BY <1>9 DEF vars, FileTypes, Busy
<1> QED BY <1>1, <1>2, <1>3, <1>4, <1>5, <1>6, <1>7, <1>8, <1>9
    DEF Next, Work, Kill, Summarise, WriteManifest, Stopped

\* Every resample keeps its one writer.
LEMMA OneWriterStep ==
  ASSUME FileTypes, OneWriter, [Next]_vars
  PROVE  OneWriter'
<1>1. ASSUME NEW w \in Workers, ComputeOverlay(w) PROVE OneWriter'
  <2>1. /\ UNCHANGED <<phase, nextTask, resample>> /\ Busy(w)
        /\ resample[worker[w].task] = Absent
    BY <1>1, Sizes DEF ComputeOverlay, OneWriter, FileTypes, WorkerType
  <2>2. \A v \in Workers : worker'[v].task = worker[v].task
    BY <1>1, OverlayComputed
  <2> QED BY <1>1, <2>1, <2>2, OverlayComputed DEF OneWriter, Busy
<1>2. ASSUME NEW w \in Workers, TakeTask(w) PROVE OneWriter'
  <2>1. /\ worker'[w].task = nextTask /\ worker'[w].overlay = 1 /\ nextTask \in 0 .. Nothing
        /\ \A v \in Workers \ {w} : worker'[v] = worker[v]
    BY <1>2, StartingTyped DEF TakeTask, FileTypes, Starting
  <2>2. /\ nextTask' = nextTask + 1 /\ phase = "resamples" /\ phase' = phase
        /\ resample' = resample
    BY <1>2 DEF TakeTask
  <2>3. \A v \in Workers : Busy(v) =>
          worker[v].task < nextTask /\ worker[v].task \in 0 .. Nothing
    BY DEF OneWriter, FileTypes, WorkerType
  <2> QED BY <2>1, <2>2, <2>3, Sizes DEF OneWriter, Busy
<1>3. ASSUME NEW w \in Workers, ReuseResample(w) PROVE OneWriter'
  BY <1>3, StartingTyped DEF OneWriter, ReuseResample, Busy, FileTypes
<1>4. ASSUME NEW w \in Workers, WriteResample(w) PROVE OneWriter'
  <2>1. /\ worker'[w] = Starting /\ \A v \in Workers \ {w} : worker'[v] = worker[v]
        /\ UNCHANGED <<phase, nextTask>> /\ Busy(w)
        /\ resample' = [resample EXCEPT ![worker[w].task] = worker[w].rows]
    BY <1>4 DEF WriteResample, FileTypes
  <2>2. ~Busy(w)'
    BY <2>1, StartingTyped DEF Busy
  <2>3. \A v \in Workers : Busy(v)' =>
          /\ Busy(v) /\ worker'[v] = worker[v]
          /\ resample'[worker[v].task] = resample[worker[v].task]
    BY <2>1, <2>2, InHandTyped DEF Busy, OneWriter, FileTypes
  <2>4. \A u, v \in Workers :
          Busy(v)' /\ worker'[v].task = worker'[u].task => Busy(u)'
    BY DEF Busy
  <2> QED BY <2>1, <2>3, <2>4 DEF OneWriter
<1>5. ASSUME GoIdle PROVE OneWriter'
  BY <1>5, StartingTyped DEF GoIdle, OneWriter, Busy
<1>6. CASE Edit \/ ReplaceCells
  BY <1>6 DEF Edit, ReplaceCells, OneWriter, Busy
<1>7. CASE Start
  BY <1>7 DEF Start, OneWriter, Busy
<1>8. CASE Summarise /\ ~GoIdle
  BY <1>8 DEF Summarise, OneWriter, Busy
<1>9. CASE UNCHANGED vars
  BY <1>9 DEF vars, OneWriter, Busy
<1> QED BY <1>1, <1>2, <1>3, <1>4, <1>5, <1>6, <1>7, <1>8, <1>9
    DEF Next, Work, Kill, Summarise, WriteManifest, Stopped

\* The tables are those that passed the check, until another run writes them.
LEMMA IdentityStep ==
  ASSUME FileTypes, OneWriter, IdentityChecked, [Next]_vars
  PROVE  IdentityChecked'
<1>1. CASE Summarise
  BY <1>1 DEF Summarise, Identity, IdentityChecked, Reproduces, GoIdle
<1>2. CASE WriteManifest
  <2>1. /\ manifest'.inputs = ListedOnDisk /\ manifest'.outputs = tables
        /\ phase = "manifest" /\ phase' = "idle"
    BY <1>2 DEF WriteManifest, ManifestOf, GoIdle
  <2>2. ListedOnDisk[CellsFile] = devCells
    BY DEF ListedOnDisk
  <2> QED BY <2>1, <2>2 DEF IdentityChecked, Reproduces
<1>3. CASE Kill
  BY <1>3 DEF Kill, IdentityChecked, Reproduces, GoIdle
<1>4. CASE Edit \/ ReplaceCells \/ Start
  BY <1>4 DEF Edit, ReplaceCells, Start, IdentityChecked, Reproduces
<1>5. ASSUME NEW w \in Workers, Work(w) PROVE IdentityChecked'
  <2>1. UNCHANGED <<phase, devCells, tables, manifest>>
    BY <1>5 DEF Work, TakeTask, ReuseResample, ComputeOverlay, WriteResample
  <2> QED BY <2>1 DEF IdentityChecked, Reproduces
<1>6. CASE UNCHANGED vars
  BY <1>6 DEF vars, IdentityChecked, Reproduces
<1> QED BY <1>1, <1>2, <1>3, <1>4, <1>5, <1>6 DEF Next, Stopped

-----------------------------------------------------------------------------
\* Nothing has run yet.
LEMMA FileInvInit ==
  ASSUME Init
  PROVE  BootstrapInv
<1>1. \A w \in Workers : worker[w] = Starting /\ ~Busy(w)
  BY StartingTyped DEF Init, Busy
<1>2. part \in [Tasks -> Rows] /\ resample \in [Tasks -> Rows \cup {Absent}]
  BY StartingTyped DEF Init
<1>3. worker \in [Workers -> WorkerType]
  BY StartingTyped DEF Init
<1>4. FileTypes
  BY <1>1, <1>2, <1>3, Sizes DEF Init, FileTypes
<1>5. OneWriter /\ IdentityChecked
  BY <1>1 DEF Init, OneWriter, IdentityChecked
<1> QED BY <1>4, <1>5 DEF BootstrapInv

\* The invariant of bootstraps that are killed and started again.
THEOREM BootstrapInvariant == Spec => []BootstrapInv
<1>1. BootstrapInv /\ [Next]_vars => BootstrapInv'
  BY FileTypesStep, OneWriterStep, IdentityStep DEF BootstrapInv
<1> QED BY <1>1, FileInvInit, PTL DEF Spec

\* In a summary whose manifest verifies, the rows of resample -1 show the p99_dl_s of the
\* development cells on disk, although files of older runs are used by name and nobody has
\* to produce the cells again (_check_identity).
THEOREM IdentityRowsHold == Spec => []CellsReproduced
<1>1. BootstrapInv => CellsReproduced
  <2> SUFFICES ASSUME BootstrapInv, Verified(manifest, ListedOnDisk, tables), devCells # Absent
               PROVE  Reproduces(tables[0], devCells)
    BY DEF CellsReproduced
  <2>1. CellsFile \in DOMAIN ListedOnDisk /\ ListedOnDisk[CellsFile] = devCells
    BY DEF ListedOnDisk
  <2>2. manifest.inputs[CellsFile] = devCells
    BY <2>1 DEF BootstrapInv, IdentityChecked, Verified, Agree
  <2> QED BY <2>2 DEF BootstrapInv, IdentityChecked, Verified, Reproduces
<1> QED BY <1>1, BootstrapInvariant, PTL

\* No step changes rows that are in a file: neither a kill, nor a worker of a later run,
\* nor another worker of the same run (_resample in both scripts).
LEMMA RowsKeptStep ==
  ASSUME BootstrapInv, [Next]_vars, NEW b \in Tasks
  PROVE  /\ resample[b] # Absent => resample'[b] = resample[b]
         /\ \A o \in 1 .. Overlays : part[b][o] # Absent => part'[b][o] = part[b][o]
<1> USE DEF BootstrapInv
<1>1. ASSUME NEW w \in Workers, WriteResample(w)
      PROVE  part' = part /\ (resample[b] # Absent => resample'[b] = resample[b])
  <2>1. Busy(w) /\ worker[w].overlay > 1
    BY <1>1, Sizes DEF WriteResample, Complete, FileTypes, WorkerType
  <2>2. resample[worker[w].task] = Absent
    BY <2>1 DEF OneWriter
  <2> QED BY <1>1, <2>2 DEF WriteResample, FileTypes
<1>2. ASSUME NEW w \in Workers, ComputeOverlay(w)
      PROVE  resample' = resample
             /\ \A o \in 1 .. Overlays : part[b][o] # Absent => part'[b][o] = part[b][o]
  BY <1>2, OverlayComputed DEF ComputeOverlay
<1>3. \/ \E w \in Workers : WriteResample(w) \/ ComputeOverlay(w)
      \/ UNCHANGED <<part, resample>>
  BY DEF Next, Work, TakeTask, ReuseResample, Edit, ReplaceCells, Start, Kill, Summarise,
         WriteManifest, Stopped, vars
<1> QED BY <1>1, <1>2, <1>3

\* Rows that were saved stay as they are.
THEOREM RowsAreKept == Spec => SavedRowsAreKept
<1> DEFINE Kept == \A b \in Tasks :
                     /\ resample[b] # Absent => resample'[b] = resample[b]
                     /\ \A o \in 1 .. Overlays :
                          part[b][o] # Absent => part'[b][o] = part[b][o]
<1>1. BootstrapInv /\ [Next]_vars => Kept
  BY RowsKeptStep
<1>2. Spec => [][Kept]_vars
  <2> HIDE DEF Kept
  <2> QED BY <1>1, BootstrapInvariant, PTL DEF Spec
<1> QED BY <1>2 DEF SavedRowsAreKept
=============================================================================
