---------------------------- MODULE SealedLedger ----------------------------
(***************************************************************************)
(* The protection of the sealed terms (data/sealed.py) as the commands use *)
(* it: a run is refused unless a frozen lock exists and --unseal is given, *)
(* and records what it opened in the ledger, however it ends;              *)
(* scripts/freeze_protocol.py hashes the sealed files, records each and    *)
(* writes the lock.  Commands are processes of their own that share the    *)
(* lock file and the ledger file, without a lock on either; several ran in *)
(* parallel on the sealed terms.                                           *)
(*                                                                         *)
(* write_text truncates a file when it opens it and fills it when it       *)
(* closes it, so each rewrite is two steps, and a process may be killed    *)
(* between them.  When two rewrites of the ledger overlap, the later one   *)
(* is taken to win.  A lock that is being written does not parse.          *)
(***************************************************************************)
EXTENDS Naturals, FiniteSets

CONSTANTS
  Commands,     \* command invocations
  Invocations,  \* what an invocation may be
  Files,        \* sealed inputs the freeze hashes
  MaxKills,     \* commands that may be killed outright
  MaxArchived   \* times the lock may be put aside by hand for a new freeze

\* names: the guard before the block is given a sealed term; reads: the block opens one;
\* listed: the terms the row would name include it; guarded: the block has a guard of its
\* own before each reading (load_prepared); again: it may load the data several times.
\* With --unseal load_prepared reads the sealed cache besides a development pool: names
\* and reads differ, and only fit_scores.py lists what it reads.
RunType == [kind: {"run"}, names: BOOLEAN, reads: BOOLEAN, unseal: BOOLEAN,
            listed: BOOLEAN, guarded: BOOLEAN, again: BOOLEAN]
FreezeType == [kind: {"freeze"}, dryRun: BOOLEAN, yes: BOOLEAN]

ASSUME InvocationAssumption ==
  /\ Invocations \subseteq RunType \cup FreezeType
  /\ \A v \in Invocations \cap RunType :
       /\ v.names => v.listed
       /\ v.listed => v.reads
       /\ v.reads => v.names \/ v.guarded
ASSUME BoundAssumption == MaxKills \in Nat /\ MaxArchived \in Nat

VARIABLES
  call,     \* what each command was invoked as
  lock,     \* protocol_lock.json: "absent", "partial" or "frozen"
  ledger,   \* rows of docs/sealed_access_log.md
  pc,       \* where each command is
  todo,     \* rows the command has still to record
  text,     \* the ledger text it has read and is about to write back
  archived, \* times the lock was put aside
  opened,   \* history: what each command has read of the sealed bytes
  frozen,   \* history: a whole lock has been written
  overlapped, \* history: two commands were rewriting the ledger at once
  torn        \* history: a command was killed while the ledger was truncated

files == <<lock, ledger>>
histories == <<opened, frozen, overlapped, torn>>
ledgerVars == <<call, files, pc, todo, text, archived, histories>>

Runs == {c \in Commands : call[c].kind = "run"}
Freezes == Commands \ Runs
Terms == "sealed terms"
Row(c, what, says) == [by |-> c, of |-> what, says |-> says]
RowsBy(c) == {r \in ledger : r.by = c}
Recorded(c) == \A what \in opened[c] : \E r \in RowsBy(c) : r.of = what

Goto(c, where) == pc' = [pc EXCEPT ![c] = where]
At(c, where) == pc[c] = where
Over(c) == pc[c] \in {"ended", "refused", "killed"}
Updating(c) == pc[c] \in {"rewrite", "truncated"}

\* decide: the lock parses and is frozen, and the caller passed --unseal.
\* NothingReadBeforeFreeze: the lock's existence is enough.
Bug_Permitted(c) == lock # "absent" /\ call[c].unseal
Permitted(c) == lock = "frozen" /\ call[c].unseal

---------------------------------------------------------------------------
\* guard_semesters in main(), before the recorded block: a refusal ends the command.
Enter(c) ==
  /\ c \in Runs /\ At(c, "start")
  /\ Goto(c, IF call[c].names /\ ~Permitted(c) THEN "refused" ELSE "block")
  /\ UNCHANGED <<call, files, todo, text, archived, histories>>

\* guard_semesters once more inside the block (load_prepared, build_events).  recording
\* leaves no row for the SealedDataError, also when the block has read before.
GuardInBlock(c) ==
  /\ At(c, "block")
  /\ Goto(c, IF call[c].guarded /\ call[c].reads /\ ~Permitted(c)
               THEN "refused" ELSE "reading")
  /\ UNCHANGED <<call, files, todo, text, archived, histories>>

OpenData(c) ==
  /\ At(c, "reading")
  /\ opened' = IF call[c].reads THEN [opened EXCEPT ![c] = {Terms}] ELSE opened
  /\ Goto(c, "working")
  /\ UNCHANGED <<call, files, todo, text, archived, frozen, overlapped, torn>>

\* fit_scores.run_once: the next visibility variant, and with --repeat all of them a
\* second time.
LoadAgain(c) ==
  /\ At(c, "working") /\ call[c].again
  /\ Goto(c, "block")
  /\ UNCHANGED <<call, files, todo, text, archived, histories>>

\* RowsAreTrue: the outcome starts as what the run is meant to produce.
Bug_Outcomes(c) == {"done", "interrupted"}
\* RunOutcome: interrupted until something was produced, which reads first; done stays
\* when a later load fails.
Outcomes(c) ==
  {"interrupted"} \cup (IF call[c].reads => opened[c] # {} THEN {"done"} ELSE {})

\* RecordedWhenOver: the row is written after the work, so an error loses it.
Bug_RowOfRun(c, says) == IF says = "done" THEN {Row(c, Terms, says)} ELSE {}
\* record_run: a row for what the run produced or where it was interrupted.
RowOfRun(c, says) == {Row(c, Terms, says)}

\* recording's finally: the work is done, or an exception ends it, before the guard and
\* the first reading too.
LeaveBlock(c, says) ==
  /\ pc[c] \in {"block", "reading", "working"} /\ says \in Outcomes(c)
  /\ todo' = [todo EXCEPT ![c] =
                IF call[c].listed /\ call[c].unseal THEN RowOfRun(c, says) ELSE {}]
  /\ Goto(c, "record")
  /\ UNCHANGED <<call, files, text, archived, histories>>

---------------------------------------------------------------------------
\* record_access, one row: the whole text is read, the file truncated, and the text
\* written back with the row in it.
ReadLedger(c, row) ==
  /\ At(c, "record") /\ row \in todo[c]
  /\ text' = [text EXCEPT ![c] = ledger \cup {row}]
  /\ todo' = [todo EXCEPT ![c] = @ \ {row}]
  /\ overlapped' = (overlapped \/ \E d \in Commands : Updating(d))
  /\ Goto(c, "rewrite")
  /\ UNCHANGED <<call, files, archived, opened, frozen, torn>>

Truncate(c) ==
  /\ At(c, "rewrite")
  /\ ledger' = {}
  /\ Goto(c, "truncated")
  /\ UNCHANGED <<call, lock, todo, text, archived, histories>>

WriteBack(c) ==
  /\ At(c, "truncated")
  /\ ledger' = text[c]
  /\ Goto(c, "record")
  /\ UNCHANGED <<call, lock, todo, text, archived, histories>>

\* LockImpliesRows: the lock is written before the rows.
Bug_FreezeOrder == [after_hashing |-> "lock", after_rows |-> "ended", after_lock |-> "record"]
\* main of freeze_protocol.py: rows, then the lock.
FreezeOrder == [after_hashing |-> "record", after_rows |-> "lock", after_lock |-> "ended"]

AllRecorded(c) ==
  /\ At(c, "record") /\ todo[c] = {}
  /\ Goto(c, IF c \in Freezes THEN FreezeOrder.after_rows ELSE "ended")
  /\ UNCHANGED <<call, files, todo, text, archived, histories>>

---------------------------------------------------------------------------
\* A dry run lists the sealed files and ends.
AfterGates(c) == IF call[c].dryRun THEN "ended" ELSE "hashing"

\* freeze_protocol.main: refused when a lock exists, a gate fails or the tree is dirty.
StartFreeze(c, gatesGreen) ==
  /\ c \in Freezes /\ At(c, "start")
  /\ Goto(c, IF lock = "absent" /\ gatesGreen THEN AfterGates(c) ELSE "refused")
  /\ UNCHANGED <<call, files, todo, text, archived, histories>>

\* hash_sealed_inputs, one file.
HashFile(c, f) ==
  /\ At(c, "hashing") /\ f \notin opened[c]
  /\ opened' = [opened EXCEPT ![c] = @ \cup {f}]
  /\ UNCHANGED <<call, files, pc, todo, text, archived, frozen, overlapped, torn>>

\* Without --yes the command ends here; write_ledger_rows otherwise.
Decide(c) ==
  /\ At(c, "hashing") /\ opened[c] = Files
  /\ IF call[c].yes
       THEN /\ todo' = [todo EXCEPT ![c] = {Row(c, f, "hashed") : f \in Files}]
            /\ Goto(c, FreezeOrder.after_hashing)
       ELSE Goto(c, "ended") /\ UNCHANGED todo
  /\ UNCHANGED <<call, files, text, archived, histories>>

TruncateLock(c) ==
  /\ At(c, "lock")
  /\ lock' = "partial"
  /\ Goto(c, "lock truncated")
  /\ UNCHANGED <<call, ledger, todo, text, archived, histories>>

WriteLock(c) ==
  /\ At(c, "lock truncated")
  /\ lock' = "frozen" /\ frozen' = TRUE
  /\ Goto(c, FreezeOrder.after_lock)
  /\ UNCHANGED <<call, ledger, todo, text, archived, opened, overlapped, torn>>

---------------------------------------------------------------------------
\* Out of memory, or the machine goes down.
KillCommand(c) ==
  /\ ~Over(c)
  /\ Cardinality({d \in Commands : At(d, "killed")}) < MaxKills
  /\ torn' = (torn \/ At(c, "truncated"))
  /\ Goto(c, "killed")
  /\ UNCHANGED <<call, files, todo, text, archived, opened, frozen, overlapped>>

\* A person moves the lock to docs/archive to freeze a corrected method, while no freeze
\* is running.
Archive ==
  /\ lock # "absent" /\ archived < MaxArchived
  /\ \A c \in Freezes : Over(c) \/ At(c, "start")
  /\ lock' = "absent" /\ archived' = archived + 1
  /\ UNCHANGED <<call, ledger, pc, todo, text, histories>>

Quiet == (\A c \in Commands : Over(c)) /\ UNCHANGED ledgerVars

LedgerInit ==
  /\ call \in [Commands -> Invocations]
  /\ lock = "absent" /\ ledger = {}
  /\ pc = [c \in Commands |-> "start"]
  /\ todo = [c \in Commands |-> {}]
  /\ text = [c \in Commands |-> {}]
  /\ archived = 0
  /\ opened = [c \in Commands |-> {}]
  /\ frozen = FALSE /\ overlapped = FALSE /\ torn = FALSE

LedgerNext ==
  \/ \E c \in Commands :
       \/ Enter(c) \/ GuardInBlock(c) \/ OpenData(c) \/ LoadAgain(c)
       \/ \E says \in {"done", "interrupted"} : LeaveBlock(c, says)
       \/ \E row \in todo[c] : ReadLedger(c, row)
       \/ Truncate(c) \/ WriteBack(c) \/ AllRecorded(c)
       \/ \E gatesGreen \in BOOLEAN : StartFreeze(c, gatesGreen)
       \/ \E f \in Files : HashFile(c, f)
       \/ Decide(c) \/ TruncateLock(c) \/ WriteLock(c)
       \/ KillCommand(c)
  \/ Archive
  \/ Quiet

LedgerSpec == LedgerInit /\ [][LedgerNext]_ledgerVars

---------------------------------------------------------------------------
\* No run reads a sealed term before some freeze has written its whole lock: neither a
\* refused freeze, nor one that was killed halfway, releases the data.
NothingReadBeforeFreeze == (\E c \in Runs : opened[c] # {}) => frozen

\* No rewrite of the ledger has gone wrong, and none is halfway.
LedgerIntact == ~overlapped /\ ~torn /\ ~(\E c \in Commands : At(c, "truncated"))

\* recording's promise, as far as the code keeps it: unless rewrites of the ledger
\* collided, a command that was not killed has left a row for all it opened, however it
\* ended.  Two kinds of runs it leaves out: one that does not list what it reads, and one
\* refused when it loads again, after it has read.
RecordedWhenOver ==
  LedgerIntact =>
    \A c \in Commands :
      /\ At(c, "ended") \/ (At(c, "refused") /\ ~(c \in Runs /\ call[c].again))
      /\ (c \in Runs /\ call[c].listed) \/ (c \in Freezes /\ call[c].yes)
      => Recorded(c)

\* A row of a freeze names a file it hashed, and a row that says what a run produced, terms
\* it has read.  One that says interrupted may be of a run that never got to its guard;
\* but where the guard before the block had the terms to check, it too stands for terms
\* that a whole lock had released.
RowsAreTrue ==
  \A r \in ledger :
    /\ (r.by \in Freezes \/ r.says = "done") => r.of \in opened[r.by]
    /\ r.by \in Runs =>
         call[r.by].unseal /\ (call[r.by].names \/ r.says = "done" => frozen)

\* A lock is never in place before the ledger shows every file that was hashed for it.
LockImpliesRows ==
  LedgerIntact =>
    \A c \in Freezes :
      At(c, "lock truncated") \/ (At(c, "ended") /\ call[c].yes /\ ~call[c].dryRun) =>
        \A f \in Files : \E r \in RowsBy(c) : r.of = f

---------------------------------------------------------------------------
\* record_access's docstring, "Every call adds a row; none rewrites one", taken of
\* commands that run side by side.
EveryCallAddsRow ==
  (\A c \in Commands : Over(c)) => \A c \in Runs : At(c, "ended") => Recorded(c)
=============================================================================
