--------------------------- MODULE MCSealedLedger ---------------------------
EXTENDS SealedLedger, TLC

Run(names, reads, unseal) ==
  [kind |-> "run", names |-> names, reads |-> reads, unseal |-> unseal,
   listed |-> reads, guarded |-> TRUE, again |-> FALSE]
Freeze(dryRun, yes) == [kind |-> "freeze", dryRun |-> dryRun, yes |-> yes]

\* A command on sealed terms with --unseal, which has a guard before its block only
\* (run_main.py), and one without it; a command on development terms.
OnSealed == [Run(TRUE, TRUE, TRUE) EXCEPT !.guarded = FALSE]
NotUnsealed == Run(TRUE, TRUE, FALSE)
OnDevelopment == Run(FALSE, FALSE, TRUE)
\* The fit of sealed targets, and of development targets, when it reads the sealed cache
\* besides, for one variant after the other; the scores' evaluation, which does not list
\* that reading.
FitSealed == [Run(TRUE, TRUE, TRUE) EXCEPT !.again = TRUE]
Fit == [Run(FALSE, TRUE, TRUE) EXCEPT !.again = TRUE]
Evaluation == [Run(FALSE, TRUE, TRUE) EXCEPT !.listed = FALSE]

AllInvocations ==
  {OnSealed, NotUnsealed, OnDevelopment, FitSealed, Fit, Evaluation,
   Freeze(TRUE, TRUE), Freeze(FALSE, TRUE), Freeze(FALSE, FALSE)}

OneFreezeThenRuns == {OnSealed, Freeze(FALSE, TRUE)}

Symmetry == Permutations(Commands) \cup Permutations(Files)
=============================================================================
