SPECIFICATION LedgerSpec
CONSTANTS
  Commands = {c1, c2, c3}
  Invocations <- OneFreezeThenRuns
  Files = {f1}
  MaxKills = 1
  MaxArchived = 0
INVARIANTS
  EveryCallAddsRow
