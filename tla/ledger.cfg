SPECIFICATION LedgerSpec
CONSTANTS
  Commands = {c1, c2, c3}
  Invocations <- AllInvocations
  Files = {f1, f2}
  MaxKills = 1
  MaxArchived = 1
SYMMETRY Symmetry
INVARIANTS
  NothingReadBeforeFreeze
  RecordedWhenOver
  RowsAreTrue
  LockImpliesRows
