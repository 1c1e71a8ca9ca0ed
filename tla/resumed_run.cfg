CONSTANTS
  Absent = Absent
  Torn = Torn
  A = A
  B = B
  C = C
  D = D
  W1 = W1
  W2 = W2
  Versions = {A, B, C, D}
  Listed <- ListedFiles
  Cells = 2
  Items = 2
  WithDelta = {2}
  Workers = {W1, W2}
  Tables = 2
  MaxRuns = 3
  MaxEdits = 2
SPECIFICATION FairSpec
INVARIANTS
  GatheredIsFresh
  VerifiedTablesFollow
PROPERTIES
  FinishedWorkIsKept
  RunsEnd
