CONSTANTS
  Absent = Absent
  Torn = Torn
  A = A
  B = B
  C = C
  D = D
  W1 = W1
  W2 = W2
  Versions = {A, B, C, D}
  Listed <- ListedFiles
  P99 <- Column
  Resamples = 2
  Overlays = 2
  Workers = {W1, W2}
  MaxRuns = 3
  MaxEdits = 2
SYMMETRY WorkerSymmetry
SPECIFICATION Spec
INVARIANTS
  CellsReproduced
PROPERTIES
  SavedRowsAreKept
