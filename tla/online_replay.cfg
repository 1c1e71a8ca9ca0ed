SPECIFICATION OnlineFairSpec
CONSTANTS
  N = 4
  K = 2
  L = 3
  MaxArrival = 3
  Services = {1, 3}
  Scores = {0, 1, 2, 3}
  Policies <- OnlinePolicies
  Mslots = 3
  Segments <- MCSegments
  External <- MCExternal
  JobRow <- MCJobRow
  Window = 2
  OverCap = {0, 2}
  Predict <- MCPredict
  Timeouts = {1, 2}
INVARIANTS
  ListsInReadOrder
  ScoresAreOnline
  PausesOnlyForChangedState
PROPERTIES
  RefinesOnlineRule
  EveryJobStarts
