SPECIFICATION PassesSpec
CONSTANTS
  N = 5
  K = 1
  L = 2
  MaxArrival = 2
  Services = {1, 2}
  Scores = {0, 1, 2, 3, 4, 5, 6}
  Policies <- IteratedPolicies
  Mslots = 3
  Segments <- MCSegments
  External <- MCExternal
  JobRow <- MCJobRow
  Window = 2
  OverCap = {0}
  Predict <- MCPredict
  PassBudgets = {3, 7}
INVARIANTS
  SettledJobsConsistent
  OnlineAtFixedPoint
  ChecksAgree
  ReadsOnlyCompleted
PROPERTIES
  IterationsEnd
