SPECIFICATION FairSpec
CONSTANTS
  N = 4
  K = 2
  L = 3
  MaxArrival = 2
  Services = {1, 3}
  Scores = {0, 1}
  Policies <- AllPolicies
  Mslots = 4
INVARIANTS
  HeadDecidesAtConstantBudget
  SweepMatchesDefinition
  FcfsMatchesRecursions
PROPERTIES
  RefinesGuardRule
  EveryJobStarts
