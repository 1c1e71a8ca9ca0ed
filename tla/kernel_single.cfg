SPECIFICATION Spec
CONSTANTS
  N = 4
  K = 1
  L = 3
  MaxArrival = 3
  Services = {1, 3}
  Scores = {0, 1}
  Policies <- SinglePolicies
  Mslots = 4
INVARIANTS
  IdentityBound
  SkipBound
