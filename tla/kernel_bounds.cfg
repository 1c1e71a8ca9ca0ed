SPECIFICATION Spec
CONSTANTS
  N = 7
  K = 2
  L = 2
  MaxArrival = 0
  Services = {1, 2}
  Scores = {0, 1}
  Policies <- PromisePolicies
  Mslots = 7
INVARIANTS
  OvertakingWorkBounded
  GuardAdditiveBound
  GuardRelativeBound
