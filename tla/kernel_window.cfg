SPECIFICATION Spec
CONSTANTS
  N = 5
  K = 2
  L = 3
  MaxArrival = 2
  Services = {1, 3}
  Scores = {0, 1}
  Policies <- SlidingPolicies
  Mslots = 3
INVARIANTS
  OverflowOnlyWhenSpanTooWide
  KernelInv
