SPECIFICATION FairSpec
CONSTANTS
  Configs <- MCConfigs
  WorkerIds = {1, 2}
  NoJob = NoJob
INVARIANTS
  AuditPasses
  OvertakingCapped
  WaitBoundedDespiteStalls
PROPERTIES
  RunEnds
