SPECIFICATION StructuresSpec
CONSTANTS
  Size = 4
  Values <- TreeValues
  Charges = {1, 2}
  MaxDrift = 3
  NEG <- TreeNEG
  NRanks = 7
  Works <- FenwickWorks
CHECK_DEADLOCK FALSE
INVARIANTS
  SearchFindsLeftmost
PROPERTIES
  RefinesWindowMap
  RefinesPrefixSums
  RefinesEntryQueue
