SPECIFICATION FairSpec
CONSTANTS
  NumCores = 2
  Lines = {1, 2, 3, 4}
  Pages = {1, 2}
  PageOf <- TwoPerPage
  Workloads <- MCWorkloads
  mshr = 2
  L1_HIT = 1
  L2_HIT = 1
  L3_HIT = 1
  WalkCycles = {1}
  TlbWays = 1
  L1Ways = 1
  L2Ways = 1
  L3Ways = 2
INVARIANTS
  CachesTypeOK
  RequestsKept
  WakeUpChain
PROPERTIES
  EveryMissEnds
