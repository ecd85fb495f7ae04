SPECIFICATION FairSpec
CONSTANTS
  Blocks = {1, 2, 3}
  Pages = {1, 2}
  PageOf <- TwoPages
  Branches = {"b1"}
  Programs <- MCPrograms
  TLB_MISS = 1
  page_fault_latency = 2
  branch_penalty = 1
  mshr = 2
  iqueue_size = 2
  decode_width = 2
  StreamLimit = 3
  TlbWays = 1
  L1Ways = 2
INVARIANTS
  FetchTypeOK
  DecodedInOrder
  FetchedBeforeDecoded
PROPERTIES
  EveryInstructionDecoded
