SPECIFICATION Spec
CONSTANTS
  NumNodes = 3
  NumPools = 2
  LocalPages = 1
  PoolPages = 4
  ChunkPages = 2
  Traces <- MCTraces
  VPages = {1, 2, 3, 4}
  max_cycle_num = 3
  extra_cycles = 3
  freq_ratio = 3
INVARIANTS
  InStep
  PlacedInTurn
PROPERTIES
  EndsIffTogether
CHECK_DEADLOCK FALSE
