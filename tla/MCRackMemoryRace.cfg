SPECIFICATION Spec
CONSTANTS
  Nodes = {n1, n2}
  NumPools = 2
  LocalPages = 1
  PoolPages = 5
  ChunkPages = 2
  VPages = {1, 2, 3, 4}
INVARIANTS
  SelectedPoolExists
