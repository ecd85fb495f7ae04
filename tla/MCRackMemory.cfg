SPECIFICATION OrderedSpec
CONSTANTS
  Nodes = {n1, n2}
  NumPools = 2
  LocalPages = 2
  PoolPages = 5
  ChunkPages = 2
  VPages = {1, 2, 3, 4, 5, 6}
INVARIANTS
  TypeOK
  IInv
  MappedPageBacked
  NoSharedFrame
  TablesAgree
  CountersExact
PROPERTIES
  ImplementsPageFrames
  FaultServed
