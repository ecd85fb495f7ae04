SPECIFICATION Spec
CONSTANTS
  NumNodes = 3
  Workload <- Uneven
  Batch = 1
  MaxInsts = 2
  MaxCounter = 2
  ClockModulus = 2
INVARIANTS
  TypeOK
  IInv
  NetworkAlone
  SameCycle
  EndIsAgreed
  LeaveTogether
PROPERTIES
  SimulationEnds
