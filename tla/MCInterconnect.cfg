SPECIFICATION Spec
CONSTANTS
  NumSources = 2
  NumDests = 2
  NicSize = 4
  PortSize = 2
  PacketisationTime = 1
  NicProcDelay = 1
  NicTransDelay <- CyclesPerUnit
  SwitchTransDelay <- CyclesPerUnit
  PropDelay = 1
  SwitchProcDelay = 1
  SwitchingDelay = 1
  MaxSent = 4
  SendCycles = 2
INVARIANTS
  TypeOK
  NoPacketLeftBehind
  QueuesInOrder
PROPERTIES
  SwitchMatching
  ImplementsChannels
  PacketsArrive
