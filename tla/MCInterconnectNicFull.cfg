SPECIFICATION Spec
CONSTANTS
  NumSources = 2
  NumDests = 2
  NicSize = 3
  PortSize = 2
  PacketisationTime = 1
  NicProcDelay = 1
  NicTransDelay <- CyclesPerUnit
  SwitchTransDelay <- CyclesPerUnit
  PropDelay = 1
  SwitchProcDelay = 1
  SwitchingDelay = 1
  MaxSent = 2
  SendCycles = 2
INVARIANTS
  NoPacketLeftBehind
