SPECIFICATION Spec
CONSTANTS
  EndpointSize = 32
  BlockSize = 64
  Commands <- MCWellBehaved
  MaxCommands = 2
  MaxGiveUps = 0
  MaxBusResets = 0
  LengthRange = 256
  HostWaits = TRUE
INVARIANT SenseExplains
