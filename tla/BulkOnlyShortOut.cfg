SPECIFICATION FairSpec
CONSTANTS
  EndpointSize = 32
  BlockSize = 64
  Commands <- MCShortOut
  MaxCommands = 1
  MaxGiveUps = 0
  MaxBusResets = 0
  LengthRange = 256
  HostWaits = TRUE
PROPERTY FailureReturned
CHECK_DEADLOCK FALSE
