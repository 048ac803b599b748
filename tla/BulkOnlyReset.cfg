SPECIFICATION Spec
CONSTANTS
  EndpointSize = 32
  BlockSize = 64
  Commands <- MCWellBehaved
  MaxCommands = 2
  MaxGiveUps = 1
  MaxBusResets = 0
  LengthRange = 256
  HostWaits = FALSE
INVARIANT AnswersItsCommand
