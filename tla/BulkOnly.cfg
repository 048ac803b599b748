SPECIFICATION FairSpec
CONSTANTS
  EndpointSize = 32
  BlockSize = 64
  Commands <- MCWellBehaved
  MaxCommands = 3
  MaxGiveUps = 1
  MaxBusResets = 1
  LengthRange = 256
  HostWaits = TRUE
INVARIANTS TypeOK AnswersItsCommand ResidueExact
PROPERTIES CommandAnswered ResetCompletes ImplementsTransport
