SPECIFICATION FairSpec
CONSTANTS
  Pages = 4
  BlocksPerPage = 2
  ChunksPerBlock = 2
  ChunksPerPacket = 2
  WordSize = 6
  Data = {d1}
  X = X
  Lost = Lost
  Offsets = {0, 3}
  Functions = {"write", "read", "write_ram", "read_ram", "check"}
  MaxBlocks = 4
  MaxShort = 2
  MaxRam = 2
  MaxPast = 1
  Interrupted = TRUE
INVARIANTS TypeOK DataKept ReadReturnsWritten ChipsRespected PacketsExact PointersAgree
PROPERTY CallReturns
