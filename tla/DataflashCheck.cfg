SPECIFICATION Spec
CONSTANTS
  Pages = 4
  BlocksPerPage = 2
  ChunksPerBlock = 2
  ChunksPerPacket = 1
  WordSize = 8
  Data = {d1}
  X = X
  Lost = Lost
  Offsets = {0, 3}
  Functions = {"write", "read", "read_ram", "check"}
  MaxBlocks = 4
  MaxShort = 4
  MaxRam = 4
  MaxPast = 4
  Interrupted = FALSE
INVARIANT CheckIsTruthful
