SPECIFICATION Spec
CONSTANTS
  W = 2
  Data = {d1, d2}
  Z = Z
  X = X
  InterruptsInPulse = FALSE
INVARIANTS TypeOK ByteIsKept ReadReturnsWritten AddressReached NoContention
