SPECIFICATION Spec
CONSTANTS
  W = 4
  Data = {d1}
  Z = Z
  X = X
  InterruptsInPulse = FALSE
INVARIANTS TypeOK AddressExact
