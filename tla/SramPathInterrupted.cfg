\* The same program with the serial interrupts enabled, as main leaves them.
SPECIFICATION Spec
CONSTANTS
  W = 2
  Data = {d1}
  Z = Z
  X = X
  InterruptsInPulse = TRUE
INVARIANT AddressReached
