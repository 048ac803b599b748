SPECIFICATION FairSpec
CONSTANTS
  Requests = {"GetDescriptor", "GetMaxLUN", "SetAddress", "Configure", "Halt", "unknown"}
  MaxRequests = 3
  MaxEvents = 2
INVARIANTS TypeOK ConfiguredMeansEndpoints SelectionKept AddressHeld
PROPERTIES RequestAnswered WakesUp HandlerReturns
CHECK_DEADLOCK FALSE
