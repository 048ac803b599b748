SPECIFICATION FairSpec
CONSTANT Ns <- MCNs
INVARIANTS TypeOK NeverLate
PROPERTIES NeverEarly KeepsRunning
