SPECIFICATION Spec
CONSTANTS
    Messages = {"m1"}
    Chunks = 2
    Lanes = 2
    Capacity = 2
    MaxReceipts = 2
    MaxPending = 1
    MaxFaults = 1
INVARIANTS OnlyOverlapLosesCells OnlyTimeoutSealsDead
PROPERTIES LanesCloseAtBoundary JobsSettle
