SPECIFICATION Spec
CONSTANTS
    MaxU64 = 1
    MaxRetries = 3
    MaxSlow = 0
    MaxFaults = 0
    Senders = {"initiator"}
    Chunks = 1
PROPERTY NeverSealedMidExchange
CHECK_DEADLOCK FALSE
