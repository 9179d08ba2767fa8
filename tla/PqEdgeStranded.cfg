SPECIFICATION Spec
CONSTANTS
    MaxU64 = 1
    MaxRetries = 3
    MaxSlow = 0
    MaxFaults = 0
    Senders = {"responder"}
    Chunks = 1
INVARIANT NoMessageStranded
CHECK_DEADLOCK FALSE
