SPECIFICATION Spec
CONSTANTS
    MaxU64 = 1
    MaxRetries = 3
    MaxSlow = 1
    MaxFaults = 0
    Senders = {}
    Chunks = 1
INVARIANT HonestEndsNeverFork
CHECK_DEADLOCK FALSE
