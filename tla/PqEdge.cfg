SPECIFICATION Spec
CONSTANTS
    MaxU64 = 2
    MaxRetries = 2
    MaxSlow = 1
    MaxFaults = 1
    Senders = {"responder"}
    Chunks = 2
INVARIANT OnlyMishapsFork
PROPERTIES ImplementsExchange ExchangeSettles MessageEnds
CHECK_DEADLOCK FALSE
