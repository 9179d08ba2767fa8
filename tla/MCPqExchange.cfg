SPECIFICATION Spec
CONSTANTS
    MaxU64 = 3
    MaxRetries = 2
    MaxFresh = 8
CONSTRAINT FreshBound
INVARIANTS RootAgreement NoFork OpenTrafficSameEpoch
CHECK_DEADLOCK FALSE
