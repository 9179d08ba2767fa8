SPECIFICATION Spec
CONSTANTS
    MaxPending = 1
    MaxRestarts = 2
    MaxFaults = 1
INVARIANTS OnlyOvertakingDisagrees CandidatesArrive
PROPERTY NegotiationSettles
CHECK_DEADLOCK FALSE
