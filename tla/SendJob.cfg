SPECIFICATION Spec
CONSTANTS
    Jobs = {1, 2}
    Peers = {1, 2}
    Size = 2
    MaxFaults = 1
    MaxCancels = 1
INVARIANTS StagingOutlivesTransfers JobLeavesNoOrphan CancelIsScoped
CHECK_DEADLOCK FALSE
