SPECIFICATION Spec
CONSTANTS
    Reals = {1, 2}
    Decoys = {3}
    MaxQueue = 2
    Window = 1
    MaxRetransmits = 2
    MaxResumes = 1
    MaxConnections = 2
    MaxFaults = 1
INVARIANTS OnlyReloadFakesDelivery OnlyStorageErrorsKeepPartials
PROPERTY TransferEnds
CHECK_DEADLOCK FALSE
