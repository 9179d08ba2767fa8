SPECIFICATION KeysSpec
CONSTANTS
    MaxSent = 5
    Chunks = 2
    MaxSkip = 1
    MaxSkipSession = 1
    CacheMax = 2
    Window = 2
    MaxCells = 5
    MaxEpoch = 2
    NConns = 3
    MaxSends = 2
    MaxFaults = 1
    MaxDeleteFaults = 1
INVARIANTS OnlyLimitsLoseMessages OnlyEvictionStrandsTransfers CellsActOnce OnlyLateCellsAreRefused NoKeyReuseAfterRestart
PROPERTIES ReplacementWritesLast MutationsEnd
CHECK_DEADLOCK FALSE
