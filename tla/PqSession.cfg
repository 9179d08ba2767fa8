SPECIFICATION Spec
CONSTANTS
    MaxU64 = 1
    MaxRetries = 8
    PersistAlways = TRUE
    MaxCrashes = 3
INVARIANT CrashNeverForks
PROPERTY ExchangeCompletes
