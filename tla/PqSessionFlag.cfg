SPECIFICATION Spec
CONSTANTS
    MaxU64 = 1
    MaxRetries = 8
    PersistAlways = FALSE
    MaxCrashes = 1
INVARIANT CrashNeverForks
