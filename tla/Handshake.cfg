SPECIFICATION Spec
CONSTANTS
    Pins = {"a", "b"}
    MaxConns = 2
    MaxAttempts = 1
    BackoffBase = 1
    BackoffMax = 2
    Window = 2
    WindowLimit = 2
    MaxFaults = 1
INVARIANTS KeysBelongToGate OnlyLateFailuresMislabel
PROPERTIES NoGuessDuringBackoff AttemptsEnd
CHECK_DEADLOCK FALSE
