SPECIFICATION Spec
CONSTANTS
    r1 = r1
    r2 = r2
    a = a
    b = b
    NoRoom = NoRoom
    NoHandle = NoHandle
    Rooms = {r1, r2}
    Home = r1
    Handles = {a, b}
    MaxConns = 5
    MaxQueue = 2
    MaxEvents = 4
INVARIANTS OnlyDisconnectConfusesSockets OneTransport OnlyFailureOrRollbackKeepsClosed
PROPERTIES SignalsConnect OnlyOverlappingJoinsStrand
CHECK_DEADLOCK FALSE
