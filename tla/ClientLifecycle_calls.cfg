SPECIFICATION FairSpec
CONSTANTS
    Callers = {c1, c2}
    Timers = {t1, t2, t3}
    Sockets = {s1, s2}
    NoSocket = NoSocket
    MaxAttempts = 1
    MaxCalls = 3
INVARIANTS
    PanicTakesOverlap
    NoOrphanSocket
    StateAgrees
    PendingIsBacked
PROPERTIES
    ImplementsSession
    RetriesTerminate
CHECK_DEADLOCK FALSE
