SPECIFICATION FairSpec
CONSTANTS
    Callers = {c1}
    Timers = {t1, t2}
    Sockets = {s1, s2}
    NoSocket = NoSocket
    MaxAttempts = 1
    MaxCalls = 2
INVARIANTS
    ClosedReleasesAll
CHECK_DEADLOCK FALSE
