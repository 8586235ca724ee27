SPECIFICATION FairSpec
CONSTANTS
    Callers = {c1}
    Timers = {t1, t2}
    Sockets = {s1}
    NoSocket = NoSocket
    MaxAttempts = 2
    MaxCalls = 2
PROPERTIES
    DropRecovered
CHECK_DEADLOCK FALSE
