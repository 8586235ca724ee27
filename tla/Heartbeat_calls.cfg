SPECIFICATION FairSpec
CONSTANTS
    Callers = {p1, p2}
    MaxStarts = 2
INVARIANTS
    TickerIsServed
    StopPanicTakesOverlap
PROPERTIES
    StopReleasesWaiters
    CloseEndsHeartbeats
    BeatsGoOn
CHECK_DEADLOCK FALSE
