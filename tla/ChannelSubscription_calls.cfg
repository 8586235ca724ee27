SPECIFICATION Spec
CONSTANTS
    g1 = g1
    g2 = g2
    m1 = m1
    m2 = m2
    p1 = p1
    p2 = p2
    NoTarget = NoTarget
    Callers = {p1, p2}
    Targets = {g1, g2}
    Messages = {m1, m2}
    Passes <- FirstFilters
    Retaining = {g1}
    Presence = {g2}
    Capacity = 1
    HistoryCap = 1
    MaxCalls = 4
    MaxConns = 2
INVARIANTS
    SubscribedIsJoined
    PresenceAgrees
    FilterHonoured
    HistoryIsLatest
    PanicTakesOverlap
PROPERTIES
    SubscriptionIsStable
SYMMETRY Symmetry
CHECK_DEADLOCK FALSE
