SPECIFICATION Spec
CONSTANTS
    c1 = c1
    c2 = c2
    c3 = c3
    Nothing = Nothing
    Calls = {c1, c2, c3}
    Kind <- HistoryKind
    Chan <- HistoryChan
INVARIANTS
    NoHandlerLeak
    WaitingIsArmed
PROPERTIES
    ImplementsCalls
SYMMETRY Twins
CHECK_DEADLOCK FALSE
