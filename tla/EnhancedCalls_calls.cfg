SPECIFICATION Spec
CONSTANTS
    c1 = c1
    c2 = c2
    s1 = s1
    s2 = s2
    NoSocket = NoSocket
    NoCall = NoCall
    Nothing = Nothing
    Calls = {c1, c2}
    Event <- TwinEvent
    Sockets = {s1, s2}
    MaxNoise = 1
INVARIANTS
    SendNeverBlocks
    ResultIsArmed
PROPERTIES
    ImplementsCalls
SYMMETRY Alike
CHECK_DEADLOCK FALSE
