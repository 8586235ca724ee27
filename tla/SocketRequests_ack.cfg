SPECIFICATION Spec
CONSTANTS
    c1 = c1
    c2 = c2
    c3 = c3
    Nothing = Nothing
    Calls = {c1, c2}
    Kind <- TwinKind
    Chan <- TwinChan
INVARIANTS
    OwnAnswer
CHECK_DEADLOCK FALSE
