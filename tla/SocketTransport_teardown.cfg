SPECIFICATION FairSpec
CONSTANTS
    Writers = {w1, w2}
    MaxFrames = 3
    MaxEmits = 2
INVARIANTS
    FailedConnectTearsDown
PROPERTIES
    ImplementsSocket
    TeardownCompletes
    ConnectReturns
CHECK_DEADLOCK FALSE
