SPECIFICATION FairSpec
CONSTANTS
    App = App
    Timers = {t1, t2, t3}
    NoTimer = NoTimer
    Tokens = {k1, k2, u1}
    Opaque = {u1}
    NoToken = NoToken
    MaxConns = 2
INVARIANTS
    RenewalIsBacked
    ArmedIsStored
PROPERTIES
    RenewalGoesOn
    DisconnectStopsRenewal
CHECK_DEADLOCK FALSE
