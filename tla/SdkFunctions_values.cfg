SPECIFICATION Spec
CONSTANTS
    h1 = h1
    h2 = h2
    bad = bad
    NoText = NoText
    home = home
    good = good
    other = other
    i1 = i1
    i2 = i2
    d1 = d1
    m1 = m1
    u1 = u1
    room = room
    Hosts = {h1, h2, home}
    Broken = {bad}
    DefaultURL = home
    Keys = {good, other}
    Prefixed = {good}
    Numbers <- SmallNumbers
    Era <- SmallEra
    Nows <- SmallNows
    Lead = 12
    Scale = 10
    Unit = 4
    Threshold = 100
    HalfWord = 4096
    MaxMessageSize = 3
    Ids = {i1, i2}
    Payloads = {d1}
    Users = {u1}
    Metas = {m1}
    Name = room
    MaxLen = 2
INVARIANTS
    ManagerIsNeverReplaced
    RefreshIsAhead
    BulkReportsEach
    AnswersAreRead
CHECK_DEADLOCK FALSE
