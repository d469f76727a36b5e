SPECIFICATION SharedFairSpec
CONSTANTS
    Clients = {c1}
    Direct = {}
    NoOne = NoOne
    CmdKinds = {Ack, Data}
    EventKinds = {Ack}
    Unknown = Unknown
    MaxCalls = 2
    MaxLost = 1
    MaxEvents = 2
    MaxTimeouts = 2
    a1 = a1
    a2 = a2
    w1 = w1
    Tcp = {a1, a2}
    Web = {w1}
    Slow = {a2}
    Daemon = Daemon
    Capacity = 1
    MaxAsked = 1
    CallsBeside <- Scenes
INVARIANTS SharedTypeOK
PROPERTIES AppsAnswered SessionsEnd
CHECK_DEADLOCK FALSE
