SPECIFICATION FairSpec
CONSTANTS
    Clients = {c1}
    Direct = {d1}
    NoOne = NoOne
    CmdKinds = {Ack, Unknown}
    EventKinds = {Ack}
    Unknown = Unknown
    MaxCalls = 2
    MaxLost = 0
    MaxEvents = 1
    MaxTimeouts = 2
PROPERTIES CallsReturn ReleasedByClose
CHECK_DEADLOCK FALSE
