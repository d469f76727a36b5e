SPECIFICATION Spec
CONSTANTS
    Clients = {c1}
    Direct = {}
    NoOne = NoOne
    CmdKinds = {Ack, Data}
    EventKinds = {}
    Unknown = Unknown
    MaxCalls = 2
    MaxLost = 1
    MaxEvents = 0
    MaxTimeouts = 1
PROPERTY AnswerReachesWaiter
CHECK_DEADLOCK FALSE
