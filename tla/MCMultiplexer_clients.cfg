SPECIFICATION Spec
CONSTANTS
    Clients = {c1, c2}
    Direct = {}
    NoOne = NoOne
    CmdKinds = {Ack, Data}
    EventKinds = {Event}
    Unknown = Unknown
    MaxCalls = 3
    MaxLost = 1
    MaxEvents = 1
    MaxTimeouts = 2
SYMMETRY ClientSymmetry
INVARIANTS TypeOK Tracked NoneStranded LiveIsLast
PROPERTIES ImplementsService UndisturbedAnswer
