SPECIFICATION Spec
CONSTANTS
    c1 = c1
    c2 = c2
    Clients = {c1, c2}
    Presets = {1, 2}
    RequestsOf <- OnlyFilters
    MinGain <- ShortRange
    Keep = Keep
    MaxTaps = 4
    CHUNK = 2
    RemoteChanges = {}
    MaxRequests = 2
    MaxFailures = 0
    MaxRemote = 0
INVARIANTS AudioRestored
CHECK_DEADLOCK FALSE
