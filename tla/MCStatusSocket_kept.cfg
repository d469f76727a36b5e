SPECIFICATION LiveSpec
CONSTANTS
    Values = {v1, v2, v3}
    Unknown = Unknown
    CAPACITY = 2
    Sessions <- KeptSessions
    MaxChanges = 4
INVARIANT NothingWithheld
PROPERTIES ViewCatchesUp
CHECK_DEADLOCK FALSE
