SPECIFICATION LiveSpec
CONSTANTS
    Urls = {u1, u2, s}
    Static = {s}
    Findable = {u1, u2, s}
    Steady = {s}
    Limit = 2
    MaxQueue = 2
INVARIANT ListMatchesRegistry
PROPERTIES PinnedStaysListed SeenIsListed UnseenRemoved
