SPECIFICATION FairSpec
CONSTANTS
    Clones = {h1, h2}
    First = h1
    Capacity = 2
    MaxFrames = 4
    MaxWrites = 1
INVARIANT EndedAfterNewest
PROPERTIES DeathReachesAll TasksEndWithClones ShutdownReturns
CHECK_DEADLOCK FALSE
