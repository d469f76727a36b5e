SPECIFICATION Spec
CONSTANTS
    READ_FLOATS_MAX = 14
    Jobs <- MCJobs
INVARIANTS
    TypeOK OkMeansDone MasterAsAsked OnlyAsked RefusedIsImpossible InOrder
    EachItsOwn LeastCommands
