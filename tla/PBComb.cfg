SPECIFICATION SessionSpec
CONSTANTS
    NThreads = 3
    Workloads <- ReuseOrMeet
    Args = {0}
    ZeroArg = 0
    RetVals <- SwapStates
    ObjStates <- SwapStates
    InitialState <- Fresh
    ZeroVal <- Fresh
    NoVal = NoVal
    NoRec = NoRec
    InitRec = InitRec
    SFunc <- Swap
    PoolSize = 2
    Rounds = 2
    HalfLock = 2
    AscendingCopy = TRUE
INVARIANTS
    TypeOK
    OneCombiner
    WorkingRecordPrivate
    ImageComplete
    NextSessionServes
    ReturnedDurable
    ReturnsOwnResult
PROPERTIES
    ImplementsDurableObject
    ImplementsSessions
    EveryCallReturns
CHECK_DEADLOCK FALSE
