SPECIFICATION MCSpec
CONSTANTS
    NThreads = 2
    Workloads <- Reuse
    Args = {0}
    ZeroArg = 0
    RetVals <- SwapStates
    ObjStates <- SwapStates
    InitialState <- Fresh
    ZeroVal <- Fresh
    NoVal = NoVal
    NoRec = NoRec
    SFunc <- Swap
    AsVal <- Stored
    SeqRange = 5
INVARIANT ReturnedDurable
CHECK_DEADLOCK FALSE
