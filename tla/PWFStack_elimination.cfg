SPECIFICATION MCSpec
CONSTANTS
    NThreads = 4
    Values = {1}
    MaxCalls = 5
    PopOp = PopOp
    NoArg = NoArg
    ZeroVal = 0
    Unformatted = Unformatted
    Null = Null
    Junk = Junk
    PoolEntries = 4
    NodesPerLine = 2
INVARIANT WholeAfterCrash
CHECK_DEADLOCK FALSE
