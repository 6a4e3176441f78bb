SPECIFICATION StructuresSpec
CONSTANTS
    NThreads = 2
    Values = {1, 2}
    MaxCalls = 4
    MaxOfAKind = 2
    PopOp = PopOp
    NoArg = NoArg
    NoVal = NoVal
    ZeroVal = 0
    Unformatted = Unformatted
    Null = Null
    Guard = Guard
    Junk = Junk
    PoolEntries = 3
    NodesPerLine = 2
INVARIANTS
    TypesOK
    NodesInOnePlace
    WholeAfterCrash
PROPERTIES
    ImplementsBufferedStack
    QueueOrder
    EmptyAnswersHonest
CHECK_DEADLOCK FALSE
