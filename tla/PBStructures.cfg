SPECIFICATION StructuresSpec
CONSTANTS
    Threads = {t1, t2}
    Values = {v1, v2}
    MaxCalls = 4
    PopOp = PopOp
    NoArg = NoArg
    NoVal = NoVal
    NoThread = NoThread
    Unformatted = Unformatted
    Null = Null
    Guard = Guard
    Junk = Junk
    NumNodes = 3
    PoolEntries = 1
    NodesPerLine = 2
    Elimination = TRUE
    Recycling = TRUE
SYMMETRY Symmetry
INVARIANTS
    TypesOK
    StackNodesAccountedFor
    ArraysSuffice
    NodesAccountedFor
    ReusedNodesForgotten
    DequeuesDurableOnly
PROPERTIES
    ImplementsDurableStack
    ImplementsFIFOQueue
