SPECIFICATION MCSpec
CONSTANTS
    Threads = {t1, t2}
    Values = {1}
    MaxCalls = 4
    NoArg = NoArg
    NoVal = NoVal
    NoThread = NoThread
    Unformatted = Unformatted
    Null = Null
    Guard = Guard
    Junk = Junk
    PoolEntries = 3
    NodesPerLine = 2
SYMMETRY ThreadSymmetry
INVARIANT LinksDurable
CHECK_DEADLOCK FALSE
