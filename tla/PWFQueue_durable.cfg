SPECIFICATION MCSpec
CONSTANTS
    NThreads = 2
    Values = {1, 2}
    MaxCalls = 4
    MaxOfAKind = 2
    NoArg = NoArg
    NoVal = NoVal
    Unformatted = Unformatted
    Null = Null
    Guard = Guard
    Junk = Junk
    PoolEntries = 3
INVARIANTS
    HeadNotAhead
CHECK_DEADLOCK FALSE
