SPECIFICATION MCSpec
CONSTANTS
    Threads = {t1, t2, t3, t4}
    Values = {1}
    MaxCalls = 5
    PopOp = PopOp
    NoArg = NoArg
    NoVal = NoVal
    NoThread = NoThread
    Unformatted = Unformatted
    Null = Null
    Junk = Junk
    NumNodes = 3
    NodesPerLine = 3
    Elimination = TRUE
    Recycling = TRUE
SYMMETRY ThreadSymmetry
INVARIANT WholeAfterCrash
CHECK_DEADLOCK FALSE
