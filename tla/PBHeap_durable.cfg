SPECIFICATION Spec
CONSTANTS
    Levels = 2
    ValRange = 4
    Threads = {t1, t2}
    Inserted = {1, 2}
    NoArg = NoArg
    NoVal = NoVal
    NoThread = NoThread
    Unformatted = Unformatted
INVARIANT ElementsDurable
