SPECIFICATION MCSpec
CONSTANTS
    Levels = 3
    ValRange = 4
    Inserted = {0, 1, 2, 33}
    Entries = 2
    MaxBlocks = 3
    Usages = {"recycle", "rollback"}
    Shift = 1
    MaxThreads = 4
    Divisions = 2
    NThreads = 4
    Plans <- Programs
    Rounds = 2
INVARIANTS
    TypesOK
    SlotsOrdered
    ObjectsAccountedFor
    VectorsAreSets
    NoneLeavesEarly
    JoinWaits
PROPERTIES
    ReturnsMinimum
    InsertAdds
    ServesPending
    EveryStartEnds
CHECK_DEADLOCK FALSE
