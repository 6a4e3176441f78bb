SPECIFICATION Spec
CONSTANTS
    Levels = 3
    ValRange = 4
    Inserted = {0, 1, 2, 3}
PROPERTY DeleteRemovesOne
