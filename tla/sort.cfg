SPECIFICATION FairSpec
CONSTANTS
    Words <- MCWords
    MaxArgs = 5
    TEMP = 3
    MAXITEMS = 4
    Mortal = TRUE
INVARIANTS
    SortServed
PROPERTIES
    BothEnd
CHECK_DEADLOCK FALSE
