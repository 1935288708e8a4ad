SPECIFICATION FairSpec
CONSTANTS
    Cores = {1, 2, 3}
    Initiators = {1, 2}
INVARIANTS
    TypeOK
    OthersAreTrapped
    OnePatcher
    InfoOutlivesTraps
PROPERTY EndsUnlessMissed
CHECK_DEADLOCK FALSE
