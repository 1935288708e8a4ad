SPECIFICATION InjectSpec
CONSTANTS
    a = a
    b = b
    Root = root
    Dll = {root, a, b}
    Routine <- MCRoutine
    Graphs <- MCGraphs
    FlagSets <- MCFlagSets
    None = None
    Fresh = Fresh
    Freed = Freed
    MaxApcs = 2
    MaxPolls = 2
    Env = {"late", "callFails", "exits", "setupFails", "loadFails", "readFails"}
INVARIANTS
    TypeOK
    NothingLeftOver
    NoFreedCode
    CompleteBeforeRun
    BoundAsImported
    ImportsInitialisedFirst
    PoolIsReleased
    InjectionIsSound
PROPERTY InjectionEnds
CHECK_DEADLOCK FALSE
