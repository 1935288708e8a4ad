SPECIFICATION Spec
CONSTANTS
    Pids = {1, 2, 3}
    Targets = {1, 2}
    NPages = 1
    Layouts <- MCOnePage
    Requests <- MCOnePageRequests
    MaxRegions = 1
    Env = {"poolFails", "mapFails", "strangers", "exitGap", "lateExit"}
INVARIANT
    TypeOK
PROPERTY
    HostIsLeased
CHECK_DEADLOCK FALSE
