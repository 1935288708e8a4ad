SPECIFICATION Spec
CONSTANTS
    Pids = {1, 2, 3}
    Targets = {2}
    NPages = 3
    Layouts <- MCLayouts
    Requests <- MCRequests
    MaxRegions = 3
    Env = {"mapFails"}
INVARIANTS
    HostIsLive
    ViewsAreInHost
    TargetIsServed
    NoBugcheck
    NoOrphanViews
    MappedIsLocked
