SPECIFICATION Spec
CONSTANTS
    Process = {p1, p2, p3}
    Pid = {1, 2}
    Nobody = Nobody
    Setter = {p1}
    ByName = {p2}
    Failures = {"ldrData", "notify"}
INVARIANTS
    NothingRunsUnloaded
    HeartbeatIsFromProc
    InjectsIntoProc
    GrantedIsProtected
PROPERTIES
    ProcIsSetOnce
    RequestsEnd
    StopEnds
CHECK_DEADLOCK FALSE
