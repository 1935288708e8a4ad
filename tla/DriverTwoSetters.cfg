SPECIFICATION Spec
CONSTANTS
    Process = {p1, p2}
    Pid = {1, 2}
    Nobody = Nobody
    Setter = {p1, p2}
    ByName = {}
    Failures = {}
PROPERTIES
    ProcIsSetOnce
CHECK_DEADLOCK FALSE
