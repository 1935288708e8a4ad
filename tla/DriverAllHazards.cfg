SPECIFICATION Spec
CONSTANTS
    Process = {p1, p2}
    Pid = {1, 2}
    Nobody = Nobody
    Setter = {p1, p2}
    ByName = {p1}
    Failures = {"ldrData", "notify", "link"}
INVARIANTS
    TypeOK
    RequestsFindObject
CHECK_DEADLOCK FALSE
