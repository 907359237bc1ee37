CONSTANTS
    r1 = r1  r2 = r2
    d1 = d1  d2 = d2
    Req = {r1, r2}
    Dir = {d1, d2}
    NoDir = NoDir
    NoReq = NoReq
SPECIFICATION Spec
INVARIANTS
    RunsWhereItStarted
    SelectionIsSaved
    SendsAreSafe
PROPERTIES
    ServeEnds
    OthersGoOn
CHECK_DEADLOCK FALSE
