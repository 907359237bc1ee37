CONSTANTS
    a = a  b = b  c = c
    p1 = p1  p2 = p2  p3 = p3
    Device = {a, b}
    Admin = a
    Proc = {p1, p2}
    DeviceOf <- OneEach
    Key = {k}
    Value = {v1, v2}
    Deleted = Deleted
    Rev = {r1, r2, r3}
    Lagging = FALSE
    FirstMembers = {a, b}
    MaxControls = 3
    Kinds = {"look","resolve","set","remove","approve"}
SPECIFICATION Spec
SYMMETRY Fresh1
INVARIANTS
    EditsSurvive
    
    WalkFindsTrusted
