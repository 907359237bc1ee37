CONSTANTS
    a = a  b = b  c = c
    p1 = p1  p2 = p2  p3 = p3
    Device = {a, b}
    Admin = a
    Proc = {p1, p2}
    DeviceOf <- TwoOfA
    Key = {k}
    Value = {v1}
    Deleted = Deleted
    Rev = {r1, r2, r3}
    Lagging = FALSE
    FirstMembers = {a}
    MaxControls = 2
    Kinds = {"set","delete","sync","approve"}
SPECIFICATION Spec
SYMMETRY Fresh1
INVARIANTS
    
    SavedIsSealed
    MergesLoseNothing
PROPERTIES
    AcceptedNeverShrinks
