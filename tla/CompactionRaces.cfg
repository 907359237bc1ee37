CONSTANTS
    a = a  b = b
    p1 = p1  p2 = p2
    r1 = r1  r2 = r2  d1 = d1  d2 = d2
    f1 = f1  f2 = f2  m1 = m1  x2 = x2  m2 = m2
    Device = {a, b}
    Proc = {p1, p2}
    DeviceOf <- OneEach
    Rev = {r1, r2, d1, d2}
    First <- Chain
    Behind = r1
    Order <- InOrder
    Lagging = FALSE
    Keep = {1, 2}
    RecordSize = 2
    MaxCompactions = 2
SPECIFICATION Spec
SYMMETRY Fresh
INVARIANTS
    DeletionsAreExcused
    ReadableAfterwards
