CONSTANTS
    c1 = c1  h1 = h1  h2 = h2
    Key = {c1, h1, h2}
    Hybrid = {h1, h2}
    SigningKey = {s1, s2}
    s1 = s1  s2 = s2
    NoKey = NoKey
    Proc = {p1, p2}
    Nobody = Nobody
    MaxChanges = 4
    MaxFaults = 1
SPECIFICATION Spec
INVARIANTS
    CurrentIsThere
    ListedIsHeld
PROPERTIES
    NeverSwappedBack
    OneDevice
    ApprovedIsPromoted
