CONSTANTS
    a = a  b = b  c = c
    k1 = k1  k2 = k2
    G0 = G0  G1 = G1  G2 = G2
    p1 = p1  p2 = p2
    Device = {a, b, c}
    Recipient = {k1}
    NoKey = NoKey
    Digest = {G0, G1, G2, d1, d2}
    Genesis = G0
    Founder = a
    Proc = {p1, p2}
    DeviceOf <- TwoOfA
    Lagging = TRUE
    Changes = {"approve", "remove", "promote", "demote"}
    MaxForeign = 1
SPECIFICATION EstablishedSpec
SYMMETRY Fresh
INVARIANTS
    SettledIsRecorded
    MembersWereAdmitted
    WalksAreRight
PROPERTIES
    CheckpointNeverShrinks
