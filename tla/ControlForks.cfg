CONSTANTS
    a = a  b = b  c = c
    k1 = k1  k2 = k2
    G0 = G0  G1 = G1  G2 = G2
    p1 = p1  p2 = p2
    Device = {a, b, c}
    Recipient = {k1}
    NoKey = NoKey
    Digest = {G0, G1, G2, d1, d2, d3}
    Genesis = G0
    Founder = a
    Proc = {p1, p2}
    DeviceOf <- OneEach
    Lagging = FALSE
    Changes = {"approve", "remove", "demote"}
    MaxForeign = 0
SPECIFICATION EstablishedSpec
SYMMETRY Fresh
INVARIANTS
    RevocationsStand
    SettledForksAreJoined
    AgreedForkCanBeJoined
