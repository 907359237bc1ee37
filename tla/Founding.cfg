CONSTANTS
    p1 = p1  p2 = p2
    w1 = w1  w2 = w2
    g1 = g1  g2 = g2  g3 = g3
    Workspace = {w1, w2}
    Genesis = {g1, g2, g3}
    Foreign <- FoundedElsewhere
    NoGenesis = NoGenesis
    Proc = {p1, p2}
    Initializer = {p1}
    MaxEdits = 2
    MaxAccepts = 1
    MaxCrashes = 1
SPECIFICATION Spec
INVARIANTS
    FoundingIsRetryable
PROPERTIES
    PinsStay
    
