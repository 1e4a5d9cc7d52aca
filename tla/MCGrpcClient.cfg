SPECIFICATION ClientFairSpec
CONSTANTS
    Clients = {k}
    Ids = {k, i}
    Groups = {k, g1, g2}
    Conns = {k, c1}
    Eps = {e1, e2}
    NoGroup = NoGroup
    NoEps = NoEps
CHECK_DEADLOCK FALSE
INVARIANTS
    CurrentUnlessLate
    ClosedStaysOnlyInOrphans
    RegisteredExactlyInUse
    ConnCurrent
PROPERTY TearsDown
