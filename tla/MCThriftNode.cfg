SPECIFICATION FairSpec
CONSTANTS
    N = 2
    Users = {u1, u2}
CHECK_DEADLOCK FALSE
INVARIANTS
    PanicOnlyAfterClose
    CloseWaited
PROPERTY CloseReturns
