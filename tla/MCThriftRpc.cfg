SPECIFICATION Spec
CONSTANTS
    nil = nil
    c1 = c1
    c2 = c2
    c3 = c3
    Calls <- MCCalls
    Conns = {k1}
    CheckConn = k0
    Workloads <- MCWorkloads
    Keys = {"a", "b"}
    Strings = {"", "a", "b", "x", "y", "z", "0.0.0.0:xxx"}
CHECK_DEADLOCK FALSE
INVARIANTS
    LateCallFails
    ExchangeFaithful
