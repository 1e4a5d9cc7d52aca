SPECIFICATION CallFairSpec
CONSTANTS
    MaxRetries = 5
    MaxEndpoints = 4
CHECK_DEADLOCK FALSE
INVARIANTS
    AtMostOnceButContext
    GivesUpLate
    WaitsEveryQuorum
    OneStreamDelivers
PROPERTY Returns
