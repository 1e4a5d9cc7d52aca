SPECIFICATION LoadFairSpec
CONSTANTS
    SingleSenders = {s1}
    MultiSenders = {m1}
    Receivers = {r1}
    Cap = 1
    QueueSize = 1
    MaxHelpers = 1
CHECK_DEADLOCK FALSE
PROPERTIES
    StopReturns
    HangIsFinal
