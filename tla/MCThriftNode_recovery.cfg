SPECIFICATION FairSpec
CONSTANTS
    N = 2
    Users = {}
CHECK_DEADLOCK FALSE
PROPERTY FailedPingRedials
