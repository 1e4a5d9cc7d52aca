SPECIFICATION FairSpec
CONSTANTS
    Conns = {h1, h2}
    MaxBatch = 2
CHECK_DEADLOCK FALSE
INVARIANTS
    DatabaseUsedOpen
    AckedIsStored
PROPERTY StopHangsOnSilence
