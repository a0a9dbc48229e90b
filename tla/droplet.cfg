CONSTANTS
    Sessions = {s1}
    Droplets = {d1, d2}
    Callers = {c1, c2}
    None = None
    MaxFaults = 2
    MaxOverlapFaults = 1
SPECIFICATION FairSpec
INVARIANTS
    EnsureTruth
    OneDropletPerSession
    RemovedIsClean
PROPERTIES
    DestroyEnds
CHECK_DEADLOCK FALSE
