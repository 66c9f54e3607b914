SPECIFICATION FairSpec
CONSTANTS
    Threads = {t1, t2}
    Workers = {w1, w2, w3}
    t1 = t1
    t2 = t2
    w1 = w1
    w2 = w2
    w3 = w3
    KeysOf <- MCKeysOf
    Capacity = 2
    Leases = 1
    MaxFaults = 1
INVARIANTS
    ProcessesWithinCapacity
    GpuNeedsLease
    WorkIsItsOwn
    NoneSurvives
PROPERTIES
    EveryRunEnds
CHECK_DEADLOCK FALSE
