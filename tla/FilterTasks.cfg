SPECIFICATION FairSpec
CONSTANTS
    Tasks = {t1, t2}
    t1 = t1
    t2 = t2
    Older <- MCOlder
    Kind <- MCKind
    Revision <- MCRevision
    Capacity <- Places
    Tokens = {1, 2}
    MaxAttempts = 2
    MaxTrouble = 1
INVARIANTS
    CapacityKept
PROPERTIES
    EndedStaysEnded
    OwnedRunEnds
    QueuedIsServed
CHECK_DEADLOCK FALSE
