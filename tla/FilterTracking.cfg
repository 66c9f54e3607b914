SPECIFICATION FairSpec
CONSTANTS
    Places = {here, source, liked}
    Liked = {source, liked}
    here = here
    source = source
    liked = liked
    From = source
    To = liked
    Roots <- MCRoots
    Stable = 1
    Missing = 2
    Late = 2
    MaxActs = 2
    MaxFaults = 1
    MaxFlips = 1
    MaxSpent = 4
INVARIANTS
    PublishedIsKnown
PROPERTIES
    SettledMovesAreKept
    ArrivalIsHeard
    TakingIsHeard
CHECK_DEADLOCK FALSE
