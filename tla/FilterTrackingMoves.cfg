SPECIFICATION Spec
CONSTANTS
    Places = {here, there, source, liked}
    Liked = {source, liked}
    here = here
    source = source
    liked = liked
    From = source
    To = liked
    Roots <- Everywhere
    Stable = 1
    Missing = 2
    Late = 2
    MaxActs = 1
    MaxFaults = 0
    MaxFlips = 0
    MaxSpent = 4
PROPERTIES
    DeletionsAreTaken
CHECK_DEADLOCK FALSE
