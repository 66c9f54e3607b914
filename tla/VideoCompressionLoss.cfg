SPECIFICATION CalmSpec
CONSTANTS
    Mission = {1}
    Lineage = TRUE
    UserMay = {"replace"}
    Careful = TRUE
    Faults = FALSE
    MaxVersion = 2
    MaxAttempt = 2
    MaxCrash = 1
    MaxRevision = 1
PROPERTIES
    NothingLost
