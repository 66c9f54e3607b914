SPECIFICATION FairCalmSpec
CONSTANTS
    Mission = {1}
    Lineage = TRUE
    UserMay <- Everybody
    Careful = TRUE
    Faults = TRUE
    MaxVersion = 3
    MaxAttempt = 4
    MaxCrash = 3
    MaxRevision = 2
INVARIANTS
    TypeOK
    LineageIsTrue
PROPERTIES
    AttemptNeverLosesItsSource
    OwnProductOnly
    OutputsStay
    CrashesNeverStrand
