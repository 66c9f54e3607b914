SPECIFICATION FairSpec
CONSTANTS
    Tasks = {t1}
    Feedbacks = {f1}
    Dirs = {like}
    t1 = t1
    f1 = f1
    like = like
    control = control
    Control = control
    Verdict <- MCVerdict
    MaxLabel = 1
    MaxModel = 1
    MaxTries = 2
    MaxFaults = 1
    MaxMoves = 1
    MaxFlips = 2
    Careful = TRUE
INVARIANTS
    TypeOK
    VideoSurvives
PROPERTIES
    CurrentBasisOnly
    RemovesOnlyItsSource
    OperationsSettle
CHECK_DEADLOCK FALSE
