SPECIFICATION FairSpec
CONSTANTS
    Assets <- MCAssets
    Fresh <- MCFresh
    Confirmed <- MCConfirmed
    Kinds = {"lr"}
    MinPerClass = 1
    Runners = {"r1"}
    Voters = {"u1"}
    Opinions <- MCOpinions
    MaxModels = 2
    MaxVotes = 2
    MaxMoves = 1
INVARIANTS TypeOK StaleModelIsFlagged LocksNeverCycle
PROPERTIES PredictionsAreCurrent VideosAreJudged
