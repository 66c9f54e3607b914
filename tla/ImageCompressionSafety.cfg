SPECIFICATION FairSpec
CONSTANTS
    jpg = jpg
    png = png
    Mission = {1, 2}
    Legacy = {2}
    Name <- TwoNames
    Planned <- MappedNames
    Actual <- RealNames
    Trees = TRUE
    Posix = TRUE
    UserMay <- Everybody
    Faults = TRUE
    MaxVersion = 2
    MaxMishap = 2
INVARIANTS
    TypeOK
    NamesAreReserved
PROPERTIES
    SourcesSurvive
    ActiveSettles
