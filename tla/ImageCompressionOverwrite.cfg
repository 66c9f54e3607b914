SPECIFICATION Spec
CONSTANTS
    jpg = jpg
    png = png
    Mission = {1, 2}
    Legacy = {}
    Name <- TwoNames
    Planned <- MappedNames
    Actual <- RealNames
    Trees = FALSE
    Posix = TRUE
    UserMay <- Everybody
    Faults = FALSE
    MaxVersion = 1
    MaxMishap = 0
PROPERTY
    OutputsStay
