CONSTANTS
    Cells <- TwoCells
    Absent = Absent
    ZeroSat = 1
    InitialCell = 1
    Configs <- TteConfigs
    HasCallback = TRUE
    MaxOrphans = 1
    MaxAge = 0
    MaxDwell = 0
    LtmCap = 0
    MaxDelay = 2
    Sinrs <- OneSinr
    Skies <- LiveSkies
    Lossy = TRUE
    NumUes = 2
SPECIFICATION FairStackSpec
PROPERTY AttemptedAgain
CHECK_DEADLOCK FALSE
