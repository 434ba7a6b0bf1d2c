CONSTANTS
    Cells <- MCCells
    Absent = Absent
    ZeroSat = 1
    Configs <- MCConfigs
    HasCallback = TRUE
    MaxOrphans = 1
    MaxAge = 0
    MaxDwell = 0
    LtmCap = 3
    MaxDelay = 2
    Sinrs <- MCSinrs
    Skies <- MCSkies
SPECIFICATION FairSpec
INVARIANT TypeOK
INVARIANT ExecutionSupervised
PROPERTY ExecutionTimesOut
