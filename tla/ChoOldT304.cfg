CONSTANTS
    Cells <- ThreeCells
    Absent = Absent
    ZeroSat = 1
    InitialCell = 1
    Configs <- TteConfigs
    HasCallback = TRUE
    MaxOrphans = 1
    MaxAge = 0
    MaxDwell = 0
    LtmCap = 0
    MaxDelay = 2
    Sinrs <- OneSinr
    Skies <- MCSkies
    Lossy = TRUE
    NumUes = 1
SPECIFICATION StackSpec
INVARIANT T304GuardsExecution
CHECK_DEADLOCK FALSE
