CONSTANTS
    Cells <- ThreeCells
    Absent = Absent
    ZeroSat = 1
    InitialCell = 1
    Configs <- SafetyConfigs
    HasCallback = TRUE
    MaxOrphans = 1
    MaxAge = 2
    MaxDwell = 0
    LtmCap = 0
    MaxDelay = 2
    Sinrs <- MCSinrs
    Skies <- MCSkies
    Lossy = TRUE
    NumUes = 2
SPECIFICATION StackSpec
INVARIANT StackTypeOK
 
INVARIANT NeighboursKept
INVARIANT GeometryOwn
PROPERTY TttHonoured
PROPERTY OutlastsServing
CHECK_DEADLOCK FALSE
