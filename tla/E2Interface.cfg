CONSTANTS
    x1 = x1
    x2 = x2
    ue = ue
    Xapp <- MCXapp
    Ue <- MCUe
    Node <- MCNode
    Required <- MCRequired
    MaxBuffer = 1
    MaxInd = 2
    MaxSub = 2
    MaxLevel = 1
SPECIFICATION FairSpec
INVARIANT E2TypeOK
INVARIANT InOrder
INVARIANT OnePlace
INVARIANT NothingLeftBehind
PROPERTY OnlyOwn
PROPERTY ReportsArrive
