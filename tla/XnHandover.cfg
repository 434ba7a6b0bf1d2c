CONSTANTS
    g1 = g1
    g2 = g2
    g3 = g3
    ue = ue
    Gnb <- ThreeGnbs
    Ue <- OneUe
    Sn <- TwoStates
    MaxStarts = 2
    MaxLost = 1
    MaxCancels = 1
    MaxChanges = 1
SPECIFICATION FairSpec
INVARIANT XnTypeOK
INVARIANT ContextMoved
INVARIANT OneOutcome
PROPERTY Resolved
CHECK_DEADLOCK FALSE
