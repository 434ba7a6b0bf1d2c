CONSTANTS
    ho = ho
    dc = dc
    Xapp <- MCXapp
    Priority <- MCPriority
    Node <- MCNode
    Action <- MCAction
    Window = 1
    RateWindow = 2
    Caps <- MCCaps
    MaxSubmit = 3
    MaxTime = 3
    MaxLevel = 1
SPECIFICATION Spec
INVARIANT RicTypeOK
INVARIANT AcceptedDominates
INVARIANT LastWord
PROPERTY XappRateHonoured
CHECK_DEADLOCK FALSE
