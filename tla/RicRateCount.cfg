CONSTANTS
    ho = ho
    dc = dc
    Xapp <- MCXapp
    Priority <- MCPriority
    Node <- MCNode
    Action <- MCAction
    Window = 1
    RateWindow = 2
    Caps <- MCCaps
    MaxSubmit = 3
    MaxTime = 3
    MaxLevel = 1
SPECIFICATION Spec
PROPERTY RateCountsAccepted
CHECK_DEADLOCK FALSE
