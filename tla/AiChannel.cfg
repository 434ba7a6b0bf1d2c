CONSTANTS
    Fields <- MCFields
    Values <- MCValues
    Policy <- MCPolicy
SPECIFICATION FairChanSpec
INVARIANT NoTornCopy
INVARIANT ChanInv
PROPERTY Implements
PROPERTY Answered
PROPERTY FinishSeen
CHECK_DEADLOCK FALSE
