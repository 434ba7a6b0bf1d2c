CONSTANTS
    MaxSteps = 2
    MaxSessions = 3
    EndCalls = 1
SPECIFICATION FairGymSpec
INVARIANT GymTypeOK
INVARIANT ReadAsWritten
PROPERTY ActionFresh
PROPERTY StateArrives
PROPERTY SimulatorExits
CHECK_DEADLOCK FALSE
