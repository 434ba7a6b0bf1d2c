CONSTANTS
    Ttes <- MCTtes
    Sinrs <- MCSinrs
    Epsilon = 1
    MaxLength = 4
SPECIFICATION Spec
INVARIANT NotDominated
