CONSTANTS
    Capacity = 3
    Lifetime = 1
    Sizes <- MCSizes
    MaxPackets = 5
    MaxAge = 2
SPECIFICATION FairSpec
INVARIANT CustodyTypeOK
INVARIANT Accounted
INVARIANT FreshDelivery
PROPERTY KeepsOrder
PROPERTY CustodyEnds
