SPECIFICATION FairSpec
CONSTANTS
    Senders <- TwoDrivers
    Nobody = "nobody"
    Sizes <- Lengths
    LineMax = 17
INVARIANTS
    TypeOK
    FramesWhole
    Delivered
    LateByte
PROPERTY
    PortReturns
