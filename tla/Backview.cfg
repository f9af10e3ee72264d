SPECIFICATION Spec
CONSTANTS
    Requests <- MCRequests
    QMax = 1
    FrontView = TRUE
    T132B = TRUE
INVARIANTS
    TypeOK
    StreamsOnDemand
    OverlayFollowsStream
    CheckNeverLost
    ChannelCurrent
    AndroidVisible
    AndroidTold
PROPERTY
    CameraKeepsScreen
    ArbiterSpec
