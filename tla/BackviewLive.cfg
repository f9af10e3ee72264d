SPECIFICATION FairSpec
CONSTANTS
    Requests <- MCFewRequests
    QMax = 2
    FrontView = TRUE
    T132B = TRUE
PROPERTIES
    BackStopServed
    CameraAnnounced
    SignalWatched
