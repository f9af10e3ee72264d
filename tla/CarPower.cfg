SPECIFICATION Spec
CONSTANTS
    McuCommands <- PowerCommands
    Ioctls <- PowerCalls
    AppRequests <- None
    QMax = 2
    CapMax = 10
    FrontView = TRUE
    T132B = TRUE
    BootSessions = {0, 1, 255}
    BootInputs = {}
INVARIANTS
    TypeOK
    NoOverlap
    CodecFollowsFlag
    SessionsCounted
