SPECIFICATION Spec
CONSTANTS
    McuCommands <- GearCommands
    Ioctls <- GearCalls
    AppRequests <- None
    QMax = 2
    CapMax = 10
    FrontView = TRUE
    T132B = TRUE
    BootSessions = {0}
    BootInputs = {5}
INVARIANT
    ReverseShown
