SPECIFICATION Spec
CONSTANTS
    McuCommands <- PowerCommands
    Ioctls <- PowerCalls
    AppRequests <- None
    QMax = 1
    CapMax = 5
    FrontView = TRUE
    T132B = TRUE
    BootSessions = {0, 1}
    BootInputs = {}
INVARIANT
    PowerOnMirrors
