SPECIFICATION Spec
CONSTANTS
    McuCommands <- AppCommands
    Ioctls <- AppCalls
    AppRequests <- AppItems
    QMax = 1
    CapMax = 5
    FrontView = TRUE
    T132B = TRUE
    BootSessions = {0}
    BootInputs = {5, 6}
INVARIANT
    ReverseLeft
PROPERTY
    BackviewSpec
