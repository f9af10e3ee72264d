SPECIFICATION FairSpec
CONSTANTS
    McuCommands <- LiveCommands
    Ioctls <- LiveCalls
    AppRequests <- AppItems
    QMax = 1
    CapMax = 5
    FrontView = FALSE
    T132B = FALSE
    BootSessions = {0}
    BootInputs = {5}
PROPERTIES
    ThreadsReturn
    OffServed
