SPECIFICATION Spec
CONSTANTS
    Channels <- FiveChannels
    Requests <- AllRequests
    AjxCh = 3
    BtShared = TRUE
    RadioPops = TRUE
    CustomerAM = FALSE
    QMax = 1
    TimersMax = 2
INVARIANTS
    TypeOK
    ChipFollows
    LevelRight
    SourcesOff
    PinReleased
    GapWatched
