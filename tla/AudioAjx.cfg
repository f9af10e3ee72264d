SPECIFICATION Spec
CONSTANTS
    Channels <- TwoChannels
    Requests <- AjxOnly
    AjxCh = 3
    BtShared = TRUE
    RadioPops = TRUE
    CustomerAM = FALSE
    QMax = 1
    TimersMax = 1
INVARIANT
    AjxHeard
