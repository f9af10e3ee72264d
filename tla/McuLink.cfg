SPECIFICATION FairSpec
CONSTANT
    Commands <- AllCalls
INVARIANTS
    TypeOK
    LinesReleased
    ClkIsTheirs
    NoEarlySuccess
PROPERTY
    LinkReturns
