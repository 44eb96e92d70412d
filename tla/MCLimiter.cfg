SPECIFICATION FairSpec
CONSTANTS
    Max = 2
    Window = 3
    Timeout = 1
    Horizon = 7
INVARIANTS
    TypeOK
    LocalCeiling
    UpstreamSlack
    UpstreamWithinTimeout
PROPERTIES
    SleepIsBounded
    SleepEnds
    ImplementsWindow
CHECK_DEADLOCK FALSE
