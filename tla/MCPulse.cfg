SPECIFICATION Spec
CONSTANTS
    Accounts = {"nobody", "key1", "key2"}
    AuthScope <- MCAuthScope
    Lists <- MCLists
    Jobs <- MCJobs
    LastRevision = 1
    UpstreamPage = 2
    DefaultLimit = 2
    IntBits = 4
    TTL = 0
    Timeout = 1
    Horizon = 2
    None = None
INVARIANTS
    ExactIsTrue
    EmbeddedIsRecent
    WalkReachesAll
    PanicIsOverflow
    WalkIsShort
PROPERTIES
    WalkEnds
CHECK_DEADLOCK FALSE
