SPECIFICATION McpSpec
CONSTANTS
    Max = 1
    Window = 2
    Timeout = 0
    Horizon = 2
    Frames <- MCFrames
    MaxFrames = 3
    InCap = 2
    OutCap = 1
    HasKey = TRUE
    PerCall = 2
INVARIANTS
    NotificationsSilent
CHECK_DEADLOCK FALSE
