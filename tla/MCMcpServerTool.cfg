SPECIFICATION McpSpec
CONSTANTS
    Max = 1
    Window = 2
    Timeout = 0
    Horizon = 2
    Frames <- MCToolFrames
    MaxFrames = 3
    InCap = 2
    OutCap = 1
    HasKey = TRUE
    PerCall = 2
INVARIANTS
    ToolCeiling
CHECK_DEADLOCK FALSE
