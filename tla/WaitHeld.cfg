SPECIFICATION McpSpec
CONSTANTS
    MaxCalls = 1
    MaxListCalls = 1
    Capacity = 2
    MaxMcpFaults = 0
    MaxRestarts = 1
PROPERTY NoWaitIsHeldForever
CHECK_DEADLOCK FALSE
