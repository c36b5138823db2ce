SPECIFICATION McpSpec
CONSTANTS
    MaxCalls = 2
    MaxListCalls = 1
    Capacity = 2
    MaxMcpFaults = 1
    MaxRestarts = 1
INVARIANTS EffectsAreGranted CaughtUpIsExact
PROPERTIES AsksAreAnswered WaitsAreLetGo
CHECK_DEADLOCK FALSE
