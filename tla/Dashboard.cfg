SPECIFICATION FairSpec
CONSTANTS
    s = s
    u = u
    g = g
    h = h
    none = none
    Torn = torn
    NoRecord = norec
    NoAcc = none
    Plans <- MCPlans
    PerfPairs <- MCPerfPairs
    LogEnv = "unset"
    Hostings = {"local", "pod"}
    MaxCycles = 3
    MaxFaults = 2
INVARIANTS CostMatchesReplicas
PROPERTIES RefreshComplete NeverBlank EventuallyShown
CHECK_DEADLOCK FALSE
