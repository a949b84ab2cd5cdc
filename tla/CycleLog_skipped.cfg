SPECIFICATION Spec
CONSTANTS
    s = s
    u = u
    g = g
    h = h
    none = none
    Torn = torn
    NoRecord = norec
    NoAcc = none
    Plans <- MCPlans
    PerfPairs <- MCPerfPairs
    LogEnv = "path"
    Hostings = {"local"}
    MaxCycles = 3
    MaxFaults = 2
INVARIANT OneLinePerCycle
CHECK_DEADLOCK FALSE
