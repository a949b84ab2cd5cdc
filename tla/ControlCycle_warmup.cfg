SPECIFICATION Spec
CONSTANTS
    t = t
    u = u
    nobody = nobody
    p = p
    q = q
    Ticker = t
    Invokers = {u}
    Nobody = nobody
    Pairs = {p}
    Seeded = {}
    Dynamic = FALSE
    TunerEnabled = TRUE
    CalibrationEnabled = FALSE
    WarmUpTimeout = 0
    MaxFaults = 0
INVARIANTS NeverOptimizesInWarmUp
