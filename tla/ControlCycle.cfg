SPECIFICATION FairSpec
CONSTANTS
    t = t
    u = u
    nobody = nobody
    p = p
    q = q
    Ticker = t
    Invokers = {u}
    Nobody = nobody
    Pairs = {p, q}
    Seeded = {}
    Dynamic = FALSE
    TunerEnabled = TRUE
    CalibrationEnabled = TRUE
    WarmUpTimeout = 3
    MaxFaults = 2
INVARIANTS TypeOK OwnSnapshot HoldBounded CalibratedIsUsed
PROPERTIES LearnedKept KeepsDeciding CallsReturn
