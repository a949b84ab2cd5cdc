SPECIFICATION FairSpec
CONSTANTS
    h1 = h1
    h2 = h2
    u1 = u1
    u2 = u2
    Updates = {u1, u2}
    Nobody = nobody
    Handlers = {h1, h2}
    Points = 3
    Batches = {0, 4, 8}
    Budget = 1
    MaxFaults = 2
INVARIANTS TypeOK CalibratedInForce OwnMeasurement
PROPERTIES SweepReturns
