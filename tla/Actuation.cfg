SPECIFICATION FairSpec
CONSTANTS
    a = a
    b = b
    old = old
    p = p
    w = w
    drained = drained
    none = none
    u = u
    Servers = {1, 2}
    Requests = {1, 2}
    NoRequest = none
    ReplicaSets = {a, b, old}
    RSOwner <- MCRSOwner
    Selected <- MCSelected
    Pods = {p, w, drained}
    Owner <- MCOwner
    Draining = {drained}
    Decisions <- MCDecisions
    First <- MCFirst
    Unlabelled = u
    Bare = {}
    Backends = {"server-sim", "llmd"}
    MaxChurn = 2
INVARIANTS TypeOK OwnAllocation
PROPERTIES DoneMeansApplied Converges
