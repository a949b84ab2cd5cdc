SPECIFICATION Spec
CONSTANTS
    a = a
    b = b
    old = old
    p = p
    w = w
    drained = drained
    none = none
    u = u
    Servers = {1, 2}
    Requests = {1}
    NoRequest = none
    ReplicaSets = {a, b, old}
    RSOwner <- MCRSOwner
    Selected <- MCSelected
    Pods = {p, w, drained}
    Owner <- MCOwner
    Draining = {}
    Decisions <- MCDecisions
    First <- MCFirst
    Unlabelled = u
    Bare = {1}
    Backends = {"server-sim"}
    MaxChurn = 1
INVARIANTS OptionalLabel
