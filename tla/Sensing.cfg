SPECIFICATION FairSpec
CONSTANTS
    s = s
    u = u
    p1 = p1
    p2 = p2
    p3 = p3
    a1 = a1
    a2 = a2
    r1 = r1
    r2 = r2
    NoRequest = norequest
    Requests = {r1, r2}
    None = none
    Servers = {s, u}
    Pods = {p1, p2, p3}
    Owner <- MCOwner
    Choices <- MCChoices
    First <- MCFirst
    Template <- MCTemplate
    Setpoints = {s}
    Backends = {"server-sim", "llmd"}
    MaxChurn <- MCMaxChurn
INVARIANTS TypeOK RateNotPartial
PROPERTIES NeverScaledBlind EveryReplicaReports
