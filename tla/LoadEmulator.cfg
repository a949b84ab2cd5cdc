SPECIFICATION FairSpec
CONSTANTS
    d = d
    e = e
    p = p
    q = q
    Deps = {d, e}
    Pods = {p, q}
    Owner <- MCOwner
    Allocations = {1, 2}
    Nominals = {1, 2}
    Multipliers = {1, 3}
    Draws = {3}
    NomTokens <- MCNomTokens
    TokenDraws = {2}
    RangeFactor = 2
    MaxChurn = 2
INVARIANTS TypeOK LastPatchStands BaselineIsNominal
PROPERTIES LoadReachesPods
