SPECIFICATION Spec
CONSTANTS
    e1 = e1
    e2 = e2
    m1 = m1
    k1 = k1
    k2 = k2
    s1 = s1
    s2 = s2
    r1 = r1
    r2 = r2
    None = None
    Tokens = {t1}
    Sessions = {s1, s2}
    Keys = {k1, k2}
    Endpoints = {p1}
    Requests = {r1, r2}
    Events <- TwoEvents
    Merchants = {m1}
    MerchantOf <- MerchantOfEvent
INVARIANTS OneSessionPerLink RevokedKeyRunsOut RoutesAgree
SYMMETRY AccessSymmetry
