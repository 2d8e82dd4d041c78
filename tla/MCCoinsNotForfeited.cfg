SPECIFICATION Spec
CONSTANTS
    p1 = p1
    p2 = p2
    r1 = r1
    r2 = r2
    Payments = {p1, p2}
    Requests = {r1, r2}
    Total = 3
    Tiers = {0, 1}
    MayFail = FALSE
    NoRequest = NoRequest
SYMMETRY Symmetry
INVARIANT CoinsNotForfeited
CHECK_DEADLOCK FALSE
