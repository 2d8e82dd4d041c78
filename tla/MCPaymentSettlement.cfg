SPECIFICATION Spec
CONSTANTS
    p1 = p1
    p2 = p2
    r1 = r1
    r2 = r2
    Payments = {p1, p2}
    Requests = {r1, r2}
    Total = 2
    Tiers = {0, 1, 2}
    MayFail = TRUE
    NoRequest = NoRequest
SYMMETRY Symmetry
INVARIANTS
    SettlementSound
    RefundClaimsTrue
    CoinsReturnedOnce
CHECK_DEADLOCK FALSE
