SPECIFICATION Spec
CONSTANTS
    b1 = b1
    b2 = b2
    o1 = o1
    o2 = o2
    r1 = r1
    r2 = r2
    Bookings = {b1, b2}
    Price <- MCPrice
    Orders = {o1, o2}
    Requests = {r1, r2}
    Tiers = {0, 1, 2}
SYMMETRY Symmetry
INVARIANTS
    GroupSound
    PaidTogether
    ShareRefundTrue
CHECK_DEADLOCK FALSE
