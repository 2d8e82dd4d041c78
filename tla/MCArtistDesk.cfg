SPECIFICATION DeskSpec
CONSTANTS
    Packages = {p1, p2}
    AddOns = {x1}
    Services = {s1, s2}
    Areas = {a1, a2}
    Items = {i1, i2}
    Brands = {b1, b2}
    BrandRequests = {q1, q2}
    Names = {n1, n2}
    Accounts = {c1, c2}
    Workers = {w1, w2}
    MaxSamples = 1
    MaxPortfolio = 1
    MaxPending = 1
    None = None
    Documents = {d1, d2}
    Bookings = {k1}
    Requests = {r1, r2}
    Visits = {v1, v2}
    Clients = {k2, k3}
    Devices = {t1}
SYMMETRY Symmetry
INVARIANTS
    DeskSound
    ApprovedOnceVerified
    SubmissionVisible
    FiguresHonest
PROPERTIES
    DecidedOnce
CHECK_DEADLOCK FALSE
