SPECIFICATION ServiceSpec
CONSTANTS
    Requests = {r1, r2}
    Start = 1
    End = 2
    OnMyWayWindow = 0
    MissedGrace = 1
    PinBuffer = 1
    MaxTime = 4
    MaxPins = 2
    Writers = {w1, w2}
    Slots = {1, 4}
    SlotLock = 1
    WayWindow = 0
    Grace = 1
    LastHour = 3
    Tiers = {t1, t2}
    TierValues = {2, 4}
    CoinValues = {1, 2}
    Total = 4
    Amounts = {2, 4}
    MaxCoins = 2
    DayEnd = 4
    Hours <- MCHours
    Lengths = {1, 2}
    Margins = {1}
    MaxBlocks = 1
    Appointments = {a1, a2}
    Offers = {p1, p2}
    Extras = {x1}
    Cities = {c1, c2}
    Prices = {1, 2}
    VisitCharge = 3
    NoCity = NoCity
INVARIANTS
    ServiceSound
    ProgressWitnessed
    ScreensTrue
    OfferHonoured
    AvailabilityHonest
    PageMatchesOrder
PROPERTIES
    CashbackOnlyOnCompletion
    ExpiredBookingCloses
CHECK_DEADLOCK FALSE
