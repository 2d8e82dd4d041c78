SPECIFICATION FairSpec
CONSTANTS
    b1 = b1
    b2 = b2
    r1 = r1
    r2 = r2
    Bookings = {b1, b2}
    Requests = {r1, r2}
    Slots <- MCProgressSlots
    Closures <- MCProgressClosures
    Handlers = {"pin_miss"}
    DayLength = 12
    MaxTime = 1
    MinAdvance = 1
    OnMyWayWindow = 1
    MissedGrace = 0
    ResponseWindow = 1
    NoSlot = NoSlot
    NoBooking = NoBooking
    NoRequest = NoRequest
PROPERTY ClaimsFinish
CHECK_DEADLOCK FALSE
