SPECIFICATION Spec
CONSTANTS
    b1 = b1
    b2 = b2
    r1 = r1
    r2 = r2
    Bookings = {b1, b2}
    Requests = {r1, r2}
    Slots <- MCSlots
    Closures <- MCClosures
    Handlers = {"customer_cancel", "pin_miss", "arrive", "start", "on_my_way", "missed"}
    DayLength = 12
    MaxTime = 2
    MinAdvance = 1
    OnMyWayWindow = 1
    MissedGrace = 0
    ResponseWindow = 1
    NoSlot = NoSlot
    NoBooking = NoBooking
    NoRequest = NoRequest
SYMMETRY Symmetry
INVARIANT ClaimedSlotsDisjoint
PROPERTY EnRouteSlotFixed KeepsDiary
CHECK_DEADLOCK FALSE
