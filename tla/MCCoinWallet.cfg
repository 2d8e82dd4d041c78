SPECIFICATION FairSpec
CONSTANTS
    b1 = b1
    b2 = b2
    h1 = h1
    h2 = h2
    Bookings = {b1, b2}
    Handlers = {h1, h2}
    CashbackCoins = {2}
    TierCosts = {1, 3}
    ExpiryDays = 1
    MaxTime = 2
    MaxRows = 5
INVARIANTS
    TypeOK
    LedgerChained
    BalanceBacked
    ReversedOnce
PROPERTIES
    OldestFirst
    LapsedCoinsLeave
    KeepsAccount
CHECK_DEADLOCK FALSE
