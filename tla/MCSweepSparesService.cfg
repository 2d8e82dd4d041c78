SPECIFICATION Spec
CONSTANTS
    r1 = r1
    r2 = r2
    Requests = {r1, r2}
    Start = 1
    End = 2
    OnMyWayWindow = 0
    MissedGrace = 1
    PinBuffer = 1
    MaxTime = 4
    MaxPins = 2
PROPERTY SweepSparesService
CHECK_DEADLOCK FALSE
