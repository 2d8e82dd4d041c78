SPECIFICATION CredentialsSpec
CONSTANTS
    u1 = u1
    u2 = u2
    c1 = c1
    c2 = c2
    r1 = r1
    r2 = r2
    Users = {u1, u2}
    Contacts = {c1, c2}
    Requests = {r1, r2}
    OtpValid = 1
    ResendWait = 1
    LockoutTime = 1
    MaxAttempts = 2
    MaxCodes = 2
    MaxHandlers = 4
    MaxTime = 1
    None = None
    Guessers = {g1, g2}
    MaxGuesses = 3
    LockMinutes = 1
    ResendSeconds = 0
    PinMinutes = 2
    LastPin = 2
    LastMinute = 3
SYMMETRY Symmetry
INVARIANTS
    CredentialsSound
    ContactProven
    AttemptsBounded
CHECK_DEADLOCK FALSE
