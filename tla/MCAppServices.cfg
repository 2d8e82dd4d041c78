SPECIFICATION ServicesSpec
CONSTANTS
    Sessions = {customer, artist}
    Messages = {m1, m2}
    MaxConversations = 2
    MaxTickets = 3
    MaxOpenTickets = 2
    Handlers = {h1, h2}
    Runs = {n1, n2}
    Period = 10
    Skip = 1280
    First <- MCFirst
    Addresses = {d1, d2, d3, d4}
    Editors = {e1, e2}
    MaxAddresses = 2
    MaxFiles = 3
    Uploaders = {u1, u2}
    MaxRows = 3
    PageRows = 1
    LastTick = 1
    Values = {0, 1}
    MaxShifts = 1
SYMMETRY Symmetry
INVARIANTS
    ServicesTypeOK
    LiveIsTrue
    RemindedInTime
    AddressLimit
    FilesAccounted
    WalkMissesFew
PROPERTIES
    ClosedStaysClosed
CHECK_DEADLOCK FALSE
