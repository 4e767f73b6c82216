CONSTANTS
    a = a
    b = b
    Connections = {k1}
    Sockets = {s1, s2}
    Characters = {a, b}
    Allowed <- OneCharacter
    Messages <- SomeMessages
    MaxMessages = 2
    MaxInFlight = 1
    MaxFailures = 1
    Absent = Absent
    Blank = Blank
    Nobody = Nobody
SPECIFICATION Spec
SYMMETRY SocketSymmetry
CONSTRAINT Budget
INVARIANTS
    PlatformAuthorised
    ShownIsRecorded
    SessionsKept
PROPERTIES
    StationKept
CHECK_DEADLOCK FALSE
