CONSTANTS
    k1 = k1
    k2 = k2
    a = a
    b = b
    Connections = {k1}
    Characters = {a, b}
    Allowed <- OneAccount
    Messages <- SwitchMessages
    MaxMessages = 3
    ConnectionStoreTtl = FALSE
    Absent = Absent
    Blank = Blank
    Nobody = Nobody
SPECIFICATION Spec
INVARIANTS
    FeedNamesLatest
CHECK_DEADLOCK FALSE
