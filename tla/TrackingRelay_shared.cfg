CONSTANTS
    k1 = k1
    k2 = k2
    a = a
    b = b
    Connections = {k1, k2}
    Characters = {a, b}
    Allowed <- TwoAccounts
    Messages <- SharedMessages
    MaxMessages = 3
    ConnectionStoreTtl = FALSE
    Absent = Absent
    Blank = Blank
    Nobody = Nobody
SPECIFICATION Spec
INVARIANTS
    FeedAuthorised
    StoreAuthorised
CHECK_DEADLOCK FALSE
