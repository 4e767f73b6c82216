CONSTANTS
    k1 = k1
    k2 = k2
    a = a
    b = b
    Connections = {k1}
    Characters = {a, b}
    Allowed <- OneAccount
    Messages <- KindMessages
    MaxMessages = 2
    ConnectionStoreTtl = TRUE
    Absent = Absent
    Blank = Blank
    Nobody = Nobody
SPECIFICATION Spec
INVARIANTS
    TypeOK
    CountedSessionsExpire
PROPERTIES
    HandlersFinish
CHECK_DEADLOCK FALSE
