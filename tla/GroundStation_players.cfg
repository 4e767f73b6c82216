CONSTANTS
    Connections = {k1, k2}
    Sockets = {s1, s2}
    Characters = {a}
    Positions = {1}
    MaxFailures = 1
    None = None
SPECIFICATION Spec
SYMMETRY Symmetry
INVARIANTS
    TypeOK
    LiveSessionsKept
    DrainedSessionsExpire
    AbandonedSessionsExpire
    ServedAreOpen
CHECK_DEADLOCK FALSE
