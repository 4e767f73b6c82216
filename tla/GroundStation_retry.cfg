CONSTANTS
    Connections = {k1}
    Sockets = {s1, s2}
    Characters = {a}
    Positions = {1}
    MaxFailures = 1
    None = None
SPECIFICATION Spec
PROPERTIES
    AbandonedSessionsEventuallyExpire
    PlayersLeave
CHECK_DEADLOCK FALSE
