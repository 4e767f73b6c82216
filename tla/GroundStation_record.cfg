CONSTANTS
    Connections = {k1}
    Sockets = {s1, s2}
    Characters = {a}
    Positions = {1}
    MaxFailures = 0
    None = None
SPECIFICATION Spec
SYMMETRY Symmetry
INVARIANTS
    OpenSocketsHaveRecords
CHECK_DEADLOCK FALSE
