CONSTANTS
    g = g
    h = h
    x = x
    mine = mine
    other = other
    Keys = {g, h, x}
    Accounts = {mine, other}
    Owner <- TwoAccounts
    Existing = {g}
    MaxRequests = 3
    MaxFailures = 1
    None = None
SPECIFICATION Spec
INVARIANTS
    TypeOK
    VerifiedIsProved
    AttemptConsumes
PROPERTIES
    RequestsAnswered
CHECK_DEADLOCK FALSE
