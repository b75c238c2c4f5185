SPECIFICATION Spec
CONSTANTS
    c1 = c1
    c2 = c2
    a = a
    b = b
    Clients = {c1}
    Ids = {a, b}
    Windows <- MCWindows
    Retentions = {0, 1, 2, 6}
    Lease = 2
    MaxInt = 7
    MaxTime = 6
    Scenes <- MCOutage
INVARIANTS
    StoredOnce
CHECK_DEADLOCK FALSE
