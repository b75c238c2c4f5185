SPECIFICATION Spec
CONSTANTS
    Procs = {p1, p2}
    Writers = {p1}
    Tables = {"t"}
    Scopes = {"s"}
    Reqs = {r1, r2}
    Asks <- MCAsks
    PendingMax = 1
    Threshold = 1
    MaxChanges = 2
    MaxPrunes = 2
    Scenes <- MCScenes
SYMMETRY Alike
INVARIANTS NoStaleHit StaleIsOwed
CHECK_DEADLOCK FALSE
