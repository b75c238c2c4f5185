SPECIFICATION Spec
CONSTANTS
    g1 = g1
    g2 = g2
    g3 = g3
    b1 = b1
    p1 = p1
    t1 = t1
    t2 = t2
    Msgs = {g1, g2, b1, p1}
    Kind <- MCKinds
    Tables = {t1}
    Table <- MCOneTable
    Scope <- MCScope
    BatchLimit = 2
    Halts = FALSE
    DLQ = TRUE
    Scenes <- MCScenes
INVARIANTS
    NoRowLost
    OnlyRefusedParked
    InvalidatedFirst
    NoBatchStranded
