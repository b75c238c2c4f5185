SPECIFICATION BackoffLiveSpec
CONSTANTS
    l1 = l1
    l2 = l2
    t1 = t1
    t2 = t2
    r1 = r1
    r2 = r2
    Pool = Pool
    Loops = {l1, l2}
    TableKey <- MCTwoTables
    Cap <- MCCap
    Rows = {r1, r2}
    LoopOf <- MCLoopOf
    RetryBase = 2
    MaxFailures = 2
INVARIANTS
    OpenCounted
    NoLeakedProbe
    WaitWithinCap
PROPERTY
    Recovers
