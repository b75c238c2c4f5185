SPECIFICATION Spec
CONSTANTS
    p1 = p1
    p2 = p2
    Procs <- MCProcs
    Stallers <- MCStallers
    LeaseDuration = 2
    RenewDeadline = 1
    CampaignTimeout = 1
    MaxTerms = 2
    MaxRestarts <- MCRestarts
    MaxLate = 1
    MaxRev = 4
INVARIANT EntryIntact
PROPERTY Implements
CHECK_DEADLOCK FALSE
