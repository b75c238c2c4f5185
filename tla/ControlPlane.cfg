SPECIFICATION Spec
CONSTANTS
    Docs <- MCDocs
    Worlds <- MCWorlds
    Default = "0"
    MaxDuration = 8
INVARIANTS
    WithinCeiling
    AdoptedMeansReconciled
    SchemaOfThePool
    AnswersOfThePool
    LimitsWithinAckWait
    LivezTruthful
PROPERTIES
    WatchConverges
CHECK_DEADLOCK FALSE
