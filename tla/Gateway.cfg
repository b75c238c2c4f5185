SPECIFICATION Spec
CHECK_DEADLOCK FALSE
CONSTANTS
    Rank <- MCRank
    Meaning <- MCMeaning
    Instant <- MCInstant
    MaxDigits = 4
    BindUnsafe = {"q?"}
    FoldCase <- MCFoldCase
    AggFns = {"count", "max", "min"}
    DefaultMaxRows = 3
    Now = 5
    Conns = {"c1", "c2"}
    Roles = {"", "viewer", "member", "admin"}
    Kinds <- MCKinds
    Worlds <- MCWorlds
INVARIANTS
    Confined
    WriteConfined
    StreamWithinQuery
    Labelled
    NoSilentGap
    UnservedEnds
    WheelTurns
