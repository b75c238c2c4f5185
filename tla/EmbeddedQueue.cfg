SPECIFICATION Spec
CONSTANTS
    Consumers = {"worker", "hub"}
    MaxOpens = 2
    MaxSeq = 5
    MaxClock = 2
    MaxLost = 1
    Scenes <- MCScenes
INVARIANTS
    OpenIsHeld
PROPERTIES
    PurgesOnlySettled
    SweepCatchesUp
