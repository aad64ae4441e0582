\* One client, every failure.
SPECIFICATION FairSpec
CONSTANTS
    MaxBurst = 3
    SlowCleanup = TRUE
    CanTear = TRUE
    QueueCap = 2
    MaxEvents = 4
    MaxLate = 1
    MaxCrashes = 2
    MaxDrops = 1
    Clients = {"c1"}
INVARIANTS ActiveHasTask GaplessDelivery
PROPERTIES EndIsFinal Delivered
CHECK_DEADLOCK FALSE
