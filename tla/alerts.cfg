CONSTANTS
    a = a
    b = b
    Members = {a, b}
    MaxMsg = 3
    Audience <- QueueAudience
    Modes = {"serialized", "parallel"}
    MaxFaults = 1
SPECIFICATION FairSpec
INVARIANTS
    TypeOK
    DeliveredOnce
    TurnTaking
    QueueIsWatched
PROPERTIES
    QueueDrains
    DispatchedAlertsAreHeard
CHECK_DEADLOCK FALSE
