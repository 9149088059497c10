CONSTANTS
    a = a
    b = b
    Members = {a, b}
    MaxMsg = 2
    Audience <- BusyAudience
    Modes = {"parallel"}
    MaxFaults = 0
SPECIFICATION Spec
INVARIANT DroppedAlertsAreHeard
CHECK_DEADLOCK FALSE
