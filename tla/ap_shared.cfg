CONSTANTS
    c1 = c1
    c2 = c2
    c3 = c3
    s1 = s1
    s2 = s2
    Calls = {c1, c2, c3}
    Scopes = {s1, s2}
    Family <- MCFamily
    Execs = {1, 2}
    None = None
    Shapes <- SharedShapes
    MaxCrashes = 0
SPECIFICATION Spec
PROPERTY OnlyApprovedCallsRun
CHECK_DEADLOCK FALSE
