CONSTANTS
    q1 = q1
    q2 = q2
    e1 = e1
    e2 = e2
    Questions = {q1}
    Execs = {e1}
    None = None
    Shapes <- GateShapes
    MaxTasks = 1
    MaxVersion = 1
    MaxCrashes = 0
SPECIFICATION Spec
PROPERTY ResumedWasApproved
CHECK_DEADLOCK FALSE
