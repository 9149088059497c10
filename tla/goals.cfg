CONSTANTS
    q1 = q1
    q2 = q2
    Questions = {q1, q2}
    e1 = e1
    e2 = e2
    Execs = {e1, e2}
    None = None
    Shapes <- MCShapes
    MaxTasks = 2
    MaxVersion = 2
    MaxCrashes = 1
SPECIFICATION Spec
SYMMETRY ExecSymmetry
INVARIANTS
    TypeOK
    StartedTasksAreReady
    CompletedIsDone
    OpenQuestionsAreCurrent
    NoPartialResume
    WaitingHasQuestion
CHECK_DEADLOCK FALSE
