SPECIFICATION Spec
CONSTANTS
    Worker = {w1, w2, w3}
    None = None
    MaxTasks = 4
INVARIANT EachTaskOnce
PROPERTIES TasksRun ShutdownReturnsUnlessRaced
CHECK_DEADLOCK FALSE
