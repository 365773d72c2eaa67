SPECIFICATION Spec
CONSTANTS
    x1 = x1
    x2 = x2
    x3 = x3
    None = None
    Procs = {x1, x2, x3}
    Scenarios <- MCScenarios
CHECK_DEADLOCK FALSE
INVARIANTS OwnAnswerOnce PinnedPort
PROPERTIES GetsIn LosersHangUp
