SPECIFICATION Spec
CONSTANTS
    c1 = c1
    c2 = c2
    c3 = c3
    Conns = {c1, c2, c3}
    ServerCaps <- MCCaps
    Scenarios <- MCScenarios
    MaxSessions = 2
    MaxCopies = 2
    MaxClipFails = 1
CHECK_DEADLOCK FALSE
INVARIANTS AnswersTrue CountsAreTrue
PROPERTIES CommandEnds ClipboardsAgree
