SPECIFICATION TransfersSpec
CONSTANTS
    BLOCK_SIZE = 2
    MaxFile = 2
    Bytes = {0, 1}
    Now = 3
    Starts <- MCStarts
    Edits <- MCEdits
    Contents <- MCContents
    Faults = 1
    MaxEdits = 1
    MaxCalls = 2
    N = 2
    Sized = {1}
    Directions = {"push", "pull"}
    Parallel = 1
    MaxRuns = 2
    Errors = 2
INVARIANTS DataIntact SuccessMeansSynced ReportIsTrue
PROPERTIES PulledIsServed CommandEnds ResumeKeepsWhole BatchEnds
CHECK_DEADLOCK FALSE
