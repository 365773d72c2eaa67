SPECIFICATION TransfersSpec
CONSTANTS
    BLOCK_SIZE = 2
    MaxFile = 2
    Bytes = {0, 1}
    Now = 3
    Starts <- DryStarts
    Edits <- MCEdits
    Contents <- MCContents
    Faults = 0
    MaxEdits = 0
    MaxCalls = 0
    N = 2
    Sized = {1}
    Directions = {"push"}
    Parallel = 1
    MaxRuns = 0
    Errors = 0
PROPERTY DryRunChangesNothing
CHECK_DEADLOCK FALSE
