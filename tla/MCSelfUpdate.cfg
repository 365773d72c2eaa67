SPECIFICATION FairSpec
CONSTANTS
    Versions = {1, 2, 3}
    First = 1
    Bad = {3}
    Operators = {op}
    AutoLoop = {auto}
    Platforms = {"windows", "systemd", "plain"}
    Overlaps = {FALSE, TRUE}
    DiskErrors = 1
    Threshold = 3
    MaxUpdates = 2
    MaxCrashes = 2
CHECK_DEADLOCK FALSE
INVARIANTS Recoverable
PROPERTIES SoundRollback BadIsRolledBack
