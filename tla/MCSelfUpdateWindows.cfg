SPECIFICATION FairSpec
CONSTANTS
    Versions = {1, 3}
    First = 1
    Bad = {3}
    Operators = {op}
    AutoLoop = {}
    Platforms = {"windows"}
    Overlaps = {FALSE}
    DiskErrors = 0
    Threshold = 3
    MaxUpdates = 1
    MaxCrashes = 0
CHECK_DEADLOCK FALSE
PROPERTIES FailuresRollBack
