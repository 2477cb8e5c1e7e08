\* A file changes after it was opened.
CONSTANTS
    NoFile = NoFile
    Files = {1}
    Paths = {1}
    BufSize = 2
    MaxVer = 2
    MaxDeletes = 0
    MaxFaults = 0
    MaxOpens = 1
    MaxMounts = 1
SPECIFICATION Spec
INVARIANTS SyncedMeansCurrent
CHECK_DEADLOCK FALSE
