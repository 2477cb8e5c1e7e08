\* Two tasks, four operations of any priority, two clock values; the engine with a file,
\* a cloud-native file and a folder.
CONSTANTS
    t1 = t1
    t2 = t2
    f = f
    g = g
    d = d
    Files = {f, g, d}
    Tasks = {t1, t2}
    Subjects = {f}
    Types = {"Download"}
    MaxOps = 4
    MaxClock = 1
    RootFiles = {f, g, d}
    Folders = {d}
    Native = {g}
    NoFile = NoFile
    MaxChanges = 3
    MaxFaults = 2
SPECIFICATION MCSpec
INVARIANTS NoOvertaking ListIsPopOrder ListingTried
PROPERTIES RefreshesForever
CHECK_DEADLOCK FALSE
