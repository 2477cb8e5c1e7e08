\* Nothing fails; a change, before or after the first refresh.
CONSTANTS
    t1 = t1
    t2 = t2
    f = f
    g = g
    d = d
    Files = {f, g, d}
    Tasks = {t1, t2}
    Subjects = {f}
    Types = {"Download"}
    MaxOps = 0
    MaxClock = 0
    RootFiles = {f, g, d}
    Folders = {d}
    Native = {g}
    NoFile = NoFile
    MaxChanges = 2
    MaxFaults = 0
SPECIFICATION MCSpec
PROPERTIES RefreshConverges
CHECK_DEADLOCK FALSE
