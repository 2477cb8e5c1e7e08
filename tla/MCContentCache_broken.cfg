\* One caller; one failing call, no crash.
CONSTANTS
    t1 = t1
    t2 = t2
    f = f
    g = g
    Free = Free
    Threads = {t1}
    Files = {f, g}
    Native = {g}
    MaxFaults = 1
    MaxCrashes = 0
SPECIFICATION Spec
INVARIANTS OkMeansDownloaded
