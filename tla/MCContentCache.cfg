\* Two callers of an ordinary and a cloud-native file; a failing call and a crash.
CONSTANTS
    t1 = t1
    t2 = t2
    f = f
    g = g
    Free = Free
    Threads = {t1, t2}
    Files = {f, g}
    Native = {g}
    MaxFaults = 1
    MaxCrashes = 1
SPECIFICATION FairSpec
INVARIANTS OkMeansPresent SyncingMeansDownloading SyncedMeansFull
PROPERTIES FullStaysFull CallsReturn
