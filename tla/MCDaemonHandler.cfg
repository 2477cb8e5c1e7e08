\* A task of the daemon and two of a mount on the rows of two files, and a second
\* account of the same provider.
CONSTANTS
    d1 = d1
    m1 = m1
    m2 = m2
    a1 = a1
    a2 = a2
    f1 = f1
    f2 = f2
    me = me
    other = other
    DaemonTasks = {d1}
    MountTasks = {m1, m2}
    MountAccount = a1
    AccountIds = {a1, a2}
    Providers = {"GoogleDrive"}
    Emails = {me, other}
    DriveChanges <- MCDriveChanges
    ActionTx = FALSE
    SyncRoot <- MCSyncRoot
    Locals <- MCLocals
    MaxRequests = 1
    MaxJobs = 3
    MaxAdmin = 2
SPECIFICATION HandlerSpec
SYMMETRY Symmetry
INVARIANTS HandlerTypeOK NoOrphans NoLostUpdate
PROPERTY RefusedMeansMissing
CHECK_DEADLOCK FALSE
