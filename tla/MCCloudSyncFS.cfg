\* Two files that come, go and are renamed, to paths of their own or to the same one,
\* listed one entry at a time; inodes fail in one callback; two handles, a second mount.
CONSTANTS
    NoFile = NoFile
    Files = {1, 2}
    Paths = {1, 2}
    BufSize = 1
    MaxVer = 3
    MaxDeletes = 1
    MaxFaults = 1
    MaxOpens = 2
    MaxMounts = 2
SPECIFICATION Spec
CONSTRAINT OpenOrList
INVARIANTS ReadsAsOpened ListingComplete
CHECK_DEADLOCK FALSE
