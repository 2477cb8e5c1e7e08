\* Two mounts on one database: they start, allocate, remove and stop at any time,
\* together or one after the other.
CONSTANTS
    m1 = m1
    m2 = m2
    f = f
    g = g
    Root = Root
    NoFile = NoFile
    Managers = {m1, m2}
    Files = {f, g}
    MaxOpens = 4
    MaxRemoves = 2
    MaxInode = 6
SPECIFICATION Spec
INVARIANTS AnswersStay NoConflict
CHECK_DEADLOCK FALSE
