\* Two tasks, the scopes of the configuration and one of them alone.
CONSTANTS
    t1 = t1
    t2 = t2
    Tasks = {t1, t2}
    ScopeSets <- MCScopeSets
    MaxTokens = 3
    MaxFlips = 1
    MaxRestarts = 1
SPECIFICATION Spec
SYMMETRY Symmetry
INVARIANTS NoStaleToken StoreIsNewest
CHECK_DEADLOCK FALSE
