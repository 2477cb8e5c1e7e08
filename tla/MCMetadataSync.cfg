\* A root file, a nested one and a malformed one; failures and a restart.
CONSTANTS
    a = a
    n = n
    m = m
    Files = {a, n, m}
    RootFiles = {a, m}
    Malformed = {m}
    PageSize = 2
    MaxChanges = 3
    MaxFaults = 1
    MaxRestarts = 1
SPECIFICATION FairSpec
INVARIANTS FeedApplied ListingStored
PROPERTIES Converges StopEnds
CHECK_DEADLOCK FALSE
