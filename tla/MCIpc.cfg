\* Three daemons that start, stop and are killed at any time; a connection with three
\* requests, timeouts, a failing listener, kills on either side.
CONSTANTS
    d1 = d1
    d2 = d2
    d3 = d3
    Daemons = {d1, d2, d3}
    MaxStarts = 6
    MaxRequests = 3
SPECIFICATION MCSpec
INVARIANTS Reachable StaleNeverBlocks NotAllFail LagNeedsTimeouts EachOnce RequestsHandled
PROPERTY ShutdownEnds
CHECK_DEADLOCK FALSE
