\* Two requests, losses, evictions, the reaper and the deletion of the host.
SPECIFICATION FairPoolSpec
CONSTANTS
    Requests = {a, b}
    Reaps = TRUE
    MaxRunners = 2
INVARIANTS PooledIsNotClosed
PROPERTY AbandonedIsReaped
CHECK_DEADLOCK FALSE
