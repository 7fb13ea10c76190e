\* Two first requests each store an entry.
SPECIFICATION PoolSpec
CONSTANTS
    Requests = {a, b}
    Reaps = FALSE
    MaxRunners = 2
INVARIANT NothingLeaks
CHECK_DEADLOCK FALSE
