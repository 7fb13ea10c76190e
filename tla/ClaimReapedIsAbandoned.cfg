\* lastUsed is when a request began.
SPECIFICATION PoolSpec
CONSTANTS
    Requests = {a}
    Reaps = TRUE
    MaxRunners = 2
PROPERTY ReapedIsAbandoned
CHECK_DEADLOCK FALSE
