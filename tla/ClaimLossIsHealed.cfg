\* The second loss is not healed.
SPECIFICATION PoolSpec
CONSTANTS
    Requests = {a}
    Reaps = FALSE
    MaxRunners = 2
PROPERTY LossIsHealed
CHECK_DEADLOCK FALSE
