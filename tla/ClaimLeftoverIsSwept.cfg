\* One key, and a restart before its timer has fired.
SPECIFICATION FairSpec
CONSTANTS
    k1 = k1
    k2 = k2
    own = own
    Keys = {k1}
    Own = {}
    Rows = {1}
    RowOf <- SameRow
    TTL = 1
    Stale = 3
    Ahead = 1
    MaxCuts = 1
PROPERTY LeftoverIsSwept
CHECK_DEADLOCK FALSE
