\* Two claims that the code does not keep (tlc -continue): two host rows name one machine, and
\* an administrator edits the file.
SPECIFICATION Spec
CONSTANTS
    k1 = k1
    k2 = k2
    own = own
    Keys = {k1, k2}
    Own = {own}
    Rows = {1, 2}
    RowOf <- TwoRows
    TTL = 1
    Stale = 3
    Ahead = 1
    MaxCuts = 0
INVARIANTS EditHolds MutexGuardsFile
CHECK_DEADLOCK FALSE
