\* Two keys on one host, a host clock that is ahead, one command cut off or restart.
SPECIFICATION Spec
CONSTANTS
    k1 = k1
    k2 = k2
    own = own
    Keys = {k1, k2}
    Own = {own}
    Rows = {1}
    RowOf <- SameRow
    TTL = 1
    Stale = 3
    Ahead = 1
    MaxCuts = 1
INVARIANTS LiveKeyStays NoEditIsLost TornByOrphans
           KeyHasRemover HolderWaits
PROPERTY HandedKeyWorks
CONSTRAINT InOrder
CHECK_DEADLOCK FALSE
