\* Two claims that the code does not keep (tlc -continue).
SPECIFICATION USpec
CONSTANTS
    Procs = {1, 2}
    Stops = {"signal", "restart"}
    LockFails = TRUE
    Applies = {1, 2}
    Platforms = {"unix", "windows"}
CHECK_DEADLOCK FALSE
INVARIANT SwapIsAtomic
PROPERTY OldIsCleaned
