\* Two lives and two updates, one of them perhaps from the command line.
SPECIFICATION USpec
CONSTANTS
    Procs = {1, 2}
    Stops = {"signal", "restart"}
    LockFails = TRUE
    Applies = {1, 2}
    Platforms = {"unix", "windows"}
INVARIANTS SomethingRuns OneHolder OneGuardedUser
PROPERTIES StaleFileIsHarmless
CHECK_DEADLOCK FALSE
