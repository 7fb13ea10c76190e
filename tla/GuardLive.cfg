\* Three lives, every way to stop, and a lock file that may be impossible to open.
SPECIFICATION FairSpec
CONSTANTS
    Procs = {1, 2, 3}
    Stops = {"signal", "restart"}
    LockFails = TRUE
INVARIANTS TypeOK OneHolder OneGuardedUser
PROPERTIES StaleFileIsHarmless LaunchSettles
CHECK_DEADLOCK FALSE
