\* The path is removed after the lock is released.
SPECIFICATION Spec
CONSTANTS
    Procs = {1, 2, 3}
    Stops = {"signal"}
    LockFails = FALSE
INVARIANT SoleHolder
CHECK_DEADLOCK FALSE
