\* The restart closes the guard before the database.
SPECIFICATION Spec
CONSTANTS
    Procs = {1, 2}
    Stops = {"restart"}
    LockFails = FALSE
INVARIANT OneDatabaseUser
CHECK_DEADLOCK FALSE
