\* Two claims that the code does not keep (tlc -continue).
SPECIFICATION Spec
CONSTANTS
    scheduler = scheduler
    sync = sync
    restorer = restorer
    Ids = {1}
    Pushers = {scheduler, sync}
    Scheduler = scheduler
    Restorer = restorer
    MaxFaults = 1
    MaxForeign = 1
    MaxCalls = 2
CHECK_DEADLOCK FALSE
INVARIANTS SnapshotIsOne PresetsSurvive
