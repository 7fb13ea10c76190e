\* One host, a scheduler and a request, one failure.
SPECIFICATION FairSpec
CONSTANTS
    scheduler = scheduler
    sync = sync
    restorer = restorer
    Ids = {1}
    Pushers = {scheduler, sync}
    Scheduler = scheduler
    Restorer = restorer
    MaxFaults = 1
    MaxForeign = 1
    MaxCalls = 2
INVARIANTS RecordedIsStored SnapshotsFit
PROPERTIES BackupsAreInOrder BackupHappens
CHECK_DEADLOCK FALSE
