\* Three claims that the code does not keep (tlc -continue).
SPECIFICATION Spec
CONSTANTS
    Scans = {s1, s2}
    Forced = {s2}
    MaxKills = 1
CHECK_DEADLOCK FALSE
INVARIANTS NoParallelScans ResetHolds SnapshotIsWhole
