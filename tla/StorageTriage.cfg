\* Two calls that respect the throttle and a forced one.
SPECIFICATION FairSpec
CONSTANTS
    Scans = {s1, s2, s3}
    Forced = {s3}
    MaxKills = 1
INVARIANTS OneScan SnapshotIsLast
PROPERTIES CancelFrees
CHECK_DEADLOCK FALSE
