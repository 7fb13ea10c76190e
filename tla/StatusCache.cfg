\* Two handlers at a time, and the ticker.
SPECIFICATION FairCacheSpec
CONSTANTS
    Handlers = {a, b}
    MaxChanges = 2
INVARIANTS SettledIsCurrent
PROPERTY CatchesUp
CHECK_DEADLOCK FALSE
