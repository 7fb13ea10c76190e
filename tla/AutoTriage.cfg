\* One private target, one operator, one restart.
SPECIFICATION FairSpec
CONSTANTS
    Presets = {p1}
    Requests = {r1}
    Explicit = {}
    Private = {p1}
    Conditions = {"clear", "slow", "narrow", "filtered", "dead", "unroutable"}
    Interval = 1
    Reminder = 2
    MaxRestarts = 1
INVARIANTS OneDiagnosis
PROPERTIES FeedSpec AlertsSettle
