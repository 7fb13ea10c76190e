\* Two claims that the code does not keep (tlc -continue).
SPECIFICATION Spec
CONSTANTS
    Presets = {p1}
    Requests = {}
    Explicit = {}
    Private = {}
    Conditions = {"clear", "filtered", "unroutable"}
    Interval = 1
    Reminder = 2
    MaxRestarts = 0
INVARIANT HealthyIsMeasured
PROPERTY FilteredIsNoIncident
