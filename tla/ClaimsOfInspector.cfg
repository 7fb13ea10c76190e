\* Four claims that the code does not keep (tlc -continue).
SPECIFICATION Spec
CONSTANTS
    h1 = h1
    h2 = h2
    w1 = w1
    w2 = w2
    Hosts = {h1}
    Rules = {1}
    HostOf <- OneRule
    Inverted = {}
    Soft = {}
    Targets <- TargetsOfOne
    Workers = {w1}
    Keep = 2
    MaxIncidents = 2
INVARIANTS MetRuleIsOperational OutageNeedsTwoFailures
PROPERTIES DriftIsReal OverrunIsDown
