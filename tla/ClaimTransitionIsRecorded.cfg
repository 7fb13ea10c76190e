\* TransitionIsRecorded, which a crash between two calls breaks.
SPECIFICATION FaultSpec
CONSTANTS
    h1 = h1
    w1 = w1
    w2 = w2
    Hosts = {h1}
    Rules = {1}
    HostOf <- OneRule
    Inverted = {}
    Soft = {}
    Targets = {}
    Workers = {w1}
    Keep = 0
    MaxIncidents = 2
INVARIANT TransitionIsRecorded
