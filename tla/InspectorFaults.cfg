\* Crashes, restores and failed reads around the inspection of one host with two
\* rules, one of them satisfied by silence.
SPECIFICATION FaultSpec
CONSTANTS
    h1 = h1
    w1 = w1
    w2 = w2
    Hosts = {h1}
    Rules = {1, 2}
    HostOf <- TwoRules
    Inverted = {2}
    Soft = {}
    Targets = {}
    Workers = {w1}
    Keep = 0
    MaxIncidents = 1
INVARIANTS VerdictRepairsAlerts
