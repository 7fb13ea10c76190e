\* One host, one rule, both published; two goroutines racing for the host.
SPECIFICATION FairSpec
CONSTANTS
    h1 = h1
    h2 = h2
    w1 = w1
    w2 = w2
    Hosts = {h1}
    Rules = {1}
    HostOf <- OneRule
    Inverted = {}
    Soft = {}
    Targets <- TargetsOfOne
    Workers = {w1, w2}
    Keep = 2
    MaxIncidents = 2
INVARIANTS AtMostOneInspection DriftIsReported
INVARIANTS VerdictMatchesRun OutageIsSustained HealthyHasNoOpenAlert
PROPERTIES LedgerSpec InspectionEnds
