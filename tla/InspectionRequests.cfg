\* One host, everybody who can ask for its inspection, and one client.
SPECIFICATION FairSpec
CONSTANTS
    Hosts = {h1}
    Clients = {c1}
    PoolSize = 1
    Cooldown = 1
    Interval = 2
PROPERTIES EachIsVisited CycleEnds DueIsInspected
