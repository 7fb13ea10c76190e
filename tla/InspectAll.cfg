\* Two hosts that share a slot; the others who inspect are worker and creation.
SPECIFICATION Spec
CONSTANTS
    Hosts = {h1, h2}
    Clients = {}
    PoolSize = 1
    Cooldown = 1
    Interval = 2
PROPERTY EachIsVisited
