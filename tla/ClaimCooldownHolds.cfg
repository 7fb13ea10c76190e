\* The row is read before the in-flight map is.
SPECIFICATION Spec
CONSTANTS
    Hosts = {h1}
    Clients = {c1}
    PoolSize = 1
    Cooldown = 1
    Interval = 2
PROPERTY CooldownHolds
