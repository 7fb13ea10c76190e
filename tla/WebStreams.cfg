\* A terminal and container logs.
SPECIFICATION FairSpec
CONSTANTS
    Kinds = {"terminal", "logs"}
    MaxBacklog = 2
    MaxResizes = 2
PROPERTY HangUpEnds
CHECK_DEADLOCK FALSE
