\* Two claims that the code does not keep: the second is checked with the first left out.
SPECIFICATION FairSpec
CONSTANTS
    Kinds = {"terminal", "logs"}
    MaxBacklog = 1
    MaxResizes = 1
PROPERTIES LostIsAborted TerminalLeaves
CHECK_DEADLOCK FALSE
