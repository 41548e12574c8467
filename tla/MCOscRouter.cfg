SPECIFICATION FairSpec
CONSTANTS
    Capacity = 2
    Ports = {p1, p2}
    Port0 = p1
    FirstOpen = {TRUE, FALSE}
    LaterOpen = {TRUE, FALSE}
    MaxPublish = 3
    MaxEdits = 2
INVARIANTS AtMostOneStray
PROPERTIES IsBoundedFifo DropsOnlyWhenFull EditTakesEffect Drains ShutdownReturns
CHECK_DEADLOCK FALSE
