SPECIFICATION FairSpec
CONSTANTS
    Pids = {p1, p2}
    Ext = ext
    None = None
    Ipc = ipc
    Worker = worker
    Threshold = 2
    MaxBackoff = 1
    ExtStates = {"dead", "ready", "hung"}
INVARIANTS TypeOK NoHostOutlivesDriver
PROPERTIES BreakerHolds StopReturns Recovers
CHECK_DEADLOCK FALSE
