SPECIFICATION FairMessageSpec
CONSTANTS
    Captions = TRUE
    MaxSets = 3
    MaxRestarts = 2
    MaxExits = 2
INVARIANTS SentMeansWritten
PROPERTIES EventuallyWritten RestartReachesHost
CHECK_DEADLOCK FALSE
