SPECIFICATION FairSpec
CONSTANTS
    N = 2
    Words = {w1, w2}
    MaxRetries = 2
    MaxFrames = 5
    MaxKills = 1
INVARIANTS TornOnlyWhereKilled FreshRead EqualMeansNoNewData
PROPERTIES StepBackByOne CatchesUp
CHECK_DEADLOCK FALSE
