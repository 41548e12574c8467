SPECIFICATION FairSpec
CONSTANTS
    Trackers = {t1, t2}
    Headset = Headset
    None = None
    Timings <- MCTimings
    DefaultTiming <- Slow
    MaxStale = 1
    MaxTransition = 2
INVARIANTS OldTrackerGone
PROPERTIES NoJump SteadyDrives LostFallsBack
