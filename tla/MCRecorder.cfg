\* Two callers whose Starts do not overlap with their Stops, three starts.
SPECIFICATION FairSpec
CONSTANTS
    Threads = {t1, t2}
    GPUs = {g1, g2}
    Capacity = 2
    MaxStarts = 3
    MaxTime = 2
    MayOverlap = FALSE
INVARIANTS RunningIsSampling NoUseAfterShutdown BuffersAreSorted
PROPERTIES StopReturns
CHECK_DEADLOCK FALSE
