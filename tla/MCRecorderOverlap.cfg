\* A Stop beside a Start, against the comment that Stop is safe to call if the
\* recorder was not started.
SPECIFICATION Spec
CONSTANTS
    Threads = {t1, t2}
    GPUs = {g1}
    Capacity = 2
    MaxStarts = 3
    MaxTime = 1
    MayOverlap = TRUE
INVARIANT StopNeverPanics
CHECK_DEADLOCK FALSE
