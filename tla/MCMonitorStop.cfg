\* One watcher, under fairness: stops, cleanups and reports come to their end.
SPECIFICATION FairSpec
CONSTANTS
    Registrations = {r1}
    Wirings <- OneOnly
    StopAll = FALSE
    XidThreads = {t1}
    XidCapacity = 1
    XidStarts = 2
    XidEvents = 2
    XidUnread = 1
    CriticalXids = {2}
    K8sThreads = {t2}
    K8sCapacity = 1
    K8sStarts = 1
    K8sUpdates = 1
    K8sEvents = {1}
    RelevantK8s = {1}
    CriticalK8s = {1}
PROPERTIES CleanupTerminates StopReturns CriticalEventsAreReported
CHECK_DEADLOCK FALSE
