\* Both watchers or one of them; a watcher alone is restarted.
SPECIFICATION Spec
CONSTANTS
    Registrations = {r1}
    Wirings <- EveryWiring
    StopAll = FALSE
    XidThreads = {t1}
    XidCapacity = 2
    XidStarts = 2
    XidEvents = 2
    XidUnread = 1
    CriticalXids = {2}
    K8sThreads = {t2}
    K8sCapacity = 1
    K8sStarts = 2
    K8sUpdates = 0
    K8sEvents = {1, 2}
    RelevantK8s = {1}
    CriticalK8s = {1}
INVARIANTS StoppedIsQuiet NoCallbackAfterCleanup ReportsAreComplete XidReportedOnce
CHECK_DEADLOCK FALSE
