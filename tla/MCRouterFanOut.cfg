\* One call at a time to three pods, two of them on one node: results, slots,
\* the closing of the channel, that every call returns, and what the answers of
\* the two do to the circuit they share.
SPECIFICATION FairSpec
CONSTANTS
    p1 = p1  p2 = p2  p3 = p3
    n1 = n1  n2 = n2
    Handlers = {h1}
    Nodes = {n1, n2}
    Threshold = 2
    FailureCap = 2
    Calls = {c1}
    Pods = {p1, p2, p3}
    NodeOf <- RollingUpdate
    MaxConcurrency = 2
    Crashable = {n1}
    Cancellable = {c1}
INVARIANTS TypeOK SlotsAreHeld NoSendAfterClose OneResultPerReadyPod AnswersAreReturned
    CounterMatchesState GaugeSpeaksForOne
PROPERTIES EveryCallReturns RecoveredIsReadmitted
