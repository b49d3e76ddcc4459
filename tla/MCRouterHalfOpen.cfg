\* Two overlapping calls to a node that may crash, against the comment that a
\* half-open circuit lets one request through.
SPECIFICATION Spec
CONSTANTS
    p1 = p1  p2 = p2  p3 = p3
    n1 = n1  n2 = n2
    Handlers = {h1}
    Nodes = {n1}
    Threshold = 2
    FailureCap = 2
    Calls = {c1, c2}
    Pods = {p1}
    NodeOf <- OnlyPod
    MaxConcurrency = 1
    Crashable = {n1}
    Cancellable = {}
INVARIANT HalfOpenAllowsOne
