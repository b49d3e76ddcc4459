\* Two callers, two PIDs, two containers, a cache of one entry.
SPECIFICATION Spec
CONSTANTS
    Callers = {g1, g2}
    Pids = {p1, p2}
    Containers = {k1, k2}
    staleTTL = 1
    maxCache = 1
    MaxTime = 1
SYMMETRY Symmetry
INVARIANTS
    CacheIsBounded
    MapsTheLivingProcess
