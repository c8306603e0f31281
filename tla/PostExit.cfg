SPECIFICATION Spec
CONSTANTS
    c1 = c1
    c2 = c2
    f1 = f1
    f2 = f2
    d1 = d1
    d2 = d2
    Containers = {c1, c2}
    Files = {}
    Workloads = {d1}
    NoOwner = NoOwner
    Pods = {c1, c2}
    UnownedNS = {}
    ControllerURL = TRUE
    ProfileDir = FALSE
    SnapshotInterval = FALSE
    MaxPosts = 0
    Signals = TRUE
    Crashes = FALSE
    LateDelivery = FALSE
    SlowResolve = FALSE
INVARIANT GracefulExitFlushesAll
CHECK_DEADLOCK FALSE
