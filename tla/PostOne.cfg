SPECIFICATION Spec
CONSTANTS
    c1 = c1
    c2 = c2
    f1 = f1
    f2 = f2
    d1 = d1
    d2 = d2
    Containers = {c1}
    Files = {f1, f2}
    Workloads = {d1, d2}
    NoOwner = NoOwner
    Pods = {c1}
    UnownedNS = {c1}
    ControllerURL = TRUE
    ProfileDir = TRUE
    SnapshotInterval = TRUE
    MaxPosts = 2
    Signals = TRUE
    Crashes = TRUE
    LateDelivery = TRUE
    SlowResolve = TRUE
INVARIANTS SentInOrder OneAddressee FlushedExactlyOnce PostInv
PROPERTY ImplementsWindow
CHECK_DEADLOCK FALSE
