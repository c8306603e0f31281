SPECIFICATION Spec
CONSTANTS
    c1 = c1
    c2 = c2
    etc = etc
    app = app
    proc = proc
    conf = conf
    bin = bin
    Containers = {c1, c2}
    Synced = {c2}
    Dirs = {app}
    Names = {bin, conf}
    Home = app
    Denied = {}
    Entrypoint <- AppBin
    RingSize = 1
    MapEntries = 2
    Signals = FALSE
    Relative = FALSE
    Faults = TRUE
INVARIANTS LossNeverUnderstated AllowedHasAggregator UntrackedOnlyAfterStop DrainedCleanIsComplete
CHECK_DEADLOCK FALSE
