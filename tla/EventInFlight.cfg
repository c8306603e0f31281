SPECIFICATION Spec
CONSTANTS
    c1 = c1
    c2 = c2
    etc = etc
    app = app
    proc = proc
    conf = conf
    bin = bin
    Containers = {c1}
    Synced = {}
    Dirs = {app}
    Names = {bin, conf}
    Home = app
    Denied = {}
    Entrypoint <- AppBin
    RingSize = 2
    MapEntries = 2
    Signals = FALSE
    Relative = FALSE
    Faults = FALSE
INVARIANT CleanTerminalIsComplete
CHECK_DEADLOCK FALSE
