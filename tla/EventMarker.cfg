SPECIFICATION Spec
CONSTANTS
    c1 = c1
    c2 = c2
    etc = etc
    app = app
    proc = proc
    conf = conf
    bin = bin
    Containers = {c1}
    Synced = {}
    Dirs = {app, etc, proc}
    Names = {bin}
    Home = app
    Denied = {proc}
    Entrypoint <- AppBin
    RingSize = 1
    MapEntries = 1
    Signals = TRUE
    Relative = TRUE
    Faults = TRUE
INVARIANTS TypeOK StartMarkerSound
CHECK_DEADLOCK FALSE
