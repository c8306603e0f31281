SPECIFICATION FairSpec
CONSTANTS
    app = app
    ldLink = ldLink
    ld = ld
    laLink = laLink
    la = la
    lbSys = lbSys
    lbOwn = lbOwn
    script = script
    nowhere = nowhere
    libA = libA
    libB = libB
    libM = libM
    sys = sys
    own = own
    main = main
    inc1 = inc1
    inc2 = inc2
    NoPath = NoPath
    Paths <- MCPaths
    Libs <- MCLibs
    Dirs <- MCDirs
    Confs = {main, inc1, inc2}
    MainConf = main
    Standard <- MCStandard
    Elfs <- MCElfs
    Real <- MCReal
    At <- MCAt
    Images <- MCImages
INVARIANTS TypeOK OnlyNeeded EveryNeedAccounted InterpreterIncluded AuditTrail
PROPERTY ResolutionEnds
CHECK_DEADLOCK FALSE
