SPECIFICATION Spec
CONSTANTS
    OpenFlags <- MCOpenFlags
    Raw <- MCRaw
    Scripts <- MCScripts
    NameOf <- MCNameOf
    Interval = 2
    MinWindow = 5
    MaxTime = 4
    MaxAccesses = 2
INVARIANTS RecordsWhatWasDone SnapshotsGrow SnapshotPace
CHECK_DEADLOCK FALSE
