SPECIFICATION Spec
CONSTANTS
    Entries <- MCEntries
    Manifests <- MCManifests
    MaxEntries = 6
    MaxLayers = 2
INVARIANTS TypeOK ExtractsWhatRuntimeHas CopyComplete
CHECK_DEADLOCK FALSE
