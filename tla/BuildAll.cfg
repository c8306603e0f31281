SPECIFICATION Spec
CONSTANTS
    Images <- MCImages
    Observations <- MCObservations
    Window = 8
    MinWindow = 10
    Options <- MCOptions
    Essentials <- MCEssentials
    CertBundle <- bundle
    CertDir <- MCCertDir
    Linkers <- MCLinkers
    FinalOf <- MCFinalOf
    SourceOf <- MCSourceOf
    Order <- MCOrder
    HostPaths <- MCHostPaths
INVARIANTS TypeOK KindsAgree ManifestResolves RemovedExact EnsuredUnlessListed SkipCountBounded ScoreIsTheProfiles
CHECK_DEADLOCK FALSE
