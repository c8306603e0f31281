SPECIFICATION LoopSpec
CONSTANTS
    Images <- MCLoopImages
    Observations <- MCLoopObservations
    Window = 8
    MinWindow = 10
    Options <- MCNoOptions
    Essentials <- MCEssentials
    CertBundle <- bundle
    CertDir <- MCCertDir
    Linkers <- MCLinkers
    FinalOf <- MCFinalOf
    SourceOf <- MCSourceOf
    Order <- MCLoopOrder
    HostPaths <- MCHostPaths
    Workloads <- MCWorkloads
    StemOf <- MCStemOf
    MaxPicks = 2
    MaxBuilds = 5
    MaxFaults = 1
INVARIANTS OutputOfOneBuild NothingSuggestedTwice ModelOnlyChooses AtMostThreeRequests RepairConverges
CHECK_DEADLOCK FALSE
