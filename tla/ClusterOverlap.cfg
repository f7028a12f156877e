SPECIFICATION Spec
CONSTANTS
    MaxRuns = 3
    MaxWorkers = 2
    MaxServers = 4
    MaxFaults = 1
    MaxCrashes = 1
    OneAtATime = FALSE
    MaskedHostDialable = TRUE
CHECK_DEADLOCK FALSE
INVARIANTS
    ReadyHasKubeconfig
    ReportedReadyIsRecorded
    ReportedGoneIsDeleted
