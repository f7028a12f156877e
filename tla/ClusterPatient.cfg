SPECIFICATION FairSpec
CONSTANTS
    MaxRuns = 4
    MaxWorkers = 2
    MaxServers = 5
    MaxFaults = 1
    MaxCrashes = 1
    OneAtATime = TRUE
    MaskedHostDialable = TRUE
CHECK_DEADLOCK FALSE
INVARIANTS
    OnlyFailedRunsLoseServers
    OnlyRefusedJoinsStick
    SettledMatchesCloud
    DrainsWhatItDeletes
PROPERTIES
    ImplementsStates
    RunsSettle
