CONSTANTS
    Version = {"v1", "v2"}
    MaxRequests = 3
SPECIFICATION AddonsSpec
CHECK_DEADLOCK FALSE
INVARIANTS StatusTellsRelease KubeconfigsAreRemoved
PROPERTY InstallEnds
