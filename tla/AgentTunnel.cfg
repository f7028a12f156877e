CONSTANTS
    Stream = {1, 2}
    Cluster = {"c1", "c2"}
    Organization = {"o1", "o2"}
    OwnerOf <- TwoOwners
    Own = "c1"
    Version = {"v1", "v2"}
    Capacity = 1
    BaseMs = 2
    CapMs = 3
    MaxExponent = 1
    MaxAttempt = 1
    MaxErrors = 2
    MaxOthers = 2
SPECIFICATION TunnelSpec
INVARIANTS  MetricsFollowHeartbeats
PROPERTY VersionSettles
