CONSTANTS
    Credential = {"k1", "k2"}
    Registered <- OneRegistered
    Session = {s1, s2}
    MaxRequests = 3
    MaxCeremonies = 2
    MaxCounter = 1
    BatchSize = 1
SPECIFICATION Spec
CHECK_DEADLOCK FALSE
SYMMETRY Peers
INVARIANTS EnrolledTracksPasskeys PromotedByOwnProof CountersNeverRepeat
