CONSTANTS
    Account = {"g1", "g2"}
    Email = {"e1", "e2"}
    Member = "e1"
    First = "g1"
    Organization = {o1, o2}
    PoolSize = 2
    MaxLogins = 2
    MaxSessions = 2
    Request = {r1, r2, r3}
SPECIFICATION SignInSpec
CHECK_DEADLOCK FALSE
SYMMETRY Peers
INVARIANTS SessionsFollowTheLink GateHolds SomeRequestMoves
