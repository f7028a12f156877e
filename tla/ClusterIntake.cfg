CONSTANTS
    Request = {r1, r2, r3, r4}
    Seed = seed
    Alias = {a, b}
    Name = {n, m, x}
    Allowed = {n, m}
    Key = {k}
    NoKey = nokey
    MaxFaults = 1
SPECIFICATION Spec
CHECK_DEADLOCK FALSE
SYMMETRY Symmetric
INVARIANTS
    NoOrphans
    AnswersFitTheBody
    KeyProvisionsOnce
    OnlyRemovedCredentialsStrand
