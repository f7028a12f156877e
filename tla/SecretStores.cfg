CONSTANTS
    Pod = {p1}
    Migrator = {m1, m2}
    Value = {v, w}
    MaxId = 2
    BatchSize = 1
    MaxFaults = 1
SPECIFICATION FairSpec
INVARIANTS SecretsReadable CleanExitCovers
PROPERTY Converges
