CONSTANTS
    Client = {c1, c2}
    Capacity = 1
    MaxEvents = 3
    MaxRuns = 2
SPECIFICATION FairSpec
CHECK_DEADLOCK FALSE
INVARIANTS NoReceiverStranded NothingMissedSilently
PROPERTY TerminalIsForwarded
