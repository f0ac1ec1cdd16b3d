SPECIFICATION MCSpec
SYMMETRY Interchangeable
CONSTANTS
    Server = {s1, s2, s3}
    Value = {}
    ReadId = {}
    Nil = Nil
    SnapshotEvery = 0
    Lossy = TRUE
    Redeliver = TRUE
    MaxTerm = 3
    MaxLog = 3
    MaxInFlight = 1
    MaxTimeout = 3
    MaxCrash = 0
    MaxTransfer = 0
INVARIANTS
    LeaderCompleteness
    StateMachineSafety
    LogMatching
PROPERTY CommittedKept
CHECK_DEADLOCK FALSE
