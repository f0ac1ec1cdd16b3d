SPECIFICATION MCSpec
SYMMETRY Interchangeable
CONSTANTS
    Server = {s1, s2, s3}
    Value = {v1}
    ReadId = {}
    Nil = Nil
    SnapshotEvery = 0
    Lossy = TRUE
    Redeliver = FALSE
    MaxTerm = 2
    MaxLog = 1
    MaxInFlight = 2
    MaxTimeout = 2
    MaxCrash = 1
    MaxTransfer = 0
INVARIANT StateMachineSafety
CHECK_DEADLOCK FALSE
