SPECIFICATION MCSpec
SYMMETRY Interchangeable
CONSTANTS
    Server = {s1, s2, s3}
    Value = {v1}
    ReadId = {r1}
    Nil = Nil
    SnapshotEvery = 0
    Lossy = TRUE
    Redeliver = FALSE
    MaxTerm = 2
    MaxLog = 2
    MaxInFlight = 1
    MaxTimeout = 2
    MaxCrash = 0
    MaxTransfer = 1
CONSTRAINT ReadOrTransfer
INVARIANTS
    NoStrandedWaiter
    Quiescent
    TransferTargetComplete
    AckedOnQuorum
CHECK_DEADLOCK FALSE
