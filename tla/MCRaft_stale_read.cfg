SPECIFICATION MCSpec
SYMMETRY Interchangeable
CONSTANTS
    Server = {s1, s2, s3}
    Value = {v1}
    ReadId = {r1}
    Nil = Nil
    SnapshotEvery = 0
    Lossy = TRUE
    Redeliver = FALSE
    MaxTerm = 2
    MaxLog = 3
    MaxInFlight = 2
    MaxTimeout = 2
    MaxCrash = 0
    MaxTransfer = 0
INVARIANT LinearizableReads
CONSTRAINT DeposedUnaware
CHECK_DEADLOCK FALSE
