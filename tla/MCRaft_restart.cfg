SPECIFICATION MCSpec
SYMMETRY Interchangeable
CONSTANTS
    Server = {s1, s2, s3}
    Value = {v1}
    ReadId = {}
    Nil = Nil
    SnapshotEvery = 1
    Lossy = TRUE
    Redeliver = TRUE
    MaxTerm = 1
    MaxLog = 2
    MaxInFlight = 2
    MaxTimeout = 2
    MaxCrash = 2
    MaxTransfer = 0
INVARIANTS
    TypeOK
    ElectionSafety
    DurableLog
    LogIndexOrder
    NoPanic
PROPERTIES
    VoteKept
    CommittedKept
CONSTRAINT SingleAfterElection
CHECK_DEADLOCK FALSE
