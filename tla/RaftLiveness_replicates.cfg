SPECIFICATION ReplicationSpec
CONSTANTS
    Server = {s1, s2, s3}
    Value = {v1}
    ReadId = {}
    Nil = Nil
    SnapshotEvery = 0
    Lossy = TRUE
    Redeliver = FALSE
    MaxTerm = 1
    MaxLog = 2
    MaxInFlight = 2
    Campaigner = {s1}
PROPERTY ProposalsApplied
CHECK_DEADLOCK FALSE
