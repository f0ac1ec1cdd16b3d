SPECIFICATION Spec
CONSTANTS
    Session = {c1}
    Request = {w1}
    FrontDoor = FrontDoor
    Noop = Noop
    Nil = Nil
    SnapshotEvery = 1
    MaxSeq = 2
    MaxIndex = 2
    MaxTerm = 2
    MaxStops = 2
INVARIANTS EngineIsPrefix SyncedKept Reopenable NoGroupLeaks WaitersQueued
CHECK_DEADLOCK FALSE
