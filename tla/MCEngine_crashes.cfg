SPECIFICATION Spec
CONSTANTS
    Key = {1, 2}
    Absent = Absent
    NumLevels = 3
    MemTableSize = 1
    SegmentSize = 2
    LevelBytesBase = 1
    TargetFileSize = 1
    Opts <- CrashOpts
    MaxSeq = 3
    MaxEvents = 4
    MaxPins = 1
    IOErrors = TRUE
INVARIANTS ReadsSnapshot Recovers CanReopen PendingKept  CloseDrains WaitersBacked
CHECK_DEADLOCK FALSE
