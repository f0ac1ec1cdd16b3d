SPECIFICATION Spec
CONSTANTS
    Key = {1, 2}
    Absent = Absent
    NumLevels = 2
    MemTableSize = 1
    SegmentSize = 2
    LevelBytesBase = 1
    TargetFileSize = 1
    Opts <- StallOpts
    MaxSeq = 4
    MaxEvents = 5
    MaxPins = 0
    IOErrors = FALSE
INVARIANT Recovers
CHECK_DEADLOCK FALSE
