SPECIFICATION Spec
CONSTANTS
    RotateSize = 2
    MaxFileNum = 4
    MaxPending = 2
    MaxCrash = 2
INVARIANTS EditsKept ManifestReadable LiveTablesKept NumbersFresh
PROPERTY AtomicVersions
