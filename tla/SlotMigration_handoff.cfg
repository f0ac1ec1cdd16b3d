SPECIFICATION FairSpec
CONSTANTS
    Node = {n1, n2}
    Group = {g1, g2}
    Key = {k1}
    WriteId = {w1, w2}
    Absent = Absent
    Coordinator = {n1}
    StaleCopies = FALSE
    LateWrites = FALSE
    MaxMigrate = 2
    MaxElection = 1
INVARIANT NeverStranded
PROPERTIES SlotIsOneStore CleanupUnrouted FreezeEnds
CHECK_DEADLOCK FALSE
