SPECIFICATION Spec
CONSTANTS
    Node = {n1, n2}
    Group = {g1, g2}
    Key = {k1}
    WriteId = {w1, w2}
    Absent = Absent
    Coordinator = {n1}
    StaleCopies = TRUE
    LateWrites = TRUE
    MaxMigrate = 1
    MaxElection = 0
INVARIANT OvertakenRefused
CHECK_DEADLOCK FALSE
