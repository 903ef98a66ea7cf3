SPECIFICATION Spec
CONSTANTS
    Nobody = Nobody
    Users = {u1, u2, u3}
    Calls = {c1, c2}
    OwnRow = TRUE
    Lossy = TRUE
    MaxCalls = 6
SYMMETRY Symmetry
INVARIANTS TypeOK KeepsAdmin DistinctMembers PendingSound
PROPERTIES OnlyAdminsGovern
CHECK_DEADLOCK FALSE
