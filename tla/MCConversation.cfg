SPECIFICATION Spec
CONSTANTS
    Turn = {t1, t2, t3}
    Window = 4
    MaxRounds = 1
    MaxActive = 2
    MaxClears = 1
    MaxFaults = 1
    MaxMishaps = 2
SYMMETRY MCSymmetry
INVARIANTS
    TypeOK
    RequestsWellFormed
    StoredInOrder
    AllOrNothing
    ClearedStaysCleared
CHECK_DEADLOCK FALSE
