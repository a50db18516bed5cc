SPECIFICATION Spec
CONSTANTS
    twice = twice
    User = {u1}
    Request = {q1, q2}
    Cron = {twice}
    Occurs <- MCOccurs
    Once = Once
    OnceTimes = {1}
    MaxTasks = 1
    MaxIds = 3
    MaxTime = 2
    MaxFaults = 2
INVARIANTS
    StartsAdvance
    DeletedStartsOnceMore
    TaskCap
PROPERTIES
    NoneForgotten
SYMMETRY MCSymmetry
CHECK_DEADLOCK FALSE
