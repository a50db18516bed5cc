SPECIFICATION Spec
CONSTANTS
    twice = twice
    User = {u1}
    Request = {q1, q2}
    Cron = {twice}
    Occurs <- MCOccurs
    Once = Once
    OnceTimes = {1}
    MaxTasks = 1
    MaxIds = 2
    MaxTime = 2
    MaxFaults = 1
INVARIANT NotStartedWhileRunning
CHECK_DEADLOCK FALSE
