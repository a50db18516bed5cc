SPECIFICATION LoopsSpec
CONSTANTS
    file_read = file_read
    bash = bash
    Tool = {file_read, bash}
    ConcurrentSafe = {file_read}
    MaxIterations = 3
    MaxContinuations = 1
    MaxCalls = 3
    MaxIgnored = 1
    MaxResumes = 2
    User = {u1}
    Request = {q1, q2}
    Cron = {twice}
    Once = Once
    OnceTimes = {1}
    MaxTasks = 1
    MaxIds = 2
    MaxTime = 2
    MaxFaults = 1
INVARIANTS
    TypeOK
    ContextIsRecord
    RequestsWellFormed
    UnsafeRunsAlone
PROPERTIES
    LoopReturns
    FocusedDueIsStarted
CHECK_DEADLOCK FALSE
