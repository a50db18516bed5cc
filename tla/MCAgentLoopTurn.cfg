SPECIFICATION Spec
CONSTANTS
    file_read = file_read
    bash = bash
    Tool = {file_read, bash}
    ConcurrentSafe = {file_read}
    MaxIterations = 3
    MaxContinuations = 1
    MaxCalls = 3
    MaxIgnored = 1
    MaxResumes = 2
INVARIANT IterationsPerTurn
CHECK_DEADLOCK FALSE
