SPECIFICATION FairSpec
CONSTANTS
    Turn = {t1, t2}
    Tool <- MCGated
    DenyListed <- MCDenyListed
    Destructive <- MCDestructive
    Permission <- MCPermission
    MaxRounds = 1
    MaxCalls = 1
    Capacity = 1
    MaxInFlight = 2
INVARIANT WaitingIsAnswerable
PROPERTIES
    ImplementsFairGate
    TurnsEnd
    ClientHearsBack
    SessionIsTornDown
CHECK_DEADLOCK FALSE
