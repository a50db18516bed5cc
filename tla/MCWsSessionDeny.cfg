SPECIFICATION Spec
CONSTANTS
    Turn = {t1}
    Tool <- MCDenied
    DenyListed <- MCDenyListed
    Destructive <- MCDestructive
    Permission <- MCPermission
    MaxRounds = 1
    MaxCalls = 1
    Capacity = 1
    MaxInFlight = 1
INVARIANT DeniedToolsNeverRun
CHECK_DEADLOCK FALSE
