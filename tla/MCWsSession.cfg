SPECIFICATION Spec
CONSTANTS
    Turn = {t1}
    Tool <- MCTool
    DenyListed <- MCDenyListed
    Destructive <- MCDestructive
    Permission <- MCPermission
    MaxRounds = 2
    MaxCalls = 2
    Capacity = 1
    MaxInFlight = 1
INVARIANTS
    TypeOK
    GatedCallsNeedFirstYes
    OneResultPerCall
PROPERTY ImplementsGate
CHECK_DEADLOCK FALSE
