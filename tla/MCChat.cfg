SPECIFICATION ChatSpec
CONSTANTS
    Turn = {t1, t2}
    Tool <- MCTool
    DenyListed <- MCDenyListed
    Destructive <- MCDestructive
    Permission <- MCPermission
    MaxRounds = 1
    MaxCalls = 1
    Capacity = 1
    MaxInFlight = 2
    MaxUnread = 2
INVARIANTS
    ChatTypeOK
    LostPromptsStayUnanswered
    OnlyReadOnlyRunsUnasked
SYMMETRY MCSymmetry
CHECK_DEADLOCK FALSE
