SPECIFICATION Spec
CONSTANTS
    Nonce = {n1}
    Call = {c1, c2}
    FlowLife = 1
    Lifetime = 3
    Margin = 1
    MaxRoundTrip = 1
    MaxTime = 3
    MaxTokens = 3
    MaxFaults = 1
    Never = Never
SYMMETRY MCSymmetry
INVARIANTS
    TypeOK
    FlowsUsedOnce
    HandedOutIsUsable
    RowStaysRenewable
CHECK_DEADLOCK FALSE
