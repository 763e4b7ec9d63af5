CONSTANTS
    code1 = code1
    code2 = code2
    phone1 = phone1
    phone2 = phone2
    refresh1 = refresh1
    refresh2 = refresh2
    request = request
    None = None
    Pairings <- MCPairings
    Completions <- MCCompletions
    Refreshes <- MCRefreshes
    Others <- MCOthers
    MaxFaults = 1
SYMMETRY MCSymmetry
SPECIFICATION Spec
CHECK_DEADLOCK FALSE
INVARIANTS PairsOnce OneRefreshToken NeverSignedOut
PROPERTY RevokedStaysOut
