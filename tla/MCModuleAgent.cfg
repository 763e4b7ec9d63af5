SPECIFICATION Spec
CONSTANTS
    d1 = d1
    d2 = d2
    h1 = h1
    h2 = h2
    m1 = m1
    ticker = ticker
    None = None
    Dials <- MCDials
    Hangups <- MCHangups
    Messages <- MCMessages
    Refreshers <- MCRefreshers
    Rounds <- MCRounds
    Attempts = 2
    Limit = 2
    Buffer = 1
    MaxRestarts = 1
CHECK_DEADLOCK FALSE
SYMMETRY MCSymmetry
INVARIANTS
    SentOnce
    CallsAreHeld
PROPERTIES
    NoSilentHoles
