SPECIFICATION LineSpec
CONSTANTS
    d1 = d1
    p1 = p1
    p2 = p2
    w1 = w1
    w2 = w2
    f1 = f1
    DialIds = {}
    PhysIds = {p1, p2}
    CallIds = {p1, p2}
    Handlers = {w1, w2}
    Attempts = {w1, w2, f1}
    Ops <- IncomingOps
    FailureOf <- MCFailureOf
    HangupReasons = {client, failed}
    ClientHangup = client
    DialFailed = failed
    RemoteReasons = {local, carrier}
    LocalEnd = local
    NoCarrier = carrier
    MediaReasons = {}
    FailingCommands = {"ATA", "ATH"}
    CutCommands = {"ATA", "ATH"}
    EventCapacity = 4
    MaxRings = 2
    None = None
    NoReason = NoReason
    NoCall = NoCall
    NoResult = NoResult
CHECK_DEADLOCK FALSE
VIEW IncomingView
SYMMETRY LineSymmetry
INVARIANTS
    UnattendedLineAgrees
    CallsAreRecorded
PROPERTIES
    OnlyRollbackOrphans
