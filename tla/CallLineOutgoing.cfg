SPECIFICATION LineSpec
CONSTANTS
    d1 = d1
    p1 = p1
    p2 = p2
    w1 = w1
    w2 = w2
    f1 = f1
    DialIds = {d1}
    PhysIds = {p1}
    CallIds = {d1, p1}
    Handlers = {w1, w2}
    Attempts = {w1, w2, f1}
    Ops <- OutgoingOps
    FailureOf <- MCFailureOf
    HangupReasons = {client, failed}
    ClientHangup = client
    DialFailed = failed
    RemoteReasons = {local, carrier}
    LocalEnd = local
    NoCarrier = carrier
    MediaReasons = {}
    FailingCommands = {"ATD"}
    CutCommands = {"ATD"}
    EventCapacity = 4
    MaxRings = 1
    None = None
    NoReason = NoReason
    NoCall = NoCall
    NoResult = NoResult
CHECK_DEADLOCK FALSE
VIEW OutgoingView
INVARIANTS
    NoHiddenCall
    CallsAreRecorded
PROPERTIES
    OnlyRollbackOrphans
