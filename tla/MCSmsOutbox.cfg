SPECIFICATION FairSpec
CONSTANTS
    long = long
    again = again
    short = short
    sip = sip
    reader = reader
    deleter = deleter
    dev = dev
    NoKey = NoKey
    Requests = {long, again, short, sip, reader, deleter}
    Kind <- MCKind
    Key <- MCKey
    Device <- MCDevice
    Parts <- MCParts
    Target <- MCTarget
    FailingPoints = {"claim", "insert", "answer", "status", "apply", "complete", "crash"}
    MaxRequests = 3
    MaxFaults = 1
CHECK_DEADLOCK FALSE
INVARIANTS
    StatusIsTrue
    OutcomeIsTrue
    RepliesAgree
    NoStuckKey
PROPERTIES
    AtMostOnce
    RequestsEnd
