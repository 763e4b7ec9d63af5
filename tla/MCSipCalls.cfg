CONSTANTS
    first = first
    again = again
    other = other
    callA = callA
    callB = callB
    Ring = Ring
    Incoming = Incoming
    ApiCall = ApiCall
    None = None
    Invites <- MCInvites
    CallIDs <- MCCallIDs
    CallID <- MCCallID
    MaxFaults = 1
SPECIFICATION Spec
CHECK_DEADLOCK FALSE
INVARIANTS CallsCanBeHungUp BridgeHasDevice
