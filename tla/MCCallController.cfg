SPECIFICATION MCSpec
CONSTANTS
    CallIds = {c1, c2}
    Attempts = {n1}
    HangupReasons = {h1}
    RemoteReasons = {e1}
    MediaReasons = {m1}
    NoReason = NoReason
    NoCall = NoCall
    NoResult = NoResult
    MaxRequests = 4
SYMMETRY CallSymmetry
INVARIANTS
    ActiveNeedsBothLegs
PROPERTIES
    LineChangesOnlyThroughFinish
