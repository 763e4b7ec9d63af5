SPECIFICATION Spec
CONSTANTS
    long = long
    again = again
    short = short
    garbled = garbled
    reference = reference
    none = none
    Messages = {long, short}
    Unreadable = {}
    Total <- MCTotal
    ConcatKey <- MCConcatKey
    Slots = {0, 1}
    Retention = 1
    MaxClock = 2
    MaxCopies = 2
    MaxFaults = 2
    FaultPoints = {"prune", "list", "store", "assemble", "insert", "link", "delete", "crash"}
    NoPdu = NoPdu
    NoRow = NoRow
    Unlinked = Unlinked
INVARIANTS
    NoMessageTwice
PROPERTIES
    DeletedOnlyWhenStored
