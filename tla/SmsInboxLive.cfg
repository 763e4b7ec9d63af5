SPECIFICATION FairSpec
CONSTANTS
    long = long
    again = again
    short = short
    garbled = garbled
    reference = reference
    none = none
    Messages = {long, again, garbled}
    Unreadable = {garbled}
    Total <- MCTotal
    ConcatKey <- MCConcatKey
    Slots = {0, 1}
    Retention = 1
    MaxClock = 0
    MaxCopies = 2
    MaxFaults = 2
    FaultPoints = {"prune", "list", "store", "delete"}
    NoPdu = NoPdu
    NoRow = NoRow
    Unlinked = Unlinked
INVARIANTS
    RowsAreWhole
PROPERTIES
    EveryMessageAnnounced
    SlotsDrain
