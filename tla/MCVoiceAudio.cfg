SPECIFICATION Spec
CONSTANTS
    web = web
    again = again
    dialog = dialog
    webCall = webCall
    sipCall = sipCall
    Sessions = {web, again, dialog}
    Sip = {dialog}
    Calls = {webCall, sipCall}
    CallOf <- MCCallOf
    NoCall = NoCall
    NoPair = NoPair
    FaultPoints = {"adb", "route", "spawn"}
    MaxFaults = 1
SYMMETRY MCSymmetry
CHECK_DEADLOCK FALSE
INVARIANTS
    NoCrossTalk
    NoOrphanProcess
    DeviceIsReleased
