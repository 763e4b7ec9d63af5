SPECIFICATION FairSpec
CONSTANTS
    c1 = c1
    w1 = w1
    w2 = w2
    w3 = w3
    w4 = w4
    Calls = {c1}
    Workers = {w1, w2, w3, w4}
    Jobs <- MCJobs
    MaxRecordings = 2
    FailingPoints = {"start", "stop", "delete", "link", "encode", "publish"}
    MaxFaults = 1
    MaxCrashes = 2
CHECK_DEADLOCK FALSE
INVARIANTS
    SoundIsKept
    ReadyIsPlayable
    RestartSettles
    CallRowAgrees
PROPERTIES
    CleanRowsAreFinal
    FinalizingEnds
