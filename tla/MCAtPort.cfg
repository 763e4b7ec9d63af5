CONSTANTS
    probe = probe
    text1 = text1
    text2 = text2
    ring = ring
    hangup = hangup
    NoOne = NoOne
    Exchanges <- MCExchanges
    Submissions <- MCSubmissions
    Urcs <- MCUrcs
    ChunkSize = 4
    MaxDeadlines = 2
SPECIFICATION PortSpec
CHECK_DEADLOCK FALSE
INVARIANTS AnswersMatch BodiesMatch EventsOnce
