SPECIFICATION FairSpec
CONSTANTS
    Clients = {c1, c2}
    Broadcasters = {b1}
    FrameCases <- MCFrameCases
    Listen = Listen
    NoClient = NoClient
    Requests <- MCFewRequests
    Tokens = {TRUE}
    MaxAuthFailures = 1
    MaxRequests <- MCFewQuota
    MaxBroadcasts = 1
    MaxThrows = 1
INVARIANTS
    PollSetAligned
    BroadcastReaches
    NotifiedOnce
PROPERTIES
    RequestsServed
    EndsReported
CHECK_DEADLOCK FALSE
