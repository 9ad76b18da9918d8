SPECIFICATION Spec
CONSTANTS
    Clients = {c1}
    Broadcasters = {b1}
    FrameCases = {{}}
    Listen = Listen
    NoClient = NoClient
    Requests <- MCAuthRequests
    Tokens = {TRUE, FALSE}
    MaxAuthFailures = 2
    MaxRequests <- MCAuthQuota
    MaxBroadcasts = 1
    MaxThrows = 0
INVARIANTS
    ChangesAuthorised
    NothingAfterTheLimit
    Answered
CHECK_DEADLOCK FALSE
