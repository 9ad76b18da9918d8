SPECIFICATION Spec
CONSTANTS
    Packets <- MCPackets
    MaxPackets = 3
    Field = 2
    MagicHash = 7
    LastFailure = 6
    MaxBody = 18
    Slack = 2
    RecvSize = 4
INVARIANTS
    TypeOK
    DispatchedInOrder
    NothingLeftBehind
PROPERTIES
    OnlyFloodsSwell
CHECK_DEADLOCK FALSE
