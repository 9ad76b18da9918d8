SPECIFICATION FairSpec
CONSTANTS
    CursorThread = cursor
    TextThread = text
    ServerThread = server
    CommandThreads = {server, audio}
    NoThread = none
    Hashes = {1, 2, 3}
    LenOf <- MCLenOf
    MaxSendQueue = 3
    MaxCached = 2
    SockBuf = 1
    MaxPackets = 3
INVARIANTS
    Framing
    QueueBounded
    ShortAfterFull
    SuppressedIsShown
PROPERTIES
    ChannelSpec
    QueueDrains
CHECK_DEADLOCK FALSE
