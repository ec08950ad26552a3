CONSTANTS
    RingSize = 3
    ReadChunk = 2
    SendChunk = 1
    MaxIface = 2
    Ids = {1, 2}
    MaxConn = 2
    MaxBytes = 3
    MaxSend = 2
    MaxAsked = 2
    MaxResets = 1
    Wedges = TRUE
SPECIFICATION FairSpec
INVARIANT StreamIntact
INVARIANT ReplyIsMine
INVARIANT SentOnce
INVARIANT CloseCloses
INVARIANT LeftClean
PROPERTY CallsReturn
